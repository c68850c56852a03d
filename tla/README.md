# A verification development of adamas-rs

adamas-rs is an LCF-style proof kernel: a theorem is a value that only ten
primitive rules and a few gates can make, and everything above them (rewriting,
certificates, connectives, a tautology prover) is untrusted code that can fail
to prove something but not prove something false. This directory models that
arrangement in TLA+, checks it with TLC on small instances, and proves the
central claims with TLAPS.

Paths below are relative to the crate: `rules.rs` is `src/src/kernel/rules.rs`.

## Inventory

| Part | State | Operations | How it meets the others |
|---|---|---|---|
| Intern table (`intern.rs`) | key table, nodes, cached data | `intern`, `node`, `aux` | one for types and one for terms; a rank *is* the term everywhere else |
| Types (`types.rs`) | the registry of type constructors | `ty_var`, `ty_con`, `new_type`, `ty_subst`, `ty_match` | registry shared by every theory of a kernel |
| Terms (`term.rs`) | none of its own | constructors, `bind`, `subst_bound`, `subst`, `inst_type_term`, `variant` | constructors read the cached type, dangling index and free variables of the children |
| Kernel (`mod.rs`, `rules.rs`) | registry, theories with constants and ledgers | gates `new_theory`, `new_type`, `new_constant`, `new_axiom`, `new_basic_definition`, `new_basic_type_definition`; ten rules | theorem values leave the kernel and come back as arguments |
| Derived rules (`derived.rs`) | none | `sym`, `ap_term`, `prove_hyp`, `eqt_elim`, `beta_reduce` ... | calls the rules only |
| Positions (`path.rs`) | none | `subterm`, `replace`, `positions`, `path_opener` | names the variable a binder is opened with from its position |
| Matching (`matching.rs`) | none | `match_pattern`, `instantiate_match` | its maps are ordered by rank, so by what this process interned first |
| Certificates, rule sets (`certificate.rs`) | registered rules | `RuleSet::add`, `fetch` | written by a conversion, read by replay |
| Replay (`replay.rs`) | the open calls of `prove_certificate` | `prove_certificate` | rebuilds a certificate with the rules, or refuses |
| Term order (`order.rs`) | none | `term_greater` | lets a permutative rule fire downwards only |
| Conversions, witnesses, rewriter | none | combinators, two algebras, `rewrite` | call back into conversions and into a `Builder` |
| Connectives (`booleans.rs`, `logic/mod.rs` and a file for each) | eight definitions in a theory, the bootstrap the program holds | `install_logic`, 23 derived rules | gates in a fixed order, then rules; every later call takes the bootstrap |
| Simplification rules (`logic/simp.rs`) | a rule set | sixteen derivations, registered in order | read by the rewriter |
| Classical logic (`logic/classical.rs`) | one constant, two axioms, the bundle | `install`, `select_rule`, `em` | asserts, then derives excluded middle with the connectives' rules |
| Tautologies (`logic/taut.rs`) | the open calls of the search | `prove_with_limit`, `decide` | excluded middle splits, the rewriter and replay close a leaf |

The program is sequential: one caller holds `&mut Kernel`. What makes it hard is
not concurrency but

* **long sequences of legal calls**: a side condition that one rule forgets
  becomes a falsehood many rules later, and names, axioms and definitions of
  several theories meet in one registry;
* **partial failure**: a gate writes several tables and may refuse in between;
* **data cached or keyed by an order this process chose**: free variables and
  ranks stand for terms, and substitutions and hypotheses are sorted by rank;
* **claims that travel**: a certificate is written in one place, perhaps
  changed, and believed only as far as replay can rebuild it;
* **budgets**: bounded repetition decides what is called a normal form, and
  what a search calls unprovable;
* **installation in steps**: eight definitions and two axioms, any of which may
  be refused, and nothing that undoes the ones before;
* **hypotheses in flight**: a derivation assumes, cuts and discharges, and one
  assumption too few or too many is a false or a useless theorem;
* **recursion through a stack of half-done calls**: replay and TAUT call
  themselves, and what an open call keeps must still fit when the call above it
  returns.

What makes each part correct: the intern table never gives one rank to two
shapes or two ranks to one; a theorem is true in every model of its theory; a
definition is conservative; a name keeps its meaning; a refused gate asserts
nothing; what replay proves is what the certificate says; what a conversion
emits is what it did; a complete rewrite is a normal form; a derived rule
answers the sequent its comment promises; an installation is whole or yields
nothing to call with; what TAUT proves is its goal, and it answers.

## Modules

| Module | Models | State | Actions |
|---|---|---|---|
| `HashCons` | what an intern table promises | `known`, the answers given | `Answer` |
| `Interner` | `intern.rs` with the constructors that use it | `table`, `nodes`, `aux` as in the code; `held`, the ranks the program keeps with what it asked for | `MakeLeaf`, `MakePair`, each a call of `Intern` |
| `TermNodes` | nodes and cached data of types and terms | - | constructors and tests, no recursion |
| `HolTerms` | the recursive half of the term layer | - | `Bind`, `SubstBound`, `Subst`, `InstTypeTerm`, `TyMatch` ... |
| `Rules` | the ten rules and `sequent` | - | one operator for each rule |
| `Kernel` | `Kernel` and the program that calls it | `registry`, `theories`, `thms` (what the program holds), `outcome` | one action for each gate and rule, and `Drop` |
| `KernelSoundness` | what a theorem means, what a term mentions, the laws the proofs use of both, and the properties | as `Kernel` | - |
| `HolSemantics` | the finite standard model TLC evaluates meanings in | - | - |
| `TwoKernels` | two kernels in one program | two copies | each kernel's steps, `HandOver` |
| `Derived` | rules derived without recursion over terms | - | one operator for each |
| `Ranks` | the order of ranks, where the code sorts by it | `order` | - |
| `Paths`, `Matching`, `TermOrder` | `path.rs`, `matching.rs`, `order.rs` | as `Ranks` | - |
| `Replay` | `certificate.rs`, `replay.rs` as an operator, which conversions and TAUT call | - | `CanAdd`, `ProveCertificate` |
| `Replayer` | `replay.rs` one call of a rule at a time | `calls`, the open calls of `prove_certificate`, each with its chain, frames and conditions; `left`, `proof`, `verdict`; the `rules` and `certificate` it reads | `StartReplay`, `TakeStep`, `Descend`, `FetchRule`, `LeaveCondition`, `EnterCondition`, `AnswerCondition`, `TurnBack`, `Ascend`, `Lengthen`, `Answer`; `NewCertificate` and `NewRules` of the program |
| `Witnesses` | the operations of `witness.rs` that run no conversion, in both algebras | - | `ReflWitness`, `Seq2`, `CombWitness`, `UnderWitness` |
| `Conversions` | `conversion.rs`, `rewriter.rs`, the rest of `witness.rs` | - | conversions as values, `Call` runs one in either algebra |
| `Rewriting` | a program that rewrites by certificate | as `Replayer`, with `maker` and `direct` | `AddRule`, `CertifyAndProve`, `RunRewriter`, `ReplayIt` (a step of `Replayer`), `Forge` |
| `BetaReduction` | beta reduction of `derived.rs`, and `normalise` | - | one operator for each rule |
| `Connectives` | the connectives as terms, and their definitions | - | - |
| `Derivations`, `Logic` | each rule as its derivation: the tree of the calls it makes | - | - |
| `Simp`, `Classical` | the derivations of the simp set, and of excluded middle from choice | - | - |
| `Bootstrap` | what a derivation derives, the bootstrap and the bundle | - | - |
| `Taut` | the parts of the search | - | - |
| `NaturalDeduction` | what the rules promise, without a derivation | `display`, `called`, `answered` | `Call` |
| `Installation` | `install_logic`, `classical::install` and a program that takes names | `declaredBy`, `ledger`, `boot`, `bundle` | `DeclareConstant`, `InstallLogic`, `InstallClassical` |
| `TautSearch` | `decide` of `taut.rs`, with the derivations of a step as CONSTANTs and their laws | `frames`, one for each open call of `decide`, with what it assumes and what its true case proved; `atHand`, `outcome` | `StartTaut`, `Split`, `Leaf`, `TryFalse`, `Join`, `Finish` |
| `Validity` | the search with the derivations of `Taut`; the truth table, as a reference | as `TautSearch` | - |
| `LogicProgram` | a program on the logic layer | the two above, and the call made with its answer | `ChangeTheory`, `CallRule`, `CallTaut`, `ContinueTaut` |
| `InternerProofs`, `KernelProofs`, `ConservativityProofs`, `TwoKernelsProofs`, `DerivedProofs`, `LogicProofs`, `ReplayerProofs` | theorems | - | - |
| `Stacks` | lemmas about a sequence used as the stack of open calls | - | - |
| `MCTerms`, `MCKernel`, `MCTwoKernels`, `MCRewriting`, `MCLogic` | small instances for TLC | - | - |

`TermNodes` <- `HolTerms`, `Rules` <- `Kernel` <- `KernelSoundness`
<- `KernelProofs` <- `ConservativityProofs`, and two instances of `KernelProofs`
<- `TwoKernels` <- `TwoKernelsProofs`; `Rules` <- `Derived` <- `Replay`
(with `Paths`, `Matching`) <- `Conversions` (with `TermOrder`, `Witnesses`) <-
`Rewriting`; `Derived` <- `Witnesses` <- `ReplayerProofs`; `Derived`, `Ranks` <-
`Replayer` <- `Rewriting`, `ReplayerProofs`; `Installation`, `TautSearch`,
`Stacks` <- `LogicProofs`. `Derived` <-
`BetaReduction` <- `Connectives` <- `Derivations` <- `Logic` <- `Simp` <-
`Classical` <- `Bootstrap` (which registers and rewrites with `Conversions`) <-
`Taut`; `Taut`, `TautSearch` <- `Validity`; `Installation`, `Validity` <-
`LogicProgram`, which implements `NaturalDeduction`.

Three modules are the part of a component that does not recurse over terms, with
the rest as CONSTANT operators, so that they can be proved about (and `Witnesses`
is the part of `witness.rs` that needs no such operator): `Replayer`
(`path_opener`, and what fetching and instantiating a rule answers),
`TautSearch` (the derivations of one step) and `Installation` (the simp set and
excluded middle). The runs give these constants the definitions of `Paths`,
`Matching`, `Taut` and `Bootstrap`, and TLC evaluates there what is assumed of
them.

Conventions. A rule or a fallible operation is the *set* of the values it may
answer with: one when the code answers `Ok`, none when it answers `Err`; the
`?` of Rust is then a nested set (`Then` in `Derived`). A conversion's three
answers are `{{w}}` for `Ok(Some(w))`, `{{}}` for `Ok(None)` and `{}` for
`Err`. A term is its node and not its rank; that this loses nothing is what
`Interner` shows, and where the code *orders* by rank the order is the variable
`order` of `Ranks`, chosen at the start as any program fixes one. Printing
and messages are left out. So are binder display names, which are outside the
intern key, but for the two operations whose answer shows the variable that
`dest_abs` makes of one, `choose` and the substitution of TAUT: there the name is
the variable `display`, one for all binders, chosen at the start as the first
interning chooses it.

In the logic layer the derivations are the code's own, written as data: a call is
a node `Step(rule, of, with)`, `disch(term, d)` is the call of DISCH on what `d`
derives, and `disch_steps` is the tree of the calls that `disch` makes in turn,
with `Require` for an early return. `Derive` in `Bootstrap` runs a tree down to
the ten rules, and it refuses where one of them does. Nothing is assumed of a
rule that its derivation does not give, so `RulesKeepTheirPromise` compares two
independent readings of each rule.

`Kernel` leaves the four operations that recurse over terms as CONSTANT
operators, so that it can be proved about: TLC runs it with the definitions of
`HolTerms`, and the proofs use only the laws `KernelSoundness` assumes by name.

## Runs

| Run | Question | Bounds |
|---|---|---|
| `Interner` | Does the table implement `HashCons`, with the right cached data, while ranks do not wrap? | two leaves, shapes two deep, six nodes, eight ranks |
| `KernelRules` | Are the ten rules sound, and do axioms stay in their theory? | two theories, one axiom, three theorems at a time, 23 terms over `p`, `q` and two variables of these names at a type variable, two abstractions at either type, an open and an ill-typed input, two substitutions and two of types |
| `KernelDefinitions` | Are definitions and type definitions conservative, theories without axioms consistent, refusals silent, names unspoken of before they are declared, and declared once? | definitions true, false, by another constant, by a variable and with a dangling index; six ways to carve a type; one constant at two types, a type at two arities, `=`, `bool` and an empty name |
| `KernelRefusal` | Does a refused gate leave no trace? (violated) | the same gates, without types declared by name |
| `KernelCircular` | Is a definition conservative when theories share names? (violated) | two theories |
| `KernelLeak` | Can an axiom leak between kernels? (violated) | two kernels of one theory |
| `Rewriting` | Does replay prove what a certificate says, honest or not, under the hypotheses it leaves; does it refuse only for a cause the code names; do both algebras agree; is complete normal? | up to three of eight rules, seven terms, seven conversions that use every combinator, budgets 0 and 3, one change to a certificate |
| `Logic` | Is an installation whole or useless, does each rule answer its sequent, and does TAUT answer, rightly, and prove tautologies? | one name taken beforehand, any order of attempts; 17 theorems and 8 terms for the rules, with free, bound and repeated variables, hypotheses that a rule discharges and redexes; ten propositions, atom bounds 1 and 12, leaf budgets 1 and 200, two display names |
| `TautIncomplete` | Does TAUT prove every tautology? (violated) | two propositions, otherwise as `Logic` |
| `ReplayOrder`, `ReplayOpener`, `ReplayCollision` | Three ways an honest certificate and the theorem algebra come apart (violated) | two or three rules made for the case |

Why the bounds are enough. The rules look at one or two premises and at the top
two levels of a conclusion; three theorems at a time with `Drop` let derivations
of any length pass through, and the terms hold for each rule an instance that
meets its side condition and one that does not. The semantics interprets `bool`
as BOOLEAN and a type variable as one or two values, which separates every pair
of terms of the runs that are not equal in all models. Terms outside a run's
`Term` are not kept: that is its only cut of the state space, beside the number
of theories and theorems. For rewriting, three rules are what it takes to have a
conditional rule, the rule that solves its condition and one that interferes.
A rule of the logic layer is a function of its arguments, so a behaviour of
`Logic` ends with one call, and any sequence of calls is covered by the facts it
may start from: `Facts` holds for each rule sequents it takes and many it must
refuse. The propositions for TAUT have up to three atoms: none, one twice, two
under an equality, an atom inside a later one (no tautology) or an earlier one, a
quantified one, a redex, an equality that is not between propositions, and a term
that is no proposition. Tautologies with an atom inside a later one are the scope
of `TautIncomplete`. A budget of 1 runs out at most leaves, 200 is the code's
`DEFAULT_LIMIT` and never does.

Each bound is a CONSTANT named in the module (`MaxTheories`, `MaxThms`,
`MaxNodes`, `Depth`, `MaxRules`, `Limits`, `MaxDeclared`, `AtomLimits`,
`Budgets`).

The ASSUMEs of a module are evaluated by every run on it: the laws of meaning and
of mention on the four kernel runs, those of the installation and of the search
on `Logic` (for all ten propositions and every branch of their atoms), and on
the rewriting runs `SmallTermsAreShaped`, which is the law `WellShaped` of
`Replayer` on the subterms of the terms rewritten.

`Rewriting` is the largest run, some 715 000 states: replay is taken apart into
its calls of rules there, and an open call of a condition's certificate lies on
top of the call that waits for it.

Deadlock is checked in `Interner`. In the other runs a program may stop: a
kernel with nothing left to keep, or a certificate made and replayed.

Fairness is assumed in `Logic` only, and only of the search: `SearchFairness`
says that a call of TAUT that is open takes its next step. It is one function
running on one thread, it waits for nothing, and each step is a call that
returns. The fairness is stated on the variables a step of the search changes
(`Moves`), which is the weak fairness of `ContinueTaut` in a form that TLC does
not have to evaluate derivations for. Nothing is assumed of the program: it may
never install anything or call anything. `SearchAnswers` then says that a search
ends, whatever it is given. The other runs assume no fairness: nothing in the
code waits, and a program that stops calling breaks no promise.

### What the logic run shows beside its properties

Facts of the code that the properties had to allow for, each at its line:

* A program that takes a name before `install_logic`, or any attempt that fails,
  makes every later attempt fail (`FailedIsFinal`); `classical::install` may
  leave ETA, or ETA and SELECT, asserted with no bundle to show for it.
* `imp_antisym_rule` does not ask whether its premises are converses: of
  `p => q` and `r => s` it makes `s = q` under what is left of the antecedents.
* `disj_cases` and `choose` also lose hypotheses their comments do not name, when
  the disjunction or the existential itself is assumed by a case. They were
  proved on the way, so nothing is lost.
* A rule may answer the beta-reduct of what it promises, or refuse, when it is
  given a redex. One pass of `beta_rule` does not reach a normal form
  (conjunction.rs:151-152 says so, derived.rs:124 does not): with one pass
  `install_logic` would fail at its first derivation.

### What the rewriting run shows beside its properties

The two algebras agree in what they prove and not always in what they owe.
`seq` of the theorem algebra takes a witness whose two sides are one term for
reflexive and drops it (witness.rs:179-192), with the conditions that were left
on the way: a conversion that rewrites `c p q` to `c q p` and back under `g p`
proves its equation under no hypothesis. The steps algebra looks at the steps,
which are there, and the replayed theorem rests on `g p`. So `AlgebrasAgree` asks
for equal hypotheses unless the certificate `Returns` to a term it has been at,
and for no more hypotheses in the theorem than in the replay, always. Either
theorem is true; the certificate's is the weaker.

### What the violated runs show

* `KernelRefusal`: `new_constant` and the two definition gates write before
  their last refusal; `rules.rs` says nothing fallible may follow a mutation.
  The ledgers and theorems are safe (`RefusalAssertsNothing`, proved).
* `KernelCircular`: in a kernel with two theories a term built with theory 1's
  constant `c` may define theory 2's `c`, and `|- c = (c = F)` is a definition.
  With names kept apart definitions are conservative (`KernelDefinitions`).
* `KernelLeak`: `own` compares indices, so an axiom of one `Kernel` is accepted
  by another's rules. The model's two kernels have interned alike, so that a
  rank names one term in both. What the code would have to compare is proved:
  see `TwoKernelsProofs`.
* `ReplayOrder`: conditions are written in the rank order of the rule's
  hypotheses and read in that of the instance's, which may differ. They may
  differ in number too, when an instance makes two hypotheses equal; the same
  two functions are at fault and no run is spent on it.
* `ReplayOpener`: a conversion opens a binder once, replay once for each step,
  and the free variables the name avoids may have changed in between.
* `ReplayCollision`: two rule variables of one name and two types become one key
  of the instantiated match; the theorem algebra then proves an equation about
  a term nobody asked for. It is a true equation: soundness is not at stake.
* `TautIncomplete`: the assignments of a leaf are substituted in the order of the
  atoms, each into the whole term and so into the atoms split after it. Two
  tautologies fall to this. `P x => ((!x. P x) \/ ~!x. P x)`, for binders first
  interned as `x`, answers `Err`: the binder of the second atom is opened with
  `x`, and `abs` refuses a variable that the assumed `P x` has free
  (taut.rs:240-247). `p \/ (f p \/ ~f p)` answers `None`: what was `f p` is `f T`
  by the time its assignment is looked for (taut.rs:195-202). The README says
  that tautologies within the bound on atoms are proved, and taut.rs:6 that
  failure is `Ok(None)`; either proposition alone violates `TautologiesAreProved`,
  and the first `FailureIsNone` as well. No answer is wrong: what is proved is
  valid (`ProvedIsValid`).

`HonestReplays` holds in `Rewriting` because its rules have one condition at
most, its terms no free variable named like an opener and its rules no two
variables of one name. `TautologiesAreProved` and `FailureIsNone` hold in `Logic`
because no tautology there has an atom inside a later one; substituting the
assignments from the last to the first breaks both there.

## Proofs

`InternerProofs` (any leaves, depth and node bound with `MaxNodes <= Width`):
the inductive invariant says that table and nodes are inverse, that children
come before parents, and that every rank held stands for its shape. `Canonical`,
`CacheRight` and the refinement `KeepsPromise` follow; each step either changes
nothing held or adds one answer that agrees with the others. `MaxNodes <= Width`
is a hypothesis of the theorems and not of the module, since the code does not
enforce it: `intern` casts `nodes.len()` to `u32`, and the node after the last
rank would be given rank 0 and compare equal to another term.

`KernelProofs` (any terms, substitutions, numbers of theories and theorems):
`IInv` strengthens `Sound` with the well-formedness of theorems and ledgers, so
that a premise of a rule is known to be in scope and of its theory. There is one
lemma for each rule, saying that the rule is well formed and preserves truth in
each interpretation, then one step for each action. Growing a ledger only
removes models, so old theorems stay true. `Soundness`, `TypeCorrect`,
`NamesKept` and `RefusalHarmless` are the results.

The assumptions are the named ASSUMEs of `KernelSoundness`: what a proposition,
an equation, an application, an abstraction and a trivial redex mean, that a
variable which is not free does not matter, and the two substitution laws. They
are laws of higher-order logic about `term.rs`, whose recursion the provers
cannot follow; TLC evaluates each of them with the definitions of `HolTerms` in
`HolSemantics` on every kernel run.

`DerivedProofs` (any terms, any term operations): `sym`, `prove_hyp` and
`eqt_elim` answer with exactly the sequents their comments name, for every
well-formed premise. Each is a chain of rule calls that may refuse; a lemma for
each primitive says when it does not, from the shapes of types and equations.

The last three say where a call cannot refuse: `ap_term` and `ap_thm` answer for
every equation and every term they can be applied to, and `eqt_intro` whenever
INST at the proposition yields the instance its caller expects. That the
substitution does is a hypothesis of the theorem, because the code tests it too.

`ConservativityProofs` (any terms, any number of theories): `SpokenOfDeclared`
is the invariant that whatever a theorem or a ledger mentions is declared, so a
gate that declares a name gives a meaning to nothing that was proved before.
`Conservativity` is built on it: given a model of the definitions so far, the new
constant is read as its right side, and the new type as what satisfies its
predicate; nothing older mentions either, so the older entries stay true
(`UntouchedTrue`). Two theories of one kernel may each declare a constant `c`,
and a term does not say whose it is. The theorem therefore has the hypothesis
`[]Apart`, that no two theories have a name in common beside `=`; the run
`KernelCircular` shows that it is needed, and `ConservativeAlone` that a kernel
with one theory needs nothing. The laws assumed for it (`Mentions...`,
`MentionMeaning`, `ConstantMeaning`, `CarvingMeaning`) say that operations on
terms bring in no names of their own, that a term's value depends on what it
mentions, and that there are interpretations enough to read a new name as one
likes. The last is true of the standard models of higher-order logic, and in the
runs of the finite one.

`Consistency` is what the two are for: in a theory that asserted no axiom, one
interpretation makes true whatever was defined, carved and proved, so nothing
there contradicts anything else (rules.rs:64-65). It follows from
`Conservativity`, which turns any interpretation into a model of the definitions,
`Soundness`, and that there is an interpretation to begin with
(`SomeInterpretation`). `ConservativeAlone` gives both for one theory.

`TwoKernelsProofs` (any two kernels of any number of theories, over the same
terms): `SharedIsSafe` and `SharedDoesNotLeak` say when a program may hand a
theorem of one kernel to another. `HandsOverShared` is the hypothesis: the second
kernel has a theory at the theorem's index, and its ledger records all that the
first kernel's does. Then both kernels stay sound and what the second derives
holds in the models of its own theory; `KernelLeak` shows a program that does not
keep to it. The code has no such test, so the theorems are about the programs
that need none. The steps of each kernel keep `IInv` by the theorem of
`KernelProofs`, of which the module takes two instances; their assumptions are
the conjuncts of `Laws`, the ASSUMEs of `KernelSoundness` said of each instance.

`LogicProofs` has the installation and the search of TAUT.

The installation (any connectives with `T` first, any names taken before,
any attempts): a name once declared stays, so the first name an installation
declares decides all of it. `InstallInv` says that whatever an installation left
behind, its first name is declared; `InstalledIsDefined` and `FailedIsFinal`
follow. They are theorems of `InstallSpec`; `LogicProgram` changes
`installVars` only by `Install`.

The search (any propositions, atoms, budgets): `SearchInv` says of every open
call which atom it splits, that it assumes that atom in its true case or the
negation in the other, and that what it kept from its true case rests on that
atom and the calls below it. `BranchesKeepTheirAtoms` and `ProvedAsAsked` follow
by the laws of `TautSearch`, one for each derivation a step makes. They are
theorems of `SearchSpec`; `LogicProgram` changes `searchVars` only by `Search`
and `SearchStep`.

`ReplayerProofs` (any certificate, any rules, any instances of them): three
invariants, of which the last two are only needed to say when replay refuses.

* `IInv`: in every open call the chain is an equation from the term of its
  certificate, and each hypothesis of an instance has been left by an Assumed
  condition or has its condition still to be met. `ProofIsClaim` follows with
  nothing assumed of terms, paths or instances but that an instance has finitely
  many hypotheses (`FiniteHypotheses`; it is counted against the conditions). A
  wrong instance or a wrong frame can make replay refuse and never make it prove
  something else.
* `TInv`: the frames of a call are a trail (`Leads`), each saying how one term is
  made of the next, from what the chain has reached to the subterm at hand or to
  the left side of what is proved of it, at the same type. So every rule on the
  way up has what it asks for, but for the side condition of ABS; and what comes
  out is an equation of the theory between two such terms (`ReplayTypeCorrect`).
  The hypotheses are `Supplied`, that the certificates are of
  well-formed closed terms and the instances are theorems of the theory, which
  terms and theorems of the kernel are, and `Laws`, that those terms are shaped
  as the constructors leave them (`WellShaped`, which TLC evaluates) and closed
  under taking apart, opening and rebuilding (`AllBuilt`).
* `Waits`: an open call of a condition's certificate is about the hypothesis its
  caller waits for. With the other two it gives `RefusesForCause`: replay refuses
  only where the certificate is wrong, for one of the causes that
  `RefusedForCause` lists, or where ABS must. On these hypotheses every other `?`
  and `ok_or` of replay.rs, the ones that say an equation was lost among them, is
  never taken. That the truth constant is a proposition and its theorem says
  just that is assumed (`TruthIsProved`), as `truth_theorem` hands it over.

The invariants are of `ReplaySpec`. `Rewriting` changes the variables of
`Replayer` by `ReplayIt`, a `ReplayStep`; by `Emit`, which is `NewCertificate`;
and by `AddRule`, which is `NewRules`, when no call is open.

`AlgebrasAnswerAlike` is about the other end, where certificates come from: given
witnesses of the two algebras for the same terms, `refl`, `seq`, `comb` and
`under` answer in both algebras, again for the same terms, and only ABS refuses
in the theorem algebra alone. It is the step of an induction over conversions,
for the four operations all of them compose; the base, `rewrite`, and the
induction itself are `AlgebrasAgree`, which TLC checks.

Only model-checked: of `Rewriting`, `TypeOK`, `HypothesesAreOwed`,
`HonestReplays`, `AlgebrasAgree` and `CompleteIsNormal`; of `LogicProgram`,
`TypeOK`, `ProvedIsValid`, `TautologiesAreProved`, `FailureIsNone` and
`RulesKeepTheirPromise`. Each is stated with operators
that recurse over terms, certificates or derivations, which the prover cannot
follow. `SearchAnswers` is a liveness property, which is out of its reach too, as
are the recursive operators of the term layer themselves. Every theorem is
proved from the ASSUMEs named here and its own hypotheses, and from nothing else.

## Not modelled

* Printing and error messages; `lib.rs`, which re-exports; the script.
* More than one display name in a process: `display` is the name of every binder.
* A conversion written as a closure by a caller, other than what `Forge` does to
  its certificate; `rewrite_with_strategy` beyond the default.
* `TheoryId` and de Bruijn indices at 2^32, which no program reaches.
* The recursion of `redepth` on a rule that loops: it is a stack overflow, which
  is no behaviour of a state machine.
* A bootstrap's fields one by one: the program holds it or does not. The rules
  of a bootstrap of another theory refuse, as `middle_by` of `Bootstrap` shows for
  the one that counts.

## Plan

1. Done: the intern table and the kernel with their proofs; matching, positions,
   order, replay, conversions and the rewriter with their runs; beta reduction,
   the connectives, the simp set, classical logic and TAUT with theirs.
2. Done: proofs about the derived rules that do not recurse; conservativity of
   the gates; the installation for any list of names; the search for any number
   of atoms.
3. Done: replay as a machine of calls, with the theorems that it proves the claim
   or nothing and that it refuses only for a cause; the operations of the two
   algebras; consistency of theories without axioms; two kernels that hand over
   only what both have recorded.
4. Left: a kernel whose theorems carry their kernel's identity, implementing two
   separate ones; a caller's strategy for the rewriter.
