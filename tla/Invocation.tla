------------------------------ MODULE Invocation ------------------------------
(***************************************************************************)
(* How runs of the step engine nest inside one request: the guards of a    *)
(* route (execute_dsl of router/mod.rs), `template` steps, `http` steps    *)
(* that call the process itself, the default exception DSL, `iterate`; and *)
(* the guard stack of context/mod.rs that breaks guard recursion.          *)
(*                                                                         *)
(* The DSLs are data: `program` maps each of them to its steps, which are  *)
(*   <<"plain">>          a step that only falls through                   *)
(*   <<"goto", n>>        one with `next:` naming step n                   *)
(*   <<"return", s>>      a return with status s                           *)
(*   <<"fail">>           a step whose executor fails                      *)
(*   <<"template", r>>    runs the DSL of route r                          *)
(*   <<"self", r>>        an http step whose URL is this process, route r  *)
(*   <<"http">>           an http step to an upstream, without `error:`    *)
(*   <<"iterate", body>>  runs the steps of body once per item             *)
(* No step has a max_recursions of its own, so the cap per step is the     *)
(* global one and never binds before the budget (see StepEngine).          *)
(***************************************************************************)
EXTENDS Naturals, SequencesExt

CONSTANTS
  Routes,           \* DSL keys of routes
  Guards,           \* guard keys
  Fallback,         \* the DSL of default_dsl_in_case_of_exception
  Covers,           \* route -> its guards, outermost first
  Programs,         \* the programs considered
  Entry,            \* the route the request asks for
  MaxIterations,    \* the engine's max_iterations
  MAX_GUARD_DEPTH,
  AllowList,        \* http_codes_allow_list
  Items,            \* length of the list that `iterate` walks
  MaxDepth          \* bound of the model on nested runs

ASSUME InvocationAssumption ==
  /\ Covers \in [Routes -> Seq(Guards)]
  /\ Entry \in Routes
  /\ {MaxIterations, MAX_GUARD_DEPTH, Items, MaxDepth} \subseteq Nat \ {0}

VARIABLES
  program,      \* DSL -> sequence of steps; does not change
  frames,       \* the runs in progress, innermost last
  stacks,       \* the guard stacks in use; a template shares its caller's
  ret,          \* result of the run that has just ended, on its way to the caller
  outcome,      \* what the request got
  transitions,  \* history: transitions of all the engine loops together
  runs          \* history: engine runs started

vars == <<program, frames, stacks, ret, outcome, transitions, runs>>

NoRet == [kind |-> "none", ok |-> TRUE, status |-> 0]
Ok(status) == [ok |-> TRUE, status |-> status]
Err == [ok |-> FALSE, status |-> 0]

\* The runs that begin with a guard loop, and those for which execute_dsl does it.
Guarded == {"entry", "self", "template"}
Routed == {"entry", "self"}

Top == Last(frames)
SetTop(f) == frames' = ReplaceAt(frames, Len(frames), f)
Stack(f) == stacks[f.stk]

\* A run of a DSL; `passed` is a history of the guards that let it through.
Frame(kind, dsl, guards, stk) ==
  [kind |-> kind, dsl |-> dsl, todo |-> guards, passed |-> {},
   idx |-> 1, sub |-> 0, budget |-> MaxIterations, stk |-> stk]

Init ==
  /\ program \in Programs
  /\ frames = <<Frame("entry", Entry, Covers[Entry], 1)>>
  /\ stacks = <<<<>>>>
  /\ ret = NoRet
  /\ outcome = NoRet
  /\ transitions = 0
  /\ runs = 1

-----------------------------------------------------------------------------
\* Starting and ending a run.

Begin(caller, frame) ==
  /\ Len(frames) < MaxDepth
  /\ frames' = Append(ReplaceAt(frames, Len(frames), caller), frame)
  /\ runs' = runs + 1

\* Faulty variant: an error leaves the guard's key on the stack.
StacksAfterUnlessError(res) ==
  CASE Top.kind = "guard"    -> IF res.ok THEN [stacks EXCEPT ![Top.stk] = Front(@)] ELSE stacks
    [] Top.kind = "template" -> stacks
    [] OTHER                 -> Front(stacks)

\* The drop of the run's context: a guard pops its key off the stack (however
\* it ended), a context of its own takes its stack with it.
StacksAfter(res) ==
  CASE Top.kind = "guard"    -> [stacks EXCEPT ![Top.stk] = Front(@)]
    [] Top.kind = "template" -> stacks
    [] OTHER                 -> Front(stacks)

Leave(res) ==
  /\ frames' = Front(frames)
  /\ stacks' = StacksAfter(res)
  /\ ret' = [kind |-> Top.kind] @@ res
  /\ UNCHANGED <<program, outcome, runs>>

End(res) == Leave(res) /\ UNCHANGED transitions

-----------------------------------------------------------------------------
\* The guard loop.

GuardLoop == frames # <<>> /\ ret = NoRet /\ Top.todo # <<>>

OnStack(f, key) == Contains(Stack(f), key)

\* is_guard_on_stack: the template step passes over a guard that encloses it.
SkipGuard ==
  /\ GuardLoop
  /\ Top.kind = "template"
  /\ OnStack(Top, Head(Top.todo))
  /\ SetTop([Top EXCEPT !.todo = Tail(@)])
  /\ UNCHANGED <<program, stacks, ret, outcome, transitions, runs>>

\* The declaration of the guard refuses the request (execute_dsl only).
GuardDeclarationFails == GuardLoop /\ Top.kind \in Routed /\ End(Err)

\* push_guard: room on the stack, and not the same key twice. The second is a
\* belt for execute_dsl, which does not look at the stack before it pushes.
CanPush(f) == Len(Stack(f)) < MAX_GUARD_DEPTH /\ ~OnStack(f, Head(f.todo))

PushRefused ==
  /\ GuardLoop
  /\ Top.kind = "template" => ~OnStack(Top, Head(Top.todo))
  /\ ~CanPush(Top)
  /\ End(Err)

EnterGuard ==
  /\ GuardLoop
  /\ CanPush(Top)
  /\ stacks' = [stacks EXCEPT ![Top.stk] = Append(@, Head(Top.todo))]
  /\ Begin(Top, Frame("guard", Head(Top.todo), <<>>, Top.stk))
  /\ UNCHANGED <<program, ret, outcome, transitions>>

-----------------------------------------------------------------------------
\* The step loop.

Steps(f) == program[f.dsl]

\* Steps inside `iterate` are driven by its executor: only the loop itself
\* looks at the budget.
InLoop ==
  /\ frames # <<>> /\ ret = NoRet /\ Top.todo = <<>>
  /\ Top.idx <= Len(Steps(Top))
  /\ Top.budget > 0 \/ Top.sub > 0

\* The step to dispatch; `sub` counts the steps of an `iterate` in progress.
Step(f) ==
  LET s == Steps(f)[f.idx]
  IN  IF f.sub = 0 THEN s ELSE s[2][((f.sub - 1) % Len(s[2])) + 1]

At(op) == InLoop /\ Step(Top)[1] = op

\* Faulty variant: dispatching a step costs nothing.
PaidNothing(f) == f

\* Dispatching a step of the loop costs one unit of the run's own budget.
Paid(f) == IF f.sub = 0 THEN [f EXCEPT !.budget = @ - 1] ELSE f
Count == transitions' = IF Top.sub = 0 THEN transitions + 1 ELSE transitions

\* On to the next step in source order, or to the next one of the iteration.
Advance(f) ==
  IF f.sub = 0 \/ f.sub = Items * Len(Steps(f)[f.idx][2])
  THEN [f EXCEPT !.idx = @ + 1, !.sub = 0]
  ELSE [f EXCEPT !.sub = @ + 1]

\* The declaration of the route refuses the request before its first step.
DeclarationFails ==
  /\ InLoop
  /\ Top.kind \in Routed
  /\ Top.budget = MaxIterations
  /\ End(Err)

FallThrough ==
  /\ At("plain") \/ At("http")  \* allowed status, or transport failure
  /\ SetTop(Advance(Paid(Top)))
  /\ Count
  /\ UNCHANGED <<program, stacks, ret, outcome, runs>>

\* `next:` is ignored inside `iterate`.
Jump ==
  /\ At("goto")
  /\ SetTop(IF Top.sub = 0 THEN [Paid(Top) EXCEPT !.idx = Step(Top)[2]] ELSE Advance(Top))
  /\ Count
  /\ UNCHANGED <<program, stacks, ret, outcome, runs>>

IterateStart ==
  /\ At("iterate")
  /\ SetTop([Paid(Top) EXCEPT !.sub = 1])
  /\ Count
  /\ UNCHANGED <<program, stacks, ret, outcome, runs>>

ReturnStep == At("return") /\ Leave(Ok(Step(Top)[2])) /\ Count
StepFails == At("fail") /\ Leave(Err) /\ Count

\* The loop is over: end of the steps, or of the budget.
LoopEnds ==
  /\ frames # <<>> /\ ret = NoRet /\ Top.todo = <<>>
  /\ ~InLoop
  /\ End(Ok(200))

\* Faulty variant: the child context starts with an empty guard stack.
CallTemplateFresh ==
  /\ At("template")
  /\ LET r == Step(Top)[2] IN
       Begin(Paid(Top), Frame("template", r, Covers[r], Len(stacks) + 1))
  /\ stacks' = Append(stacks, <<>>)
  /\ Count
  /\ UNCHANGED <<program, ret, outcome>>

\* The child context shares the guard stack (with_guard_stack_from).
CallTemplate ==
  /\ At("template")
  /\ LET r == Step(Top)[2] IN Begin(Paid(Top), Frame("template", r, Covers[r], Top.stk))
  /\ Count
  /\ UNCHANGED <<program, stacks, ret, outcome>>

\* execute_by_url: the router makes a context of its own.
CallSelf ==
  /\ At("self")
  /\ LET r == Step(Top)[2] IN
       Begin(Paid(Top), Frame("self", r, Covers[r], Len(stacks) + 1))
  /\ stacks' = Append(stacks, <<>>)
  /\ Count
  /\ UNCHANGED <<program, ret, outcome>>

\* The default exception DSL runs without guards, in a context of its own.
CallFallback(caller) ==
  /\ Begin(caller, Frame("exception", Fallback, <<>>, Len(stacks) + 1))
  /\ stacks' = Append(stacks, <<>>)

\* The upstream's status is not in http_codes_allow_list.
HttpRefused ==
  /\ At("http")
  /\ CallFallback(Paid(Top))
  /\ Count
  /\ UNCHANGED <<program, ret, outcome>>

-----------------------------------------------------------------------------
\* The result of a run reaches its caller.

Returned(kind) == frames # <<>> /\ ret.kind = kind

\* Faulty variant: `>` for `>=`.
RejectsAbove(res) == res.status > 400

Rejects(res) == res.status >= 400

\* Status >= 400: the guarded run ends without its body. The response is the
\* guard's; a template step binds it and its caller goes on.
GuardRejects == Returned("guard") /\ ret.ok /\ Rejects(ret) /\ End(Ok(ret.status))

GuardPasses ==
  /\ Returned("guard") /\ ret.ok /\ ~Rejects(ret)
  /\ SetTop([Top EXCEPT !.todo = Tail(@),
                        !.passed = IF ret.status < 400 THEN @ \cup {Head(Top.todo)} ELSE @])
  /\ ret' = NoRet
  /\ UNCHANGED <<program, stacks, outcome, transitions, runs>>

\* A failed guard, template or self-call fails the run around it; so does an
\* upstream that was refused, whatever the exception DSL did.
CalleeFails ==
  /\ \/ \E kind \in {"guard", "template", "self"} : Returned(kind) /\ ~ret.ok
     \/ Returned("exception")
  /\ End(Err)

\* A self-call is an http step: its status has to be in the allow list.
SelfRefused ==
  /\ Returned("self") /\ ret.ok /\ ret.status \notin AllowList
  /\ CallFallback(Top)
  /\ ret' = NoRet
  /\ UNCHANGED <<program, outcome, transitions>>

CalleeReturns ==
  /\ \/ Returned("template") /\ ret.ok
     \/ Returned("self") /\ ret.ok /\ ret.status \in AllowList
  /\ SetTop(Advance(Top))
  /\ ret' = NoRet
  /\ UNCHANGED <<program, stacks, outcome, transitions, runs>>

Respond ==
  /\ frames = <<>> /\ ret # NoRet
  /\ outcome' = ret
  /\ ret' = NoRet
  /\ UNCHANGED <<program, frames, stacks, transitions, runs>>

Next ==
  \/ SkipGuard \/ GuardDeclarationFails \/ PushRefused \/ EnterGuard
  \/ DeclarationFails \/ FallThrough \/ Jump \/ IterateStart
  \/ ReturnStep \/ StepFails \/ LoopEnds
  \/ CallTemplate \/ CallSelf \/ HttpRefused
  \/ GuardRejects \/ GuardPasses \/ CalleeFails \/ SelfRefused \/ CalleeReturns
  \/ Respond

Spec == Init /\ [][Next]_vars

\* Executors return: the engine is polled until the request has its answer.
FairSpec == Spec /\ WF_vars(Next)

-----------------------------------------------------------------------------
\* The types of the runs in progress: budgets and positions stay in range, and
\* there is a stack for every run (StepEngine::run, push_guard).
TypeOK ==
  /\ program \in Programs
  /\ \A i \in 1..Len(frames) :
       /\ frames[i].kind \in Guarded \cup {"guard", "exception"}
       /\ frames[i].budget \in 0..MaxIterations
       /\ frames[i].idx \in 1..(Len(Steps(frames[i])) + 1)
       /\ frames[i].stk \in 1..Len(stacks)
       /\ frames[i].passed \subseteq Guards
  /\ \A s \in 1..Len(stacks) : stacks[s] \in Seq(Guards)
  /\ ret.kind \in {"none"} \cup Guarded \cup {"guard", "exception"}

\* A guard stack holds exactly the keys of the guards in progress under it, in
\* the order they were entered: GuardStackGuard pops the right key however the
\* guard ended, also when a template inside it failed or was rejected.
StackMirrorsRuns ==
  \A s \in 1..Len(stacks) :
    LET InProgress(f) == f.kind = "guard" /\ f.stk = s
        guardRuns == SelectSeq(frames, InProgress)
    IN  stacks[s] = [i \in 1..Len(guardRuns) |-> guardRuns[i].dsl]

\* The body of a route, called from outside, by a self-call or by a template,
\* runs only after each of its guards let this very call pass, or inside a run
\* of that guard (which the template step then skips).
GuardedBody ==
  \A i \in 1..Len(frames) :
    frames[i].kind \in Guarded /\ frames[i].todo = <<>> =>
      \A g \in ToSet(Covers[frames[i].dsl]) :
        \/ g \in frames[i].passed
        \/ \E j \in 1..(i - 1) : /\ frames[j].kind = "guard"
                                 /\ frames[j].dsl = g
                                 /\ frames[j].stk = frames[i].stk

\* Every run pays its transitions from a budget of its own: a request makes at
\* most max_iterations of them per run (engine.rs, `let mut budget`).
TransitionsPaid == transitions <= runs * MaxIterations

\* The runs in progress are accounted for: each is typed, its guards are on its
\* stack, and its transitions were paid from its own budget.
RunsAccounted == TypeOK /\ StackMirrorsRuns /\ TransitionsPaid

\* Calls of kind op anywhere in the steps of a DSL.
Calls(dsl, op) ==
  {s \in UNION {{t} \cup (IF t[1] = "iterate" THEN ToSet(t[2]) ELSE {}) :
                t \in ToSet(program[dsl])} : s[1] = op}

\* A request whose routes do not call each other in a circle is answered,
\* whatever templates its guards call: also those of routes that the same
\* guards cover (issue #79). A self-call inside a guard is not covered: it
\* starts with an empty stack and enters the guard again.
RequestAnswered ==
  \/ \A r \in Routes : Calls(r, "self") = {}
  \/ \A g \in Guards : Calls(g, "template") = {}
  => <>(outcome # NoRet)

=============================================================================
