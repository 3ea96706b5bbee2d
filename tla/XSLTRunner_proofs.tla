--------------------------- MODULE XSLTRunner_proofs ---------------------------
(***************************************************************************)
(* Proofs about XSLTRunner for every set of cases, whatever the cases are, *)
(* whatever the processor does and however the cases interleave.           *)
(*                                                                         *)
(* Each action changes the locals of one case, through one of the helpers  *)
(* Return, Fatal, Raise, Miss and Goto; the lemmas about these carry the   *)
(* types, and the invariants follow action by action.                      *)
(***************************************************************************)
EXTENDS XSLTRunner, FiniteSetTheorems, TLAPS

LocalTypes ==
  /\ pc \in [Case -> Label] /\ loc \in [Case -> Locals] /\ log \in [Case -> History]

SharedTypes ==
  /\ tc \in [Case -> Profile]
  /\ sem \in 0..MaxParallel
  /\ sources \subseteq File
  /\ sheets \in [File -> Case \cup {None}]
  /\ outDefs \subseteq [key : Case \X Href, by : Case]

\* What is stored under a key was stored by the case the key names.
DefsInv == \A d \in outDefs : d.key[1] = d.by

\* Until a case leaves, nothing has been raised; when it has left, it has either
\* earned its pass or is marked.
VerdictOf(c) ==
  /\ pc[c] \notin {"cleanup", "ended"} => log[c].raised = {}
  /\ pc[c] = "store" => tc[c].route = "cached"
  /\ pc[c] = "serialize" => tc[c].expect \in {"result", "SE"}
  /\ pc[c] = "check" => tc[c].expect = "result"
  /\ "wrong" \in log[c].marks => "failed" \in loc[c].marks
  /\ "missed" \in log[c].marks => "failed" \in loc[c].marks \/ Mistakes(c)
  /\ pc[c] \in {"cleanup", "ended"} /\ "unread" \in log[c].marks
       => "failed" \in loc[c].marks \/ Excused(c)
  /\ pc[c] \in {"cleanup", "ended"} =>
       Earned(c) \/ {"failed", "skipped"} \cap loc[c].marks # {} \/ "missed" \in log[c].marks

VerdictInv == \A c \in Case : VerdictOf(c)

-------------------------------------------------------------------------------
LEMMA TypeSplit == TypeOK <=> LocalTypes /\ SharedTypes
  BY DEF TypeOK, LocalTypes, SharedTypes

LEMMA GotoTypes ==
  ASSUME LocalTypes, NEW c \in Case, NEW l \in Label, Goto(c, l)
  PROVE pc' \in [Case -> Label]
  BY DEF LocalTypes, Goto

\* Marks may be added to, and every other field set to a value of its type.
LEMMA LocalsTyped ==
  ASSUME LocalTypes, NEW c \in Case
  PROVE /\ \A ms \in SUBSET {"failed", "skipped", "raw"} :
             [loc EXCEPT ![c].marks = @ \cup ms] \in [Case -> Locals]
        /\ \A d \in Case : [loc EXCEPT ![c].sheet = d] \in [Case -> Locals]
        /\ \A as \in Seq(Assertion) : [loc EXCEPT ![c].todo = as] \in [Case -> Locals]
  <1>1. loc[c] \in Locals
    BY DEF LocalTypes
  <1>2. ASSUME NEW ms \in SUBSET {"failed", "skipped", "raw"}
        PROVE [loc[c] EXCEPT !.marks = @ \cup ms] \in Locals
    BY <1>1 DEF Locals
  <1>3. ASSUME NEW d \in Case PROVE [loc[c] EXCEPT !.sheet = d] \in Locals
    BY <1>1 DEF Locals
  <1>4. ASSUME NEW as \in Seq(Assertion) PROVE [loc[c] EXCEPT !.todo = as] \in Locals
    BY <1>1 DEF Locals
  <1> QED
    BY <1>2, <1>3, <1>4 DEF LocalTypes

\* An action that leaves through a helper leaves the locals well typed.
LEMMA LeaveTypes ==
  ASSUME LocalTypes, NEW c \in Case
  PROVE /\ Return(c) /\ UNCHANGED log => LocalTypes'
        /\ Fatal(c) /\ UNCHANGED log => LocalTypes'
        /\ Miss(c) => LocalTypes'
        /\ \A e \in Error : Raise(c, e) \/ RaiseInDocument(c, e) => LocalTypes'
        /\ Return(c) /\ log' = [log EXCEPT ![c].marks = @ \cup {"missed"}] => LocalTypes'
  <1>1. "cleanup" \in Label
    BY DEF Label
  <1>2. Return(c) => pc' \in [Case -> Label] /\ loc' \in [Case -> Locals]
    BY <1>1 DEF LocalTypes, Return, Goto
  <1>3. Fatal(c) => pc' \in [Case -> Label] /\ loc' \in [Case -> Locals]
    <2>1. {"failed"} \in SUBSET {"failed", "skipped", "raw"}
      OBVIOUS
    <2>2. [loc EXCEPT ![c].marks = @ \cup {"failed"}] \in [Case -> Locals]
      BY <2>1, LocalsTyped
    <2> QED
      BY <1>1, <2>2 DEF LocalTypes, Fatal, Goto
  <1>4. \A e \in Error : [log EXCEPT ![c].raised = @ \cup {e}] \in [Case -> History]
    BY DEF LocalTypes, History
  <1>5. [log EXCEPT ![c].marks = @ \cup {"missed"}] \in [Case -> History]
    BY DEF LocalTypes, History
  <1> QED
    BY <1>2, <1>3, <1>4, <1>5 DEF LocalTypes, Raise, RaiseInDocument, Miss

-------------------------------------------------------------------------------
LEMMA StepTypes == ASSUME TypeOK, NEW c \in Case, Step(c) PROVE TypeOK'
  <1>t. LocalTypes /\ SharedTypes
    BY TypeSplit
  <1>a. tc[c] \in Profile /\ loc[c] \in Locals /\ log[c] \in History /\ Named \in Href
    BY <1>t, XSLTRunnerAssumption DEF LocalTypes, SharedTypes
  <1>b. {"failed"} \in SUBSET {"failed", "skipped", "raw"}
        /\ {"skipped"} \in SUBSET {"failed", "skipped", "raw"}
    OBVIOUS
  <1>r. LocalTypes' /\ SharedTypes' => TypeOK'
    BY DEF TypeOK, LocalTypes, SharedTypes
  <1>l. ASSUME NEW l \in Label, Goto(c, l) PROVE pc' \in [Case -> Label]
    BY <1>t, <1>l, GotoTypes
  <1>1. CASE Resume(c)
    BY <1>1, <1>t, <1>r DEF Resume, Goto, Label, LocalTypes, SharedTypes
  <1>2. CASE Acquire(c)
    BY <1>2, <1>t, <1>r, XSLTRunnerAssumption
    DEF Acquire, Goto, Label, LocalTypes, SharedTypes
  <1>3. CASE Decide(c)
    <2>1. CASE tc[c].skip
      <3>1. [loc EXCEPT ![c].marks = @ \cup {"skipped"}] \in [Case -> Locals]
        BY <1>t, <1>b, LocalsTyped
      <3> QED
        BY <1>3, <2>1, <3>1, <1>t, <1>r DEF Decide, Goto, Label, LocalTypes, SharedTypes
    <2>2. CASE ~tc[c].skip
      BY <1>3, <2>2, <1>t, <1>r DEF Decide, Goto, Label, LocalTypes, SharedTypes
    <2> QED
      BY <2>1, <2>2
  <1>4. CASE LoadSource(c)
    BY <1>4, <1>t, <1>r DEF LoadSource, Goto, Label, LocalTypes, SharedTypes
  <1>5. CASE ReadSource(c)
    <2>1. CASE tc[c].source \in Present
      BY <1>5, <2>1, <1>t, <1>r, XSLTRunnerAssumption
      DEF ReadSource, Goto, Label, LocalTypes, SharedTypes
    <2>2. CASE tc[c].source \notin Present
      BY <1>5, <2>2, <1>t, <1>r, LeaveTypes DEF ReadSource, SharedTypes
    <2> QED
      BY <2>1, <2>2
  <1>6. CASE ParseSource(c)
    <2>1. SharedTypes'
      BY <1>6, <1>t DEF ParseSource, SharedTypes
    <2>2. LocalTypes'
      <3>1. CASE Goto(c, "compile") /\ UNCHANGED <<loc, log>>
        BY <3>1, <1>t DEF Goto, Label, LocalTypes
      <3> QED
        BY <1>6, <3>1, <1>t, LeaveTypes DEF ParseSource
    <2> QED
      BY <2>1, <2>2, <1>r
  <1>7. Compiled(c) => LocalTypes'
    <2>1. [loc EXCEPT ![c].sheet = c] \in [Case -> Locals]
      BY <1>t, LocalsTyped
    <2> QED
      BY <2>1, <1>t DEF Compiled, Goto, Label, LocalTypes
  <1>8. CASE CompileEmbedded(c)
    <2>1. SharedTypes' /\ LocalTypes'
      BY <1>7, <1>8, <1>t, LeaveTypes DEF CompileEmbedded, SharedTypes
    <2> QED
      BY <2>1, <1>r
  <1>9. CASE CompileDirect(c)
    <2>1. SharedTypes' /\ LocalTypes'
      BY <1>7, <1>9, <1>t, LeaveTypes DEF CompileDirect, SharedTypes
    <2> QED
      BY <2>1, <1>r
  <1>10. CASE LoadSheet(c)
    <2>1. CASE sheets[tc[c].sheet] # None
      <3>1. sheets[tc[c].sheet] \in Case
        BY <2>1, <1>a, <1>t DEF Profile, SharedTypes
      <3>2. [loc EXCEPT ![c].sheet = sheets[tc[c].sheet]] \in [Case -> Locals]
        BY <3>1, <1>t, LocalsTyped
      <3> QED
        BY <1>10, <2>1, <3>2, <1>t, <1>r DEF LoadSheet, Goto, Label, LocalTypes, SharedTypes
    <2>2. CASE sheets[tc[c].sheet] = None
      BY <1>10, <2>2, <1>t, <1>r DEF LoadSheet, Goto, Label, LocalTypes, SharedTypes
    <2> QED
      BY <2>1, <2>2
  <1>11. CASE StoreSheet(c)
    <2>1. CASE tc[c].sheet \in Present /\ sheets' = [sheets EXCEPT ![tc[c].sheet] = Winner(c)]
               /\ loc' = [loc EXCEPT ![c].sheet = Winner(c)]
               /\ Goto(c, "prepare") /\ UNCHANGED log
      <3>1. Winner(c) \in Case
        BY <1>a, <1>t DEF Profile, SharedTypes, Winner
      <3>2. [loc EXCEPT ![c].sheet = Winner(c)] \in [Case -> Locals]
        BY <3>1, <1>t, LocalsTyped
      <3> QED
        BY <1>11, <2>1, <3>1, <3>2, <1>t, <1>r
        DEF StoreSheet, Goto, Label, LocalTypes, SharedTypes
    <2>2. CASE UNCHANGED sheets
      <3>1. SharedTypes'
        BY <1>11, <2>2, <1>t DEF StoreSheet, SharedTypes
      <3>2. CASE tc[c].sheet \in Present /\ \E e \in Error : Raise(c, e)
        BY <3>2, <1>t, <3>1, <1>r, LeaveTypes
      <3>3. CASE tc[c].sheet \notin Present
        <4>1. Fatal(c) /\ log' = [log EXCEPT ![c].marks = @ \cup {"missed"}] => LocalTypes'
          BY <1>t, LeaveTypes DEF Miss
        <4> QED
          BY <1>11, <3>3, <4>1, <1>t, <3>1, <1>r, LeaveTypes DEF StoreSheet
      <3> QED
        BY <1>11, <2>1, <3>2, <3>3 DEF StoreSheet
    <2> QED
      BY <1>11, <2>1, <2>2 DEF StoreSheet
  <1>12. CASE Prepare(c)
    <2>1. SharedTypes'
      BY <1>12, <1>t DEF Prepare, SharedTypes
    <2>2. CASE Goto(c, "transform") /\ UNCHANGED <<loc, log>>
      BY <2>2, <2>1, <1>t, <1>r DEF Goto, Label, LocalTypes
    <2> QED
      BY <1>12, <2>1, <2>2, <1>t, <1>r, LeaveTypes DEF Prepare
  <1>13. CASE Deliver(c)
    <2>1. PICK asked \in SUBSET tc[c].fetches, docs \in SUBSET Href, raw \in SUBSET {"raw"},
               defs \in SUBSET Href :
            /\ outDefs' = {d \in outDefs : d.key \notin {Key(c, h) : h \in defs}}
                          \cup {[key |-> k, by |-> c] : k \in {Key(c, h) : h \in defs}}
            /\ loc' = [loc EXCEPT ![c].docs = docs,
                         ![c].marks = @ \cup raw \cup Only("failed", ~Answers(asked))]
            /\ log' = [log EXCEPT ![c].marks =
                         @ \cup Only("missed", ~(asked \subseteq Served))]
      BY <1>13 DEF Deliver
    <2>2. \A h \in defs : Key(c, h) \in Case \X Href
      BY DEF Key
    <2>3. outDefs' \subseteq [key : Case \X Href, by : Case]
      BY <2>1, <2>2, <1>t DEF SharedTypes
    <2>4. Only("failed", ~Answers(asked)) \subseteq {"failed"}
          /\ Only("missed", ~(asked \subseteq Served)) \subseteq {"missed"}
      BY DEF Only
    <2>5. loc' \in [Case -> Locals]
      <3>1. [loc[c] EXCEPT !.docs = docs,
                !.marks = @ \cup raw \cup Only("failed", ~Answers(asked))] \in Locals
        BY <1>a, <2>4 DEF Locals
      <3> QED
        BY <2>1, <3>1, <1>t DEF LocalTypes
    <2>6. log' \in [Case -> History]
      <3>1. [log[c] EXCEPT !.marks = @ \cup Only("missed", ~(asked \subseteq Served))] \in History
        BY <1>a, <2>4 DEF History
      <3> QED
        BY <2>1, <3>1, <1>t DEF LocalTypes
    <2> QED
      BY <1>13, <2>3, <2>5, <2>6, <1>t, <1>r
      DEF Deliver, Goto, Label, LocalTypes, SharedTypes
  <1>14. CASE Judge(c)
    <2>1. SharedTypes'
      BY <1>14, <1>t DEF Judge, SharedTypes
    <2>2. CASE Goto(c, "serialize") /\ UNCHANGED loc /\ UNCHANGED log
      BY <2>2, <2>1, <1>t, <1>r DEF Goto, Label, LocalTypes
    <2>3. tc[c].expect \in {"result", "error", "SE", "XTSE3430"}
      BY <1>a DEF Profile
    <2>4. CASE tc[c].expect = "XTSE3430"
      BY <1>14, <2>1, <2>4, <1>t, <1>r, LeaveTypes DEF Judge
    <2>5. CASE tc[c].expect = "error"
      BY <1>14, <2>1, <2>5, <1>t, <1>r, LeaveTypes DEF Judge
    <2>6. CASE tc[c].expect \in {"result", "SE"}
      BY <1>14, <2>1, <2>2, <2>6, <1>t, <1>r, LeaveTypes DEF Judge
    <2> QED
      BY <2>3, <2>4, <2>5, <2>6
  <1>15. CASE Serialize(c)
    <2>1. SharedTypes'
      BY <1>15, <1>t DEF Serialize, SharedTypes
    <2>2. [loc EXCEPT ![c].todo = tc[c].asserts] \in [Case -> Locals]
      BY <1>a, <1>t, LocalsTyped DEF Profile
    <2>3. CASE /\ Goto(c, "check") /\ UNCHANGED log
               /\ loc' = [loc EXCEPT ![c].todo = tc[c].asserts]
      BY <2>1, <2>2, <2>3, <1>t, <1>r DEF Goto, Label, LocalTypes
    <2> QED
      BY <1>15, <2>1, <2>3, <1>t, <1>r, LeaveTypes DEF Serialize
  <1>16. CASE CheckAssertion(c)
    <2>1. SharedTypes'
      BY <1>16, <1>t DEF CheckAssertion, SharedTypes
    <2>2. loc[c].todo \in Seq(Assertion) /\ loc[c].todo # <<>>
      BY <1>16, <1>a DEF CheckAssertion, Locals
    <2>3. Tail(loc[c].todo) \in Seq(Assertion)
      BY <2>2
    <2>4. [loc EXCEPT ![c].todo = Tail(@)] \in [Case -> Locals]
      <3>1. [loc EXCEPT ![c].todo = Tail(loc[c].todo)] \in [Case -> Locals]
        BY <2>3, <1>t, LocalsTyped
      <3> QED
        BY <3>1
    <2>5. [loc EXCEPT ![c].marks = @ \cup {"skipped"}] \in [Case -> Locals]
      BY <1>t, <1>b, LocalsTyped
    <2>6. ASSUME NEW holds \in BOOLEAN, NEW defs \in SUBSET Case, Evaluated(c, holds, defs)
          PROVE loc' \in [Case -> Locals] /\ log' \in [Case -> History]
      <3>1. Only("failed", ~holds) \subseteq {"failed"} /\ Only("wrong", ~holds) \subseteq {"wrong"}
        BY DEF Only
      <3>2. [loc[c] EXCEPT !.todo = Tail(@), !.marks = @ \cup Only("failed", ~holds)] \in Locals
        BY <1>a, <2>3, <3>1 DEF Locals
      <3>3. [log[c] EXCEPT !.marks = @ \cup Only("wrong", ~holds), !.used = @ \cup defs] \in History
        BY <1>a, <3>1 DEF History
      <3> QED
        BY <2>6, <3>2, <3>3, <1>t DEF Evaluated, LocalTypes
    <2>7. \A k : {d.by : d \in {x \in outDefs : x.key = k}} \subseteq Case
      BY <1>t DEF SharedTypes
    <2>8. LocalTypes'
      <3>1. CASE /\ Goto(c, "cleanup") /\ UNCHANGED log
                 /\ loc' = [loc EXCEPT ![c].marks = @ \cup {"skipped"}]
        BY <2>5, <3>1, <1>t DEF Goto, Label, LocalTypes
      <3>2. CASE /\ loc' = [loc EXCEPT ![c].todo = Tail(@)] /\ UNCHANGED <<pc, log>>
        BY <2>4, <3>2, <1>t DEF LocalTypes
      <3>3. CASE UNCHANGED pc /\ \E holds \in BOOLEAN, defs \in SUBSET Case : Evaluated(c, holds, defs)
        BY <2>6, <3>3, <1>t DEF LocalTypes
      <3> QED
        BY <1>16, <2>7, <3>1, <3>2, <3>3 DEF CheckAssertion
    <2> QED
      BY <2>1, <2>8, <1>r
  <1>19. CASE ResolveFile(c)
    <2>1. [log EXCEPT ![c].marks = @ \cup {"unread"}] \in [Case -> History]
      BY <1>t DEF LocalTypes, History
    <2> QED
      BY <1>19, <2>1, <1>t, <1>r DEF ResolveFile, LocalTypes, SharedTypes
  <1>17. CASE Checked(c)
    BY <1>17, <1>t, <1>r, LeaveTypes DEF Checked, SharedTypes
  <1>18. CASE Release(c)
    BY <1>18, <1>t, <1>r, XSLTRunnerAssumption
    DEF Release, Goto, Label, LocalTypes, SharedTypes
  <1> QED
    BY <1>1, <1>2, <1>3, <1>4, <1>5, <1>6, <1>8, <1>9, <1>10, <1>11, <1>12, <1>13, <1>14,
       <1>15, <1>16, <1>17, <1>18, <1>19 DEF Step, Work

-------------------------------------------------------------------------------
Inner == Label \ {"paused", "acquire", "ended"}

\* With a token in hand a case stays among the labels that hold one.
LEMMA WorkKeepsToken ==
  ASSUME TypeOK, NEW c \in Case, Work(c)
  PROVE /\ pc[c] \in Inner /\ sem' = sem
        /\ \E l \in Inner : pc' = [pc EXCEPT ![c] = l]
  <1>t. pc \in [Case -> Label] /\ tc[c] \in Profile
    BY DEF TypeOK
  <1>u. pc = [pc EXCEPT ![c] = pc[c]]
    BY <1>t
  <1>1. CASE Decide(c) \/ LoadSource(c) \/ ReadSource(c)
    BY <1>1 DEF Decide, LoadSource, ReadSource, Miss, Fatal, Goto, Inner, Label
  <1>2. CASE ParseSource(c) \/ CompileEmbedded(c) \/ CompileDirect(c)
    BY <1>2 DEF ParseSource, CompileEmbedded, CompileDirect, Compiled, Raise, RaiseInDocument,
      Miss, Fatal, Return, Goto, Inner, Label
  <1>3. CASE LoadSheet(c) \/ StoreSheet(c) \/ Prepare(c)
    BY <1>3 DEF LoadSheet, StoreSheet, Prepare, Raise, Miss, Fatal, Return, Goto, Inner, Label
  <1>4. CASE Deliver(c) \/ Serialize(c) \/ Checked(c)
    BY <1>4 DEF Deliver, Serialize, Checked, Raise, Fatal, Return, Goto, Inner, Label
  <1>5. CASE Judge(c)
    <2>1. tc[c].expect \in {"result", "error", "SE", "XTSE3430"}
      BY <1>t DEF Profile
    <2> QED
      BY <1>5, <2>1 DEF Judge, Raise, Fatal, Return, Goto, Inner, Label
  <1>6. CASE CheckAssertion(c)
    BY <1>6, <1>u DEF CheckAssertion, Goto, Inner, Label
  <1>7. CASE ResolveFile(c)
    BY <1>7, <1>u DEF ResolveFile, Processing, Inner, Label
  <1> QED
    BY <1>1, <1>2, <1>3, <1>4, <1>5, <1>6, <1>7 DEF Work

LEMMA HoldingFinite == IsFiniteSet(Holding)
  BY XSLTRunnerAssumption, FS_Subset DEF Holding

LEMMA SlotsStep ==
  ASSUME TypeOK, SlotsBalanced, NEW c \in Case, Step(c) PROVE SlotsBalanced'
  <1>t. pc \in [Case -> Label]
    BY DEF TypeOK
  <1>1. CASE Resume(c)
    <2>1. Holding' = Holding /\ sem' = sem
      BY <1>1, <1>t DEF Resume, Goto, Holding
    <2> QED
      BY <2>1 DEF SlotsBalanced
  <1>2. CASE Acquire(c)
    <2>1. Holding' = Holding \cup {c} /\ c \notin Holding /\ sem' = sem + 1
      BY <1>2, <1>t DEF Acquire, Goto, Holding
    <2> QED
      BY <2>1, HoldingFinite, FS_AddElement DEF SlotsBalanced
  <1>3. CASE Work(c)
    <2>1. PICK l \in Inner : pc[c] \in Inner /\ sem' = sem /\ pc' = [pc EXCEPT ![c] = l]
      BY <1>3, WorkKeepsToken
    <2>2. Holding' = Holding
      BY <2>1, <1>t DEF Holding, Inner
    <2> QED
      BY <2>1, <2>2 DEF SlotsBalanced
  <1>4. CASE Release(c)
    <2>1. Holding' = Holding \ {c} /\ c \in Holding /\ sem' = sem - 1
      BY <1>4, <1>t DEF Release, Goto, Holding
    <2> QED
      BY <2>1, HoldingFinite, FS_RemoveElement DEF SlotsBalanced
  <1> QED
    BY <1>1, <1>2, <1>3, <1>4 DEF Step

-------------------------------------------------------------------------------
\* A step of one case leaves the others as they are.
LEMMA OthersKeep ==
  ASSUME TypeOK, NEW c \in Case, Step(c), NEW d \in Case, d # c
  PROVE pc'[d] = pc[d] /\ loc'[d] = loc[d] /\ log'[d] = log[d]
  <1>t. pc \in [Case -> Label] /\ loc \in [Case -> Locals] /\ log \in [Case -> History]
    BY DEF TypeOK
  <1>1. CASE Resume(c) \/ Acquire(c) \/ Decide(c) \/ LoadSource(c) \/ ReadSource(c) \/ Release(c)
    BY <1>1, <1>t DEF Resume, Acquire, Decide, LoadSource, ReadSource, Release, Miss, Fatal, Goto
  <1>2. CASE ParseSource(c) \/ CompileEmbedded(c) \/ CompileDirect(c)
    BY <1>2, <1>t DEF ParseSource, CompileEmbedded, CompileDirect, Compiled, Raise,
      RaiseInDocument, Miss, Fatal, Return, Goto
  <1>3. CASE LoadSheet(c) \/ StoreSheet(c) \/ Prepare(c)
    BY <1>3, <1>t DEF LoadSheet, StoreSheet, Prepare, Raise, Miss, Fatal, Return, Goto
  <1>4. CASE Deliver(c)
    BY <1>4, <1>t DEF Deliver, Goto
  <1>5. CASE Serialize(c) \/ Checked(c)
    BY <1>5, <1>t DEF Serialize, Checked, Raise, Fatal, Return, Goto
  <1>6. CASE Judge(c)
    <2>1. tc[c].expect \in {"result", "error", "SE", "XTSE3430"}
      BY DEF TypeOK, Profile
    <2> QED
      BY <1>6, <1>t, <2>1 DEF Judge, Raise, Fatal, Return, Goto
  <1>7. CASE CheckAssertion(c)
    BY <1>7, <1>t DEF CheckAssertion, Evaluated, Goto
  <1>8. CASE ResolveFile(c)
    BY <1>8, <1>t DEF ResolveFile
  <1> QED
    BY <1>1, <1>2, <1>3, <1>4, <1>5, <1>6, <1>7, <1>8 DEF Step, Work

-------------------------------------------------------------------------------
\* Most actions touch neither the cache nor the stylesheet of the case.
LEMMA SheetKept ==
  ASSUME TypeOK, NEW c \in Case, Step(c), ~LoadSheet(c), ~StoreSheet(c)
  PROVE /\ sheets' = sheets /\ tc' = tc
        /\ loc'[c].sheet = loc[c].sheet \/ (tc[c].route # "cached" /\ loc'[c].sheet = c)
  <1>t. loc \in [Case -> Locals] /\ tc[c].expect \in {"result", "error", "SE", "XTSE3430"}
    BY DEF TypeOK, Profile
  <1>a. loc[c] \in Locals
    BY <1>t
  <1>1. CASE Resume(c) \/ Acquire(c) \/ Decide(c) \/ LoadSource(c) \/ ReadSource(c) \/ Release(c)
    BY <1>1, <1>t, <1>a DEF Resume, Acquire, Decide, LoadSource, ReadSource, Release, Miss,
      Fatal, Locals
  <1>2. CASE ParseSource(c) \/ Prepare(c)
    BY <1>2, <1>t, <1>a DEF ParseSource, Prepare, RaiseInDocument, Miss, Fatal, Return, Locals
  <1>3. CASE CompileEmbedded(c) \/ CompileDirect(c)
    BY <1>3, <1>t, <1>a DEF CompileEmbedded, CompileDirect, Compiled, Raise, RaiseInDocument,
      Miss, Fatal, Return, Locals
  <1>4. CASE Deliver(c)
    <2>1. PICK asked \in SUBSET tc[c].fetches, ds \in SUBSET Href, raw \in SUBSET {"raw"} :
            loc' = [loc EXCEPT ![c].docs = ds,
                      ![c].marks = @ \cup raw \cup Only("failed", ~Answers(asked))]
      BY <1>4 DEF Deliver
    <2>2. loc'[c].sheet = loc[c].sheet
      BY <2>1, <1>t, <1>a DEF Locals
    <2> QED
      BY <1>4, <2>2 DEF Deliver
  <1>f. Fatal(c) \/ Return(c) => loc'[c].sheet = loc[c].sheet
    BY <1>t, <1>a DEF Fatal, Return, Locals
  <1>5. CASE Judge(c)
    <2>1. Fatal(c) \/ Return(c) \/ loc' = loc
      BY <1>5, <1>t DEF Judge, Raise
    <2> QED
      BY <1>5, <2>1, <1>f DEF Judge
  <1>7. CASE Serialize(c)
    <2>1. loc' = [loc EXCEPT ![c].todo = tc[c].asserts] => loc'[c].sheet = loc[c].sheet
      BY <1>t, <1>a DEF Locals
    <2> QED
      BY <1>7, <2>1, <1>f DEF Serialize, Raise
  <1>8. CASE Checked(c)
    BY <1>8, <1>f DEF Checked
  <1>6. CASE CheckAssertion(c)
    <2>1. \/ loc' = [loc EXCEPT ![c].marks = @ \cup {"skipped"}]
          \/ loc' = [loc EXCEPT ![c].todo = Tail(@)]
          \/ \E holds \in BOOLEAN :
               loc' = [loc EXCEPT ![c].todo = Tail(@),
                                  ![c].marks = @ \cup Only("failed", ~holds)]
      BY <1>6 DEF CheckAssertion, Evaluated
    <2>2. loc'[c].sheet = loc[c].sheet
      BY <2>1, <1>t, <1>a DEF Locals
    <2> QED
      BY <1>6, <2>2 DEF CheckAssertion
  <1>9. CASE ResolveFile(c)
    BY <1>9 DEF ResolveFile
  <1> QED
    BY <1>1, <1>2, <1>3, <1>4, <1>5, <1>6, <1>7, <1>8, <1>9 DEF Step, Work

LEMMA SheetStep ==
  ASSUME TypeOK, OneSheetPerPath, NEW c \in Case, Step(c) PROVE OneSheetPerPath'
  <1>t. /\ loc \in [Case -> Locals] /\ tc \in [Case -> Profile]
        /\ sheets \in [File -> Case \cup {None}] /\ None \notin Case
    BY XSLTRunnerAssumption DEF TypeOK
  <1> SUFFICES ASSUME NEW d \in Case, tc'[d].route = "cached", loc'[d].sheet # None
               PROVE loc'[d].sheet = sheets'[tc'[d].sheet]
    BY DEF OneSheetPerPath
  <1>a. tc[d].sheet \in File /\ tc[c].sheet \in File
    BY <1>t DEF Profile
  <1>o. d # c => loc'[d] = loc[d]
    BY OthersKeep
  <1>1. CASE LoadSheet(c)
    <2>1. tc' = tc /\ sheets' = sheets
          /\ (loc' = [loc EXCEPT ![c].sheet = sheets[tc[c].sheet]] \/ loc' = loc)
      BY <1>1 DEF LoadSheet
    <2>2. loc'[c].sheet = sheets[tc[c].sheet] \/ loc' = loc
      BY <2>1, <1>t DEF Locals
    <2> QED
      BY <2>1, <2>2, <1>o DEF OneSheetPerPath
  <1>2. CASE StoreSheet(c)
    <2>1. CASE /\ sheets' = [sheets EXCEPT ![tc[c].sheet] = Winner(c)]
               /\ loc' = [loc EXCEPT ![c].sheet = Winner(c)] /\ tc' = tc
      <3>1. loc'[c].sheet = Winner(c) /\ sheets'[tc[c].sheet] = Winner(c)
        BY <2>1, <1>t, <1>a DEF Locals
      <3>2. CASE d # c /\ tc[d].sheet = tc[c].sheet
        <4>1. loc[d].sheet = sheets[tc[c].sheet] /\ loc[d].sheet # None
          BY <2>1, <3>2, <1>o DEF OneSheetPerPath
        <4> QED
          BY <2>1, <3>1, <3>2, <4>1, <1>o DEF Winner
      <3>3. CASE d # c /\ tc[d].sheet # tc[c].sheet
        BY <2>1, <3>3, <1>o, <1>t, <1>a DEF OneSheetPerPath
      <3> QED
        BY <2>1, <3>1, <3>2, <3>3
    <2>2. CASE sheets' = sheets /\ tc' = tc /\ (Fatal(c) \/ Return(c))
      <3>1. loc'[c].sheet = loc[c].sheet
        BY <2>2, <1>t DEF Fatal, Return, Locals
      <3> QED
        BY <2>2, <3>1, <1>o DEF OneSheetPerPath
    <2> QED
      BY <1>2, <2>1, <2>2 DEF StoreSheet, Raise
  <1>3. CASE ~LoadSheet(c) /\ ~StoreSheet(c)
    BY <1>3, <1>o, SheetKept DEF OneSheetPerPath
  <1> QED
    BY <1>1, <1>2, <1>3

-------------------------------------------------------------------------------
LEMMA DefsStep ==
  ASSUME TypeOK, DefsInv, ReadsOwnOutputDef, NEW c \in Case, Step(c)
  PROVE DefsInv' /\ ReadsOwnOutputDef'
  <1>t. log \in [Case -> History]
    BY DEF TypeOK
  <1>o. \A d \in Case : d # c => log'[d] = log[d]
    BY OthersKeep
  <1>1. CASE Deliver(c)
    <2>1. PICK defs \in SUBSET Href :
            outDefs' = {d \in outDefs : d.key \notin {Key(c, h) : h \in defs}}
                       \cup {[key |-> k, by |-> c] : k \in {Key(c, h) : h \in defs}}
      BY <1>1 DEF Deliver
    <2>2. ASSUME NEW d \in outDefs' PROVE d.key[1] = d.by
      <3>1. CASE d \in outDefs
        BY <3>1 DEF DefsInv
      <3>2. CASE d \in {[key |-> k, by |-> c] : k \in {Key(c, h) : h \in defs}}
        BY <3>2 DEF Key
      <3> QED
        BY <2>1, <2>2, <3>1, <3>2
    <2>3. PICK ms : log' = [log EXCEPT ![c].marks = @ \cup ms]
      BY <1>1 DEF Deliver
    <2>4. log'[c].used = log[c].used
      BY <2>3, <1>t DEF History
    <2> QED
      BY <2>2, <2>4, <1>o DEF DefsInv, ReadsOwnOutputDef
  <1>2. CASE CheckAssertion(c)
    <2>1. outDefs' = outDefs
      BY <1>2 DEF CheckAssertion
    <2>2. ASSUME NEW holds \in BOOLEAN, NEW defs, defs \subseteq {c}, Evaluated(c, holds, defs)
          PROVE log'[c].used \subseteq {c}
      <3>1. log'[c].used = log[c].used \cup defs
        BY <2>2, <1>t DEF Evaluated, History
      <3> QED
        BY <2>2, <3>1 DEF ReadsOwnOutputDef
    <2>3. \A h : {d.by : d \in {x \in outDefs : x.key = Key(c, h)}} \subseteq {c}
      BY DEF DefsInv, Key
    <2>4. \/ log' = log
          \/ \E holds \in BOOLEAN, defs \in SUBSET {c} : Evaluated(c, holds, defs)
      BY <1>2, <2>3 DEF CheckAssertion
    <2>5. log'[c].used \subseteq {c}
      BY <2>2, <2>4 DEF ReadsOwnOutputDef
    <2> QED
      BY <2>1, <2>5, <1>o DEF DefsInv, ReadsOwnOutputDef
  <1>3. CASE ~Deliver(c) /\ ~CheckAssertion(c)
    <2>1. \A e : log' = [log EXCEPT ![c].raised = @ \cup {e}] => log'[c].used = log[c].used
      BY <1>t DEF History
    <2>2. \A ms : log' = [log EXCEPT ![c].marks = @ \cup ms] => log'[c].used = log[c].used
      BY <1>t DEF History
    <2>3. outDefs' = outDefs /\ log'[c].used = log[c].used
      BY <1>3, <2>1, <2>2 DEF Step, Work, Resume, Acquire, Decide, LoadSource, ReadSource,
        ParseSource, CompileEmbedded, CompileDirect, Compiled, LoadSheet, StoreSheet, Prepare,
        Judge, Serialize, Checked, Release, ResolveFile, Raise, RaiseInDocument, Miss
    <2> QED
      BY <2>3, <1>o DEF DefsInv, ReadsOwnOutputDef
  <1> QED
    BY <1>1, <1>2, <1>3

-------------------------------------------------------------------------------
\* A case that fails needs no more to be said of it.
LEMMA FatalVerdict ==
  ASSUME TypeOK, NEW c \in Case, Fatal(c) PROVE VerdictOf(c)'
  <1>1. pc'[c] = "cleanup"
    BY DEF TypeOK, Fatal, Goto
  <1>2. "failed" \in loc'[c].marks
    BY DEF TypeOK, Fatal, Locals
  <1> QED
    BY <1>1, <1>2 DEF VerdictOf

LEMMA RaiseVerdict ==
  ASSUME TypeOK, NEW c \in Case, VerdictOf(c), tc' = tc, NEW e \in Error,
         Raise(c, e) \/ RaiseInDocument(c, e)
  PROVE VerdictOf(c)'
  <1>1. CASE Fatal(c)
    BY <1>1, FatalVerdict
  <1>2. CASE Return(c) /\ (ExpectError(c) \/ Accepted(c, e))
    <2>1. log' = [log EXCEPT ![c].raised = @ \cup {e}]
      BY DEF Raise, RaiseInDocument
    <2>2. log'[c].raised = log[c].raised \cup {e} /\ log'[c].marks = log[c].marks
      BY <2>1 DEF TypeOK, History
    <2>3. pc'[c] = "cleanup" /\ loc' = loc
      BY <1>2 DEF TypeOK, Return, Goto
    <2>4. Earned(c)'
      BY <1>2, <2>2 DEF Earned, ExpectError, Accepted
    <2> QED
      BY <1>2, <2>2, <2>3, <2>4 DEF VerdictOf, Accepted, Mistakes, Excused, ExpectError
  <1> QED
    BY <1>1, <1>2 DEF Raise, RaiseInDocument

\* Going on without a mark or an error.
LEMMA GotoVerdict ==
  ASSUME TypeOK, NEW c \in Case, VerdictOf(c), tc' = tc, log'[c] = log[c],
         loc'[c].marks = loc[c].marks, pc[c] \notin {"cleanup", "ended"},
         pc'[c] \notin {"serialize", "check", "cleanup", "ended"},
         pc'[c] = "store" => tc[c].route = "cached"
  PROVE VerdictOf(c)'
  BY DEF VerdictOf, Mistakes, Excused, ExpectError

LEMMA OwnVerdict ==
  ASSUME TypeOK, NEW c \in Case, VerdictOf(c), Step(c) PROVE VerdictOf(c)'
  <1>t. /\ pc \in [Case -> Label] /\ loc \in [Case -> Locals] /\ log \in [Case -> History]
        /\ tc[c].expect \in {"result", "error", "SE", "XTSE3430"}
        /\ loc[c] \in Locals /\ log[c] \in History
    BY DEF TypeOK, Profile
  <1>c. tc' = tc
    BY DEF Step, Work, Resume, Acquire, Decide, LoadSource, ReadSource, ParseSource,
      CompileEmbedded, CompileDirect, LoadSheet, StoreSheet, Prepare, Deliver, Judge, Serialize,
      CheckAssertion, Checked, Release, ResolveFile
  <1>s. \A d \in Case \cup {None} :
          loc' = [loc EXCEPT ![c].sheet = d] => loc'[c].marks = loc[c].marks
    BY <1>t DEF Locals
  <1>k. Compiled(c) => /\ loc'[c].marks = loc[c].marks /\ log'[c] = log[c]
                       /\ pc'[c] = "prepare"
    BY <1>t, <1>s DEF Compiled, Goto
  <1>1. CASE Resume(c) \/ Acquire(c) \/ LoadSource(c)
    BY <1>1, <1>c, <1>t, GotoVerdict DEF Resume, Acquire, LoadSource, Goto
  <1>2. CASE Decide(c)
    <2>1. CASE tc[c].skip
      <3>1. loc'[c].marks = loc[c].marks \cup {"skipped"} /\ pc'[c] = "cleanup" /\ log' = log
        BY <1>2, <2>1, <1>t DEF Decide, Goto, Locals
      <3> QED
        BY <3>1, <1>c DEF VerdictOf, Mistakes, Excused, ExpectError
    <2>2. CASE ~tc[c].skip
      BY <1>2, <2>2, <1>c, <1>t, GotoVerdict DEF Decide, Goto
    <2> QED
      BY <2>1, <2>2
  <1>3. CASE ReadSource(c)
    BY <1>3, <1>c, <1>t, GotoVerdict, FatalVerdict DEF ReadSource, Miss, Goto
  <1>4. CASE ParseSource(c)
    BY <1>4, <1>c, <1>t, GotoVerdict, FatalVerdict, RaiseVerdict DEF ParseSource, Goto
  <1>5. CASE CompileEmbedded(c)
    BY <1>5, <1>c, <1>t, <1>k, GotoVerdict, FatalVerdict, RaiseVerdict DEF CompileEmbedded
  <1>6. CASE CompileDirect(c)
    BY <1>6, <1>c, <1>t, <1>k, GotoVerdict, FatalVerdict, RaiseVerdict DEF CompileDirect, Miss
  <1>7. CASE LoadSheet(c)
    <2>1. loc'[c].marks = loc[c].marks /\ log' = log /\ pc'[c] \in {"prepare", "store"}
      BY <1>7, <1>t DEF LoadSheet, Goto, Locals
    <2> QED
      BY <1>7, <2>1, <1>c, GotoVerdict DEF LoadSheet
  <1>8. CASE StoreSheet(c)
    <2>1. CASE /\ loc' = [loc EXCEPT ![c].sheet = Winner(c)]
               /\ Goto(c, "prepare") /\ UNCHANGED log
      <3>1. loc'[c].marks = loc[c].marks /\ log' = log /\ pc'[c] = "prepare"
        BY <2>1, <1>t DEF Goto, Locals
      <3> QED
        BY <1>8, <3>1, <1>c, GotoVerdict DEF StoreSheet
    <2>2. CASE \E e \in Error : Raise(c, e)
      BY <2>2, <1>c, RaiseVerdict
    <2>3. CASE Fatal(c)
      BY <2>3, FatalVerdict
    <2>4. CASE /\ log' = [log EXCEPT ![c].marks = @ \cup {"missed"}]
               /\ Return(c) /\ ExpectError(c) /\ tc[c].sheet \notin Present
      <3>1. log'[c].marks = log[c].marks \cup {"missed"} /\ log'[c].raised = log[c].raised
            /\ loc' = loc /\ pc'[c] = "cleanup"
        BY <2>4, <1>t DEF Return, Goto, History
      <3>2. Mistakes(c)'
        <4>1. tc[c].route = "cached"
          BY <1>8 DEF StoreSheet, VerdictOf
        <4> QED
          BY <4>1, <2>4, <1>c DEF Mistakes, Excused, ExpectError
      <3> QED
        BY <2>4, <3>1, <3>2, <1>c DEF VerdictOf, Excused, ExpectError
    <2> QED
      BY <1>8, <2>1, <2>2, <2>3, <2>4 DEF StoreSheet
  <1>9. CASE Prepare(c)
    BY <1>9, <1>c, <1>t, GotoVerdict, FatalVerdict DEF Prepare, Miss, Goto
  <1>10. CASE Deliver(c)
    <2>1. PICK asked \in SUBSET tc[c].fetches, docs \in SUBSET Href, raw \in SUBSET {"raw"} :
            /\ loc' = [loc EXCEPT ![c].docs = docs,
                         ![c].marks = @ \cup raw \cup Only("failed", ~Answers(asked))]
            /\ log' = [log EXCEPT ![c].marks =
                         @ \cup Only("missed", ~(asked \subseteq Served))]
      BY <1>10 DEF Deliver
    <2>2. loc'[c].marks = loc[c].marks \cup raw \cup Only("failed", ~(asked \subseteq Served))
      BY <2>1, <1>t DEF Locals, Answers
    <2>3. /\ log'[c].marks = log[c].marks \cup Only("missed", ~(asked \subseteq Served))
          /\ log'[c].raised = log[c].raised
      BY <2>1, <1>t DEF History
    <2>4. pc[c] = "transform" /\ pc'[c] = "judge"
      BY <1>10, <1>t DEF Deliver, Goto
    <2> QED
      BY <2>2, <2>3, <2>4, <1>c DEF VerdictOf, Only, Mistakes, Excused, ExpectError
  <1>11. CASE Judge(c)
    <2>1. CASE \E e \in Error : Raise(c, e)
      BY <2>1, <1>c, RaiseVerdict
    <2>2. CASE tc[c].expect = "XTSE3430" /\ Return(c) /\ UNCHANGED log
      <3>1. pc'[c] = "cleanup" /\ loc' = loc /\ log' = log
        BY <2>2, <1>t DEF Return, Goto
      <3> QED
        BY <2>2, <3>1, <1>c DEF VerdictOf, Earned, ExpectError, Mistakes, Excused
    <2>3. CASE Fatal(c)
      BY <2>3, FatalVerdict
    <2>4. CASE tc[c].expect \in {"result", "SE"} /\ Goto(c, "serialize") /\ UNCHANGED <<loc, log>>
      <3>1. pc'[c] = "serialize" /\ loc' = loc /\ log' = log /\ pc[c] = "judge"
        BY <1>11, <2>4, <1>t DEF Judge, Goto
      <3> QED
        BY <2>4, <3>1, <1>c DEF VerdictOf, ExpectError, Mistakes, Excused
    <2> QED
      BY <1>11, <1>t, <2>1, <2>2, <2>3, <2>4 DEF Judge
  <1>12. CASE Serialize(c)
    <2>1. CASE /\ ~ExpectError(c) /\ Goto(c, "check") /\ UNCHANGED log
               /\ loc' = [loc EXCEPT ![c].todo = tc[c].asserts]
      <3>1. /\ pc[c] = "serialize" /\ pc'[c] = "check" /\ log' = log
            /\ loc'[c].marks = loc[c].marks
        BY <1>12, <2>1, <1>t DEF Serialize, Goto, Locals
      <3> QED
        BY <2>1, <3>1, <1>c DEF VerdictOf, ExpectError, Mistakes, Excused
    <2> QED
      BY <1>12, <2>1, <1>c, FatalVerdict, RaiseVerdict DEF Serialize
  <1>13. CASE CheckAssertion(c)
    <2>0. pc[c] = "check" /\ log[c].raised = {} /\ tc[c].expect = "result"
      BY <1>13 DEF CheckAssertion, VerdictOf
    <2>1. CASE /\ Goto(c, "cleanup") /\ UNCHANGED log
               /\ loc' = [loc EXCEPT ![c].marks = @ \cup {"skipped"}]
      <3>1. pc'[c] = "cleanup" /\ log' = log /\ loc'[c].marks = loc[c].marks \cup {"skipped"}
        BY <2>1, <1>t DEF Goto, Locals
      <3> QED
        BY <3>1, <2>0, <1>c DEF VerdictOf, ExpectError, Mistakes, Excused
    <2>2. CASE /\ loc' = [loc EXCEPT ![c].todo = Tail(@)] /\ UNCHANGED <<pc, log>>
      <3>1. loc'[c].marks = loc[c].marks
        BY <2>2, <1>t DEF Locals
      <3> QED
        BY <2>2, <3>1, <2>0, <1>c DEF VerdictOf, ExpectError, Mistakes, Excused
    <2>3. ASSUME NEW holds \in BOOLEAN, NEW defs, Evaluated(c, holds, defs), UNCHANGED pc
          PROVE VerdictOf(c)'
      <3>1. /\ loc'[c].marks = loc[c].marks \cup Only("failed", ~holds)
            /\ log'[c].raised = log[c].raised
            /\ log'[c].marks = log[c].marks \cup Only("wrong", ~holds)
        BY <2>3, <1>t DEF Evaluated, Locals, History
      <3> QED
        BY <2>3, <3>1, <2>0, <1>c DEF VerdictOf, Only, ExpectError, Mistakes, Excused
    <2> QED
      BY <1>13, <2>1, <2>2, <2>3 DEF CheckAssertion
  <1>14. CASE Checked(c)
    <2>1. /\ pc[c] = "check" /\ loc[c].todo = <<>> /\ loc' = loc /\ log' = log
          /\ pc'[c] = "cleanup"
      BY <1>14, <1>t DEF Checked, Return, Goto
    <2> QED
      BY <2>1, <1>c DEF VerdictOf, Earned, ExpectError, Mistakes, Excused
  <1>15. CASE Release(c)
    <2>1. pc[c] = "cleanup" /\ pc'[c] = "ended" /\ loc' = loc /\ log' = log
      BY <1>15, <1>t DEF Release, Goto
    <2> QED
      BY <2>1, <1>c DEF VerdictOf, Earned, ExpectError, Mistakes, Excused
  <1>16. CASE ResolveFile(c)
    <2>1. /\ pc' = pc /\ loc' = loc /\ pc[c] \notin {"cleanup", "ended"}
          /\ log'[c].raised = log[c].raised /\ log'[c].marks = log[c].marks \cup {"unread"}
      BY <1>16, <1>t DEF ResolveFile, Processing, History
    <2> QED
      BY <2>1, <1>c DEF VerdictOf, Mistakes, ExpectError
  <1> QED
    BY <1>1, <1>2, <1>3, <1>4, <1>5, <1>6, <1>7, <1>8, <1>9, <1>10, <1>11, <1>12, <1>13,
       <1>14, <1>15, <1>16 DEF Step, Work

LEMMA VerdictStep ==
  ASSUME TypeOK, VerdictInv, NEW c \in Case, Step(c) PROVE VerdictInv'
  <1>1. tc' = tc
    BY DEF Step, Work, Resume, Acquire, Decide, LoadSource, ReadSource, ParseSource,
      CompileEmbedded, CompileDirect, LoadSheet, StoreSheet, Prepare, Deliver, Judge, Serialize,
      CheckAssertion, Checked, Release, ResolveFile
  <1>2. ASSUME NEW d \in Case, d # c PROVE VerdictOf(d)'
    <2>1. pc'[d] = pc[d] /\ loc'[d] = loc[d] /\ log'[d] = log[d]
      BY <1>2, OthersKeep
    <2> QED
      BY <1>1, <2>1 DEF VerdictInv, VerdictOf, Earned, ExpectError, Mistakes, Excused
  <1>3. VerdictOf(c)'
    BY OwnVerdict DEF VerdictInv
  <1> QED
    BY <1>2, <1>3 DEF VerdictInv

-------------------------------------------------------------------------------
IInv ==
  TypeOK /\ SlotsBalanced /\ OneSheetPerPath /\ DefsInv /\ ReadsOwnOutputDef /\ VerdictInv

LEMMA InitInv == Init => IInv
  <1> SUFFICES ASSUME Init PROVE IInv
    OBVIOUS
  <1>1. TypeOK
    BY XSLTRunnerAssumption DEF Init, TypeOK, Label, Locals, History
  <1>2. SlotsBalanced
    <2>1. Holding = {}
      BY DEF Init, Holding
    <2> QED
      BY <2>1, FS_EmptySet DEF Init, SlotsBalanced
  <1>3. OneSheetPerPath /\ DefsInv /\ ReadsOwnOutputDef /\ VerdictInv
    BY DEF Init, OneSheetPerPath, DefsInv, ReadsOwnOutputDef, VerdictInv, VerdictOf
  <1> QED
    BY <1>1, <1>2, <1>3 DEF IInv

LEMMA NextInv == IInv /\ [Next]_vars => IInv'
  <1> SUFFICES ASSUME IInv, [Next]_vars PROVE IInv'
    OBVIOUS
  <1>1. CASE UNCHANGED vars
    BY <1>1 DEF IInv, vars, TypeOK, SlotsBalanced, Holding, OneSheetPerPath, DefsInv,
      ReadsOwnOutputDef, VerdictInv, VerdictOf, Earned, ExpectError, Mistakes, Excused
  <1>2. ASSUME NEW c \in Case, Step(c) PROVE IInv'
    BY <1>2, StepTypes, SlotsStep, SheetStep, DefsStep, VerdictStep DEF IInv
  <1> QED
    BY <1>1, <1>2 DEF Next

LEMMA Invariance == Spec => []IInv
  BY InitInv, NextInv, PTL DEF Spec

\* Every variable keeps its type; the semaphore never exceeds its capacity.
THEOREM TypeCorrect == Spec => []TypeOK
  BY Invariance, PTL DEF IInv

\* Tokens are neither lost nor forged, whichever way a case leaves.
THEOREM SlotsAlwaysBalanced == Spec => []SlotsBalanced
  BY Invariance, PTL DEF IInv

\* Cases racing for the stylesheet cache agree on one compiled stylesheet.
THEOREM AlwaysOneSheetPerPath == Spec => []OneSheetPerPath
  BY Invariance, PTL DEF IInv

\* No case serializes with an output definition another one stored.
THEOREM AlwaysReadsOwnOutputDef == Spec => []ReadsOwnOutputDef
  BY Invariance, PTL DEF IInv

\* No case passes that has not earned it, with the one exception named, whatever
\* its shape and whatever the others do meanwhile.
THEOREM PassesAreEarned == Spec => []PassIsEarned
  <1>1. IInv => PassIsEarned
    BY DEF IInv, VerdictInv, VerdictOf, PassIsEarned, Passed, Ended
  <1> QED
    BY <1>1, Invariance, PTL

\* Every case fails that went for a fixture the runner reads, or for a page, and
\* it is not there, but for the stylesheet of a case that expects an error; and so
\* does one whose processor raised an error over a file it could not open itself,
\* unless the case expects an error or accepts this one.
THEOREM MissesAreFailures == Spec => []MissIsAFailure
  <1>1. IInv => MissIsAFailure
    BY DEF IInv, VerdictInv, VerdictOf, MissIsAFailure, Ended
  <1> QED
    BY <1>1, Invariance, PTL
===============================================================================
