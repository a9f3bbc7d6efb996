--------------------------- MODULE OntologyProofs ---------------------------
(***************************************************************************)
(* The writes of the ontology, for any programs that satisfy               *)
(* ProgramsAssumption, any number of requests and any number of restarts.  *)
(***************************************************************************)
EXTENDS Ontology, SequenceTheorems, FiniteSetTheorems, TLAPS

-----------------------------------------------------------------------------
(* Types.                                                                  *)

Stages == {"new", "look", "flush", "commit", "finish", "done"}

Known   == Programs \cup {New.program}
Steps   == UNION {ToSet(p.ops) : p \in Programs}
Makes   == {op.makes : op \in Steps}
Joined  == UNION {op.joins : op \in Steps}
Stamped == {[kind |-> m.kind, of |-> m.of, by |-> s] : m \in Makes, s \in Sessions}

Txn == [stage : Stages, program : Known, todo : Seq(Steps), added : SUBSET Stamped,
        links : SUBSET (Joined \X Makes), recorded : BOOLEAN, beside : SUBSET Sessions]

Outcomes == {"none", "running", "succeeded", "failed"}

Types ==
  /\ rows \subseteq Stamped
  /\ edges \subseteq Joined \X Makes
  /\ execution \in [Sessions -> Outcomes]
  /\ txn \in [Sessions -> Txn]

\* A request that is at an operation has one to do.
AtWork == \A s \in Sessions : txn[s].stage \in {"look", "flush"} => txn[s].todo # <<>>

Base == Types /\ AtWork

LEMMA OpsOfPrograms ==
  ASSUME NEW p \in Programs
  PROVE  /\ p.ops \in Seq(Steps) /\ p.ops # <<>>
         /\ <<Last(p.ops)>> \in Seq(Steps) /\ <<Last(p.ops)>> # <<>>
         /\ p.ops \in Seq(ToSet(p.ops)) /\ <<Last(p.ops)>> \in Seq(ToSet(p.ops))
         /\ p.command \in BOOLEAN
<1>1. p.ops \in Seq(ToSet(p.ops)) /\ p.ops # <<>> /\ p.command \in BOOLEAN
  BY ProgramsAssumption
<1>2. ToSet(p.ops) \subseteq Steps
  BY DEF Steps
<1>3. p.ops \in Seq(Steps)
  BY <1>1, <1>2, SeqMonotonic
<1>4. Len(p.ops) \in 1..Len(p.ops)
  BY <1>3, <1>1, EmptySeq, LenProperties
<1>5. Last(p.ops) \in Steps /\ Last(p.ops) \in ToSet(p.ops)
  BY <1>1, <1>3, <1>4, ElementOfSeq DEF Last
<1> QED BY <1>1, <1>3, <1>5

\* What an action of one session leaves alone.
Same(t) ==
  /\ txn'[t].stage = txn[t].stage /\ txn'[t].program = txn[t].program
  /\ txn'[t].todo = txn[t].todo /\ txn'[t].added = txn[t].added
  /\ txn'[t].links = txn[t].links /\ txn'[t].recorded = txn[t].recorded

Others(s) == \A t \in Sessions \ {s} : Same(t)

LEMMA NewTyped == New \in Txn /\ New.stage = "new" /\ New.added = {} /\ New.links = {}
BY DEF New, Txn, Stages, Known

LEMMA StartStep ==
  ASSUME Types, NEW s \in Sessions, NEW p \in Programs, Start(s, p)
  PROVE  /\ Types' /\ Others(s) /\ txn[s].stage = "new"
         /\ txn'[s].stage = "look" /\ txn'[s].program = p
         /\ txn'[s].added = {} /\ txn'[s].links = {} /\ txn'[s].recorded = p.command
         /\ txn'[s].todo # <<>> /\ (~p.watches => txn'[s].todo = p.ops)
         /\ txn'[s].todo \in Seq(ToSet(p.ops))
         /\ \A t \in Sessions \ {s} :
              /\ txn[t].beside \subseteq txn'[t].beside
              /\ Running(t) => t \in txn'[s].beside /\ s \in txn'[t].beside
         /\ UNCHANGED <<rows, edges, execution>>
<1> DEFINE todo == IF p.watches /\ There(s, p.ops[1].makes) THEN <<Last(p.ops)>> ELSE p.ops
           near == {u \in Sessions : Running(u)}
           mine == [New EXCEPT !.stage = "look", !.program = p, !.recorded = p.command,
                               !.beside = near, !.todo = todo]
           joins(x) == [x EXCEPT !.beside = @ \cup {s}]
<1>1. /\ todo \in Seq(Steps) /\ todo # <<>> /\ near \subseteq Sessions
      /\ todo \in Seq(ToSet(p.ops))
  BY OpsOfPrograms
<1>2. /\ mine \in Txn /\ mine.stage = "look" /\ mine.program = p /\ mine.added = {}
      /\ mine.links = {} /\ mine.recorded = p.command /\ mine.todo = todo
      /\ mine.beside = near
  <2> HIDE DEF todo, near
  <2> QED BY <1>1, NewTyped, OpsOfPrograms DEF Txn, Stages, Known
<1>3. ASSUME NEW x \in Txn
      PROVE  /\ joins(x) \in Txn /\ joins(x).stage = x.stage /\ joins(x).program = x.program
             /\ joins(x).todo = x.todo /\ joins(x).added = x.added
             /\ joins(x).links = x.links /\ joins(x).recorded = x.recorded
             /\ joins(x).beside = x.beside \cup {s}
  BY DEF Txn
<1>4. /\ txn' = [t \in Sessions |-> IF t = s THEN mine
                                   ELSE IF Running(t) THEN joins(txn[t]) ELSE txn[t]]
      /\ txn[s].stage = "new"
      /\ UNCHANGED <<rows, edges, execution>>
  BY DEF Start
<1> HIDE DEF mine, joins
<1>5. \A t \in Sessions : txn[t] \in Txn
  BY DEF Types
<1>6. txn' \in [Sessions -> Txn]
  BY <1>2, <1>3, <1>4, <1>5
<1>7. Others(s)
  BY <1>3, <1>4, <1>5 DEF Others, Same
<1>8. txn'[s] = mine
  BY <1>4
<1>9. ~p.watches => todo = p.ops
  OBVIOUS
<1>10. \A t \in Sessions \ {s} :
         /\ txn[t].beside \subseteq txn'[t].beside
         /\ Running(t) => t \in txn'[s].beside /\ s \in txn'[t].beside
  BY <1>2, <1>3, <1>4, <1>5, <1>8
<1> HIDE DEF todo, near
<1> QED BY <1>1, <1>2, <1>4, <1>6, <1>7, <1>8, <1>9, <1>10 DEF Types

LEMMA RefusedStep ==
  ASSUME Types, NEW s \in Sessions, NEW p \in Programs, Refused(s, p)
  PROVE  /\ Types' /\ Others(s) /\ txn[s].stage = "new"
         /\ txn'[s].stage = "done" /\ txn'[s].program = p
         /\ txn'[s].added = {} /\ txn'[s].links = {}
         /\ \A t \in Sessions : execution'[t] = "none" => execution[t] = "none"
         /\ UNCHANGED <<rows, edges>>
<1> DEFINE mine == [New EXCEPT !.stage = "done", !.program = p]
<1>1. /\ mine \in Txn /\ mine.stage = "done" /\ mine.program = p /\ mine.added = {}
      /\ mine.links = {}
  BY NewTyped DEF Txn, Stages, Known
<1>2. /\ txn' = [txn EXCEPT ![s] = mine] /\ txn[s].stage = "new"
      /\ execution' = [execution EXCEPT ![s] = "failed"] /\ UNCHANGED <<rows, edges>>
  BY DEF Refused
<1> HIDE DEF mine
<1>3. txn' \in [Sessions -> Txn] /\ Others(s) /\ txn'[s] = mine
  BY <1>1, <1>2 DEF Types, Others, Same
<1>4. /\ execution' \in [Sessions -> Outcomes]
      /\ \A t \in Sessions : execution'[t] = "none" => execution[t] = "none"
  BY <1>2 DEF Types, Outcomes
<1> QED BY <1>1, <1>2, <1>3, <1>4 DEF Types

LEMMA EndedStep ==
  ASSUME Types, NEW s \in Sessions, Ended(s)
  PROVE  /\ txn' \in [Sessions -> Txn] /\ Others(s)
         /\ txn'[s].stage = "done" /\ txn'[s].program = txn[s].program
         /\ txn'[s].added = {} /\ txn'[s].links = {}
         /\ txn'[s].recorded = txn[s].recorded
<1> DEFINE mine == [txn[s] EXCEPT !.stage = "done", !.added = {}, !.links = {}]
<1>1. txn[s] \in Txn
  BY DEF Types
<1>2. /\ mine \in Txn /\ mine.stage = "done" /\ mine.program = txn[s].program
      /\ mine.added = {} /\ mine.links = {} /\ mine.recorded = txn[s].recorded
  BY <1>1 DEF Txn, Stages
<1>3. txn' = [txn EXCEPT ![s] = mine]
  BY DEF Ended, Types
<1> HIDE DEF mine
<1> QED BY <1>2, <1>3 DEF Types, Others, Same

LEMMA RecordStep ==
  ASSUME Types, NEW s \in Sessions, NEW o \in {"running", "succeeded", "failed"},
         Record(s, o)
  PROVE  /\ execution' \in [Sessions -> Outcomes]
         /\ \A t \in Sessions : execution'[t] = "none" => execution[t] = "none"
         /\ txn[s].recorded => execution'[s] # "none"
BY DEF Record, Types, Outcomes

\* What a step inside a program leaves of its session.
Stays(s) == txn'[s].program = txn[s].program /\ txn'[s].recorded = txn[s].recorded

\* The place of the next operation.
Onwards(s) ==
  /\ txn'[s].todo = Tail(txn[s].todo)
  /\ txn'[s].stage \in {"look", "commit", "finish"}
  /\ txn'[s].stage = "look" => Tail(txn[s].todo) # <<>>
  /\ txn'[s].stage = "finish" => Tail(txn[s].todo) = <<>>

LEMMA OpTyped ==
  ASSUME Base, NEW s \in Sessions, txn[s].stage \in {"look", "flush"}
  PROVE  /\ Op(s) \in Steps /\ Op(s).makes \in Makes
         /\ Op(s).joins \subseteq Joined
         /\ Op(s).joins \subseteq Op(s).needs
         /\ Op(s).makes.kind \in Derived => Op(s).joins # {}
         /\ Tail(txn[s].todo) \in Seq(Steps)
         /\ After(s) \in {"look", "finish"}
         /\ After(s) = "look" => Tail(txn[s].todo) # <<>>
         /\ After(s) = "finish" => Tail(txn[s].todo) = <<>>
<1>1. txn[s].todo \in Seq(Steps) /\ txn[s].todo # <<>>
  BY DEF Base, Types, Txn, AtWork
<1>2. /\ Op(s) \in Steps /\ Tail(txn[s].todo) \in Seq(Steps)
      /\ Len(Tail(txn[s].todo)) = Len(txn[s].todo) - 1
  BY <1>1, HeadTailProperties DEF Op
<1>3. Op(s).makes \in Makes /\ Op(s).joins \subseteq Joined
  BY <1>2 DEF Makes, Joined
<1>4. /\ Op(s).joins \subseteq Op(s).needs
      /\ Op(s).makes.kind \in Derived => Op(s).joins # {}
  BY <1>2, ProgramsAssumption DEF Steps
<1>5. /\ After(s) \in {"look", "finish"}
      /\ After(s) = "look" => Len(Tail(txn[s].todo)) # 0
      /\ After(s) = "finish" => Len(Tail(txn[s].todo)) = 0
  BY <1>1, <1>2, LenProperties DEF After
<1>6. Len(Tail(txn[s].todo)) # 0 <=> Tail(txn[s].todo) # <<>>
  BY <1>2, EmptySeq
<1> QED BY <1>2, <1>3, <1>4, <1>5, <1>6

LEMMA KeepStep ==
  ASSUME Base, NEW s \in Sessions, Keep(s)
  PROVE  /\ Types' /\ Others(s) /\ Stays(s) /\ Onwards(s)
         /\ txn[s].stage = "look" /\ txn'[s].stage # "commit"
         /\ txn'[s].added = txn[s].added /\ txn'[s].links = txn[s].links
         /\ There(s, Op(s).makes)
         /\ UNCHANGED <<rows, edges, execution>>
<1> DEFINE next == After(s)
           left == Tail(txn[s].todo)
           mine == [txn[s] EXCEPT !.stage = next, !.todo = left]
<1>1. /\ txn[s].stage = "look" /\ There(s, Op(s).makes)
      /\ UNCHANGED <<rows, edges, execution>>
  BY DEF Keep
<1>2. left \in Seq(Steps) /\ next \in {"look", "finish"}
      /\ (next = "look" => left # <<>>) /\ (next = "finish" => left = <<>>)
  BY <1>1, OpTyped
<1>3. txn[s] \in Txn
  BY DEF Base, Types
<1>4. /\ mine \in Txn /\ mine.stage = next /\ mine.todo = left
      /\ mine.program = txn[s].program /\ mine.recorded = txn[s].recorded
      /\ mine.added = txn[s].added /\ mine.links = txn[s].links
  <2> HIDE DEF next, left
  <2> QED BY <1>2, <1>3 DEF Txn, Stages
<1>5. txn' = [txn EXCEPT ![s] = mine]
  BY <1>3 DEF Keep, Base, Types
<1> HIDE DEF mine
<1>6. txn' \in [Sessions -> Txn] /\ Others(s) /\ txn'[s] = mine
  BY <1>4, <1>5 DEF Base, Types, Others, Same
<1> HIDE DEF next
<1> QED BY <1>1, <1>2, <1>4, <1>6 DEF Base, Types, Stays, Onwards

LEMMA LookStep ==
  ASSUME Base, NEW s \in Sessions, Look(s)
  PROVE  /\ Types' /\ Others(s) /\ Stays(s)
         /\ txn[s].stage = "look" /\ txn'[s].stage = "flush" /\ ~Absent(s)
         /\ txn'[s].todo = txn[s].todo
         /\ txn'[s].added = txn[s].added /\ txn'[s].links = txn[s].links
         /\ UNCHANGED <<rows, edges, execution>>
<1> DEFINE mine == [txn[s] EXCEPT !.stage = "flush"]
<1>1. txn[s] \in Txn
  BY DEF Base, Types
<1>2. /\ mine \in Txn /\ mine.stage = "flush" /\ mine.todo = txn[s].todo
      /\ mine.program = txn[s].program /\ mine.recorded = txn[s].recorded
      /\ mine.added = txn[s].added /\ mine.links = txn[s].links
  BY <1>1 DEF Txn, Stages
<1>3. txn' = [txn EXCEPT ![s] = mine] /\ txn[s].stage = "look" /\ ~Absent(s)
      /\ UNCHANGED <<rows, edges, execution>>
  BY DEF Look
<1> HIDE DEF mine
<1> QED BY <1>2, <1>3 DEF Base, Types, Others, Same, Stays

\* The row a flush adds.
Flushed(s) == [kind |-> Op(s).makes.kind, of |-> Op(s).makes.of, by |-> s]

LEMMA FlushStep ==
  ASSUME Base, NEW s \in Sessions, Flush(s)
  PROVE  /\ Types' /\ Others(s) /\ Stays(s) /\ Onwards(s)
         /\ txn[s].stage = "flush" /\ ~Waits(s) /\ ~Clashes(s)
         /\ ~Op(s).commits => txn'[s].stage # "commit"
         /\ txn'[s].added = txn[s].added \cup {Flushed(s)}
         /\ txn'[s].links = txn[s].links \cup {<<j, Op(s).makes>> : j \in Op(s).joins}
         /\ UNCHANGED <<rows, edges, execution>>
<1> DEFINE next == IF Op(s).commits THEN "commit" ELSE After(s)
           left == Tail(txn[s].todo)
           flushed == Flushed(s)
           joined == {<<j, Op(s).makes>> : j \in Op(s).joins}
           mine == [txn[s] EXCEPT !.added = @ \cup {flushed}, !.links = @ \cup joined,
                                  !.stage = next, !.todo = left]
<1>1. /\ txn[s].stage = "flush" /\ ~Waits(s) /\ ~Clashes(s)
      /\ UNCHANGED <<rows, edges, execution>>
  BY DEF Flush
<1>2. left \in Seq(Steps) /\ next \in {"look", "commit", "finish"}
      /\ (next = "look" => left # <<>>) /\ (next = "finish" => left = <<>>)
      /\ (~Op(s).commits => next # "commit")
  BY <1>1, OpTyped
<1>3. flushed \in Stamped /\ joined \subseteq Joined \X Makes
  BY <1>1, OpTyped DEF Stamped, Flushed
<1>4. txn[s] \in Txn
  BY DEF Base, Types
<1>5. /\ mine \in Txn /\ mine.stage = next /\ mine.todo = left
      /\ mine.program = txn[s].program /\ mine.recorded = txn[s].recorded
      /\ mine.added = txn[s].added \cup {flushed} /\ mine.links = txn[s].links \cup joined
  <2> HIDE DEF next, left, flushed, joined
  <2> QED BY <1>2, <1>3, <1>4 DEF Txn, Stages
<1>6. txn' = [txn EXCEPT ![s] = mine]
  BY <1>4 DEF Flush, Base, Types, Flushed
<1> HIDE DEF mine
<1>7. txn' \in [Sessions -> Txn] /\ Others(s) /\ txn'[s] = mine
  BY <1>5, <1>6 DEF Base, Types, Others, Same
<1> HIDE DEF next
<1> QED BY <1>1, <1>2, <1>5, <1>7 DEF Base, Types, Stays, Onwards

LEMMA CommitStep ==
  ASSUME Base, NEW s \in Sessions, Commit(s)
  PROVE  /\ Types' /\ Others(s) /\ Stays(s) /\ Publish(s) /\ Record(s, "running")
         /\ txn[s].stage = "commit" /\ txn'[s].stage \in {"look", "finish"}
         /\ txn'[s].todo = txn[s].todo
         /\ txn'[s].stage = "finish" <=> txn[s].todo = <<>>
         /\ txn'[s].added = {} /\ txn'[s].links = {}
<1> DEFINE next == IF txn[s].todo = <<>> THEN "finish" ELSE "look"
           mine == [txn[s] EXCEPT !.added = {}, !.links = {}, !.stage = next]
<1>1. txn[s] \in Txn
  BY DEF Base, Types
<1>2. next \in {"look", "finish"} /\ (next = "finish" <=> txn[s].todo = <<>>)
  OBVIOUS
<1>3. /\ mine \in Txn /\ mine.stage = next /\ mine.todo = txn[s].todo
      /\ mine.program = txn[s].program /\ mine.recorded = txn[s].recorded
      /\ mine.added = {} /\ mine.links = {}
  <2> HIDE DEF next
  <2> QED BY <1>1, <1>2 DEF Txn, Stages
<1>4. txn' = [txn EXCEPT ![s] = mine] /\ txn[s].stage = "commit"
      /\ Publish(s) /\ Record(s, "running")
  BY <1>1 DEF Commit, Base, Types
<1> HIDE DEF mine
<1>5. txn' \in [Sessions -> Txn] /\ Others(s) /\ txn'[s] = mine
  BY <1>3, <1>4 DEF Base, Types, Others, Same
<1>6. rows' \subseteq Stamped /\ edges' \subseteq Joined \X Makes
  BY <1>1, <1>4 DEF Publish, Base, Types, Txn
<1>7. execution' \in [Sessions -> Outcomes]
  BY <1>4, RecordStep DEF Base
<1> HIDE DEF next
<1> QED BY <1>2, <1>3, <1>4, <1>5, <1>6, <1>7 DEF Types, Stays

\* The ways a program ends before its session is lost.
Ending(s) == Finish(s) \/ Refuse(s) \/ RefreshFails(s) \/ Violate(s) \/ Victim(s)

\* What is published at an end: all of a program, or what came before a refusal.
EndPublishes(s) ==
  /\ Publish(s)
  /\ txn[s].recorded => execution'[s] # "none"
  /\ \/ txn[s].stage = "finish"
     \/ txn[s].stage = "look" /\ (Absent(s) \/ Op(s).mustBeNew)

LEMMA EndingStep ==
  ASSUME Base, NEW s \in Sessions, Ending(s)
  PROVE  /\ Types' /\ Others(s) /\ Stays(s)
         /\ txn[s].stage \in {"look", "flush", "finish"} /\ txn'[s].stage = "done"
         /\ txn'[s].added = {} /\ txn'[s].links = {}
         /\ \A t \in Sessions : execution'[t] = "none" => execution[t] = "none"
         /\ UNCHANGED <<rows, edges>> \/ EndPublishes(s)
<1>1. Ended(s)
  BY DEF Ending, Finish, Refuse, RefreshFails, Violate, Rollback, Victim
<1>2. /\ txn' \in [Sessions -> Txn] /\ Others(s) /\ Stays(s)
      /\ txn'[s].stage = "done" /\ txn'[s].added = {} /\ txn'[s].links = {}
  BY <1>1, EndedStep DEF Base, Stays
<1>3. txn[s].stage \in {"look", "flush", "finish"}
  BY DEF Ending, Finish, Refuse, RefreshFails, Violate, Victim, Deadlocked, WaitsFor
<1>4. /\ execution' \in [Sessions -> Outcomes]
      /\ \A t \in Sessions : execution'[t] = "none" => execution[t] = "none"
  <2>1. CASE Finish(s)
    BY <2>1, RecordStep DEF Finish, Base
  <2>2. CASE Refuse(s)
    BY <2>2, RecordStep DEF Refuse, Base
  <2>3. CASE RefreshFails(s)
    BY <2>3, RecordStep DEF RefreshFails, Base
  <2>4. CASE Violate(s)
    BY <2>4 DEF Violate, Rollback, Base, Types, Outcomes
  <2>5. CASE Victim(s)
    BY <2>5 DEF Victim, Base, Types
  <2> QED BY <2>1, <2>2, <2>3, <2>4, <2>5 DEF Ending
<1>5. UNCHANGED <<rows, edges>> \/ EndPublishes(s)
  <2>1. CASE Finish(s)
    BY <2>1, RecordStep DEF Finish, EndPublishes, Base
  <2>2. CASE Refuse(s)
    BY <2>2, RecordStep DEF Refuse, EndPublishes, Publish, Base
  <2>3. CASE RefreshFails(s) \/ Violate(s) \/ Victim(s)
    BY <2>3 DEF RefreshFails, Violate, Rollback, Victim
  <2> QED BY <2>1, <2>2, <2>3 DEF Ending
<1>6. txn[s] \in Txn
  BY DEF Base, Types
<1>7. rows' \subseteq Stamped /\ edges' \subseteq Joined \X Makes
  BY <1>5, <1>6 DEF EndPublishes, Publish, Base, Types, Txn
<1> QED BY <1>2, <1>3, <1>4, <1>5, <1>7 DEF Types

LEMMA CrashStep ==
  ASSUME Types, OntCrash
  PROVE  /\ Types' /\ UNCHANGED <<rows, edges, execution>>
         /\ \A t \in Sessions :
              /\ txn'[t].stage = "done" /\ txn'[t].program = txn[t].program
              /\ txn'[t].recorded = txn[t].recorded
              /\ txn'[t].added = {} /\ txn'[t].links = {}
<1> DEFINE over(x) == [x EXCEPT !.stage = "done", !.added = {}, !.links = {}]
<1>1. ASSUME NEW x \in Txn
      PROVE  /\ over(x) \in Txn /\ over(x).stage = "done" /\ over(x).program = x.program
             /\ over(x).recorded = x.recorded
             /\ over(x).added = {} /\ over(x).links = {}
  BY DEF Txn, Stages
<1>2. txn' = [t \in Sessions |-> over(txn[t])] /\ UNCHANGED <<rows, edges, execution>>
  BY DEF OntCrash
<1> HIDE DEF over
<1>3. \A t \in Sessions : txn[t] \in Txn
  BY DEF Types
<1> QED BY <1>1, <1>2, <1>3 DEF Types

\* The steps of the ontology.
Stepping(s) ==
  \/ \E p \in Programs : Start(s, p) \/ Refused(s, p)
  \/ Keep(s) \/ Look(s) \/ Flush(s) \/ Commit(s) \/ Ending(s)

LEMMA NextSteps ==
  ASSUME OntNext
  PROVE  OntCrash \/ \E s \in Sessions : Stepping(s)
BY DEF OntNext, Work, Ending, Stepping, RejectCommand, RefusePlan

LEMMA BaseHolds == OntInit => Base
BY NewTyped DEF OntInit, Base, Types, AtWork, Outcomes

LEMMA BaseStays ==
  ASSUME Base, [OntNext]_ontVars
  PROVE  Base'
<1>1. CASE UNCHANGED ontVars
  BY <1>1 DEF ontVars, Base, Types, AtWork
<1>2. CASE OntCrash
  BY <1>2, CrashStep DEF Base, AtWork
<1>3. ASSUME NEW s \in Sessions, Stepping(s)
      PROVE  Base'
  <2>1. ASSUME Others(s), txn'[s].stage \in {"look", "flush"} => txn'[s].todo # <<>>
        PROVE  AtWork'
    BY <2>1 DEF Base, AtWork, Others, Same
  <2>2. ASSUME NEW p \in Programs, Start(s, p)
        PROVE  Base'
    BY <2>1, <2>2, StartStep DEF Base
  <2>3. ASSUME NEW p \in Programs, Refused(s, p)
        PROVE  Base'
    BY <2>1, <2>3, RefusedStep DEF Base
  <2>4. CASE Keep(s)
    BY <2>1, <2>4, KeepStep DEF Base, Onwards
  <2>5. CASE Look(s)
    BY <2>1, <2>5, LookStep DEF Base, AtWork
  <2>6. CASE Flush(s)
    BY <2>1, <2>6, FlushStep DEF Base, Onwards
  <2>7. CASE Commit(s)
    BY <2>1, <2>7, CommitStep DEF Base
  <2>8. CASE Ending(s)
    BY <2>1, <2>8, EndingStep DEF Base
  <2> QED BY <1>3, <2>2, <2>3, <2>4, <2>5, <2>6, <2>7, <2>8 DEF Stepping
<1> QED BY <1>1, <1>2, <1>3, NextSteps

-----------------------------------------------------------------------------
(* What a step does to what is stored.                                     *)

Keeps(t) ==
  \/ txn'[t].added = txn[t].added /\ txn'[t].links = txn[t].links
  \/ txn'[t].added = {} /\ txn'[t].links = {}

\* Nothing is written; a session may have been lost.
Quiet == UNCHANGED <<rows, edges>> /\ \A t \in Sessions : Keeps(t)

\* A session publishes what it has written.
Publishes(s) ==
  /\ Running(s) /\ Publish(s) /\ txn'[s].added = {} /\ txn'[s].links = {}
  /\ \A t \in Sessions \ {s} : txn'[t].added = txn[t].added /\ txn'[t].links = txn[t].links

\* A session writes a row.
Adds(s) ==
  /\ txn[s].stage = "flush" /\ ~Waits(s) /\ ~Clashes(s)
  /\ txn'[s].added = txn[s].added \cup {Flushed(s)}
  /\ txn'[s].links = txn[s].links \cup {<<j, Op(s).makes>> : j \in Op(s).joins}
  /\ \A t \in Sessions \ {s} : txn'[t].added = txn[t].added /\ txn'[t].links = txn[t].links
  /\ UNCHANGED <<rows, edges>>

LEMMA StepKinds ==
  ASSUME Base, [OntNext]_ontVars
  PROVE  Quiet \/ \E s \in Sessions : Publishes(s) \/ Adds(s)
<1>1. CASE UNCHANGED ontVars
  BY <1>1 DEF ontVars, Quiet, Keeps
<1>2. CASE OntCrash
  BY <1>2, CrashStep DEF Base, Quiet, Keeps
<1>3. ASSUME NEW s \in Sessions, Stepping(s)
      PROVE  Quiet \/ Publishes(s) \/ Adds(s)
  <2>1. ASSUME NEW p \in Programs, Start(s, p)
        PROVE  Quiet
    BY <2>1, StartStep DEF Base, Quiet, Keeps, Others, Same
  <2>2. ASSUME NEW p \in Programs, Refused(s, p)
        PROVE  Quiet
    BY <2>2, RefusedStep DEF Base, Quiet, Keeps, Others, Same
  <2>3. CASE Keep(s)
    BY <2>3, KeepStep DEF Quiet, Keeps, Others, Same
  <2>4. CASE Look(s)
    BY <2>4, LookStep DEF Quiet, Keeps, Others, Same
  <2>5. CASE Flush(s)
    BY <2>5, FlushStep DEF Adds, Others, Same
  <2>6. CASE Commit(s)
    BY <2>6, CommitStep DEF Publishes, Running, Others, Same
  <2>7. CASE Ending(s)
    BY <2>7, EndingStep DEF Quiet, Keeps, Publishes, Running, EndPublishes, Others, Same
  <2> QED BY <1>3, <2>1, <2>2, <2>3, <2>4, <2>5, <2>6, <2>7 DEF Stepping
<1> QED BY <1>1, <1>2, <1>3, NextSteps

-----------------------------------------------------------------------------
(* Nothing is stored twice.                                                *)

Twins(r, q) == Unique(r) /\ Is(r, q)

\* What a session has written is its own, is not stored, and no other session
\* has written it.
OwnRows == \A t \in Sessions : \A r \in txn[t].added : r.by = t

NotStored == \A t \in Sessions : \A r \in txn[t].added : \A q \in rows : ~Twins(r, q)

NotShared ==
  \A t, u \in Sessions : t # u =>
    \A r \in txn[t].added, q \in txn[u].added : ~Twins(r, q)

Single == \A r, q \in rows : Twins(r, q) => r = q

UniqueInv == OwnRows /\ NotStored /\ NotShared /\ Single

LEMMA TwinsBothWays == \A r, q : Twins(r, q) => Twins(q, r)
BY DEF Twins, Unique, Is

LEMMA SameRow ==
  ASSUME NEW r \in Stamped, NEW q \in Stamped, Is(r, q), r.by = q.by
  PROVE  r = q
BY DEF Stamped, Is

LEMMA UniqueStays ==
  ASSUME Base, UniqueInv, [OntNext]_ontVars
  PROVE  UniqueInv'
<1>1. CASE Quiet
  <2>1. \A t \in Sessions : txn'[t].added \subseteq txn[t].added
    BY <1>1 DEF Quiet, Keeps
  <2>2. rows' = rows
    BY <1>1 DEF Quiet
  <2> QED BY <2>1, <2>2 DEF UniqueInv, OwnRows, NotStored, NotShared, Single, Twins, Unique, Is
<1>2. ASSUME NEW s \in Sessions, Publishes(s)
      PROVE  UniqueInv'
  <2>1. /\ \A t \in Sessions : txn'[t].added \subseteq txn[t].added
        /\ txn'[s].added = {} /\ rows' = rows \cup txn[s].added
    BY <1>2 DEF Publishes, Publish
  <2>2. OwnRows' /\ NotShared'
    BY <2>1 DEF UniqueInv, OwnRows, NotShared, Twins, Unique, Is
  <2>3. NotStored'
    <3> SUFFICES ASSUME NEW t \in Sessions, NEW r \in txn'[t].added, NEW q \in rows'
                 PROVE  ~Twins(r, q)
      BY DEF NotStored, Twins, Unique, Is
    <3>1. t # s /\ r \in txn[t].added
      BY <2>1
    <3>2. CASE q \in rows
      BY <3>1, <3>2 DEF UniqueInv, NotStored
    <3>3. CASE q \in txn[s].added
      BY <3>1, <3>3 DEF UniqueInv, NotShared
    <3> QED BY <2>1, <3>2, <3>3
  <2>4. Single'
    <3> SUFFICES ASSUME NEW r \in rows', NEW q \in rows', Twins(r, q)
                 PROVE  r = q
      BY DEF Single, Twins, Unique, Is
    <3>1. CASE r \in rows /\ q \in rows
      BY <3>1 DEF UniqueInv, Single
    <3>2. CASE r \in txn[s].added /\ q \in txn[s].added
      <4>1. r \in Stamped /\ q \in Stamped
        BY <3>2 DEF Base, Types, Txn
      <4> QED BY <3>2, <4>1, SameRow DEF UniqueInv, OwnRows, Twins
    <3>3. ~(r \in txn[s].added /\ q \in rows)
      BY DEF UniqueInv, NotStored
    <3>4. ~(q \in txn[s].added /\ r \in rows)
      BY TwinsBothWays DEF UniqueInv, NotStored
    <3> QED BY <2>1, <3>1, <3>2, <3>3, <3>4
  <2> QED BY <2>2, <2>3, <2>4 DEF UniqueInv
<1>3. ASSUME NEW s \in Sessions, Adds(s)
      PROVE  UniqueInv'
  <2> DEFINE f == Flushed(s)
  <2>1. /\ rows' = rows /\ txn'[s].added = txn[s].added \cup {f}
        /\ \A t \in Sessions \ {s} : txn'[t].added = txn[t].added
    BY <1>3 DEF Adds
  <2>2. f.by = s
    BY DEF Flushed
  <2>3. \A q \in rows : ~Twins(f, q)
    BY <1>3 DEF Adds, Clashes, Stored, Flushed, Twins, Unique, Is
  <2>4. ASSUME NEW t \in Sessions \ {s}, NEW q \in txn[t].added
        PROVE  ~Twins(f, q)
    <3>1. ~WaitsFor(s, t) /\ txn[s].stage = "flush"
      BY <1>3 DEF Adds, Waits
    <3> QED BY <3>1 DEF WaitsFor, Flushed, Twins, Unique, Is
  <2> HIDE DEF f
  <2>5. OwnRows'
    BY <2>1, <2>2 DEF UniqueInv, OwnRows
  <2>6. NotStored'
    BY <2>1, <2>3 DEF UniqueInv, NotStored, Twins, Unique, Is
  <2>7. NotShared'
    <3> SUFFICES ASSUME NEW t \in Sessions, NEW u \in Sessions, t # u,
                        NEW r \in txn'[t].added, NEW q \in txn'[u].added
                 PROVE  ~Twins(r, q)
      BY DEF NotShared, Twins, Unique, Is
    <3>1. CASE r = f /\ t = s
      BY <2>1, <2>4, <3>1
    <3>2. CASE q = f /\ u = s
      BY <2>1, <2>4, <3>2, TwinsBothWays
    <3>3. CASE r \in txn[t].added /\ q \in txn[u].added
      BY <3>3 DEF UniqueInv, NotShared
    <3> QED BY <2>1, <3>1, <3>2, <3>3
  <2>8. Single'
    BY <2>1 DEF UniqueInv, Single, Twins, Unique, Is
  <2> QED BY <2>5, <2>6, <2>7, <2>8 DEF UniqueInv
<1> QED BY <1>1, <1>2, <1>3, StepKinds

\* An object, an element set, an event of a run, a watch and a place on the
\* waitlist are stored once, however many requests look for them and add them
\* at the same time.
THEOREM StoredOnce == OntSpec => []NoTwins
<1>1. OntInit => Base /\ UniqueInv
  BY BaseHolds, NewTyped DEF OntInit, UniqueInv, OwnRows, NotStored, NotShared, Single
<1>2. Base /\ UniqueInv /\ [OntNext]_ontVars => (Base /\ UniqueInv)'
  BY BaseStays, UniqueStays
<1>3. UniqueInv => NoTwins
  BY DEF UniqueInv, Single, NoTwins, Twins, Unique, Is
<1> QED BY <1>1, <1>2, <1>3, PTL DEF OntSpec

-----------------------------------------------------------------------------
(* Lineage.                                                                *)

\* What a request is about to flush has what it needs.
Ready == \A s \in Sessions : txn[s].stage = "flush" => ~Absent(s)

LEMMA ThereStays ==
  ASSUME rows \subseteq rows', NEW t \in Sessions, txn[t].added \subseteq txn'[t].added
  PROVE  \A m : There(t, m) => There(t, m)'
BY DEF There, Is

LEMMA RowsStay ==
  ASSUME Base, [OntNext]_ontVars
  PROVE  rows \subseteq rows' /\ edges \subseteq edges'
BY StepKinds DEF Quiet, Publishes, Publish, Adds

LEMMA ReadyStays ==
  ASSUME Base, Ready, [OntNext]_ontVars
  PROVE  Ready'
<1>1. rows \subseteq rows'
  BY RowsStay
<1>2. ASSUME NEW t \in Sessions, txn[t].added \subseteq txn'[t].added,
             txn'[t].todo = txn[t].todo, ~Absent(t)
      PROVE  ~Absent(t)'
  BY <1>1, <1>2, ThereStays DEF Absent, Op
<1>3. CASE UNCHANGED ontVars
  BY <1>3 DEF ontVars, Ready, Absent, Op, There
<1>4. CASE OntCrash
  BY <1>4, CrashStep DEF Base, Ready
<1>5. ASSUME NEW s \in Sessions, Stepping(s)
      PROVE  Ready'
  <2>1. ASSUME Others(s), txn'[s].stage = "flush" => ~Absent(s)'
        PROVE  Ready'
    BY <1>2, <2>1 DEF Ready, Others, Same
  <2>2. ASSUME NEW p \in Programs, Start(s, p)
        PROVE  Ready'
    BY <2>1, <2>2, StartStep DEF Base
  <2>3. ASSUME NEW p \in Programs, Refused(s, p)
        PROVE  Ready'
    BY <2>1, <2>3, RefusedStep DEF Base
  <2>4. CASE Keep(s)
    BY <2>1, <2>4, KeepStep DEF Onwards
  <2>5. CASE Look(s)
    BY <1>2, <2>1, <2>5, LookStep
  <2>6. CASE Flush(s)
    BY <2>1, <2>6, FlushStep DEF Onwards
  <2>7. CASE Commit(s)
    BY <2>1, <2>7, CommitStep
  <2>8. CASE Ending(s)
    BY <2>1, <2>8, EndingStep
  <2> QED BY <1>5, <2>2, <2>3, <2>4, <2>5, <2>6, <2>7, <2>8 DEF Stepping
<1> QED BY <1>3, <1>4, <1>5, NextSteps

\* A session's lineage joins what it can see, and every derived row it has
\* written is joined to something.
LinkedAll ==
  \A t \in Sessions :
    /\ \A e \in txn[t].links : There(t, e[1]) /\ There(t, e[2])
    /\ \A r \in txn[t].added : r.kind \in Derived => \E e \in txn[t].links : Is(r, e[2])

LineageInv == Ready /\ LinkedAll /\ LineageWhole

LEMMA LineageStays ==
  ASSUME Base, LineageInv, [OntNext]_ontVars
  PROVE  LineageInv'
<1> USE DEF LineageInv
<1>1. Ready'
  BY ReadyStays
<1>2. rows \subseteq rows'
  BY RowsStay
<1>3. \A m : Stored(m) => Stored(m)'
  BY <1>2 DEF Stored, Is
<1>4. CASE Quiet
  <2>1. LinkedAll'
    <3> SUFFICES ASSUME NEW t \in Sessions
                 PROVE  /\ \A e \in txn'[t].links : There(t, e[1])' /\ There(t, e[2])'
                        /\ \A r \in txn'[t].added : r.kind \in Derived =>
                             \E e \in txn'[t].links : Is(r, e[2])
      BY DEF LinkedAll, Is
    <3>1. CASE txn'[t].added = {} /\ txn'[t].links = {}
      BY <3>1
    <3>2. CASE txn'[t].added = txn[t].added /\ txn'[t].links = txn[t].links
      BY <1>2, <3>2, ThereStays DEF LinkedAll
    <3> QED BY <1>4, <3>1, <3>2 DEF Quiet, Keeps
  <2>2. LineageWhole'
    BY <1>4 DEF Quiet, LineageWhole, Stored, Is
  <2> QED BY <1>1, <2>1, <2>2
<1>5. ASSUME NEW s \in Sessions, Publishes(s)
      PROVE  LineageInv'
  <2>1. /\ rows' = rows \cup txn[s].added /\ edges' = edges \cup txn[s].links
        /\ txn'[s].added = {} /\ txn'[s].links = {}
        /\ \A t \in Sessions \ {s} : txn'[t].added = txn[t].added /\ txn'[t].links = txn[t].links
    BY <1>5 DEF Publishes, Publish
  <2>2. LinkedAll'
    <3> SUFFICES ASSUME NEW t \in Sessions
                 PROVE  /\ \A e \in txn'[t].links : There(t, e[1])' /\ There(t, e[2])'
                        /\ \A r \in txn'[t].added : r.kind \in Derived =>
                             \E e \in txn'[t].links : Is(r, e[2])
      BY DEF LinkedAll, Is
    <3>1. CASE t = s
      BY <2>1, <3>1
    <3>2. CASE t # s
      BY <1>2, <2>1, <3>2, ThereStays DEF LinkedAll
    <3> QED BY <3>1, <3>2
  <2>3. \A m : There(s, m) => Stored(m)'
    BY <2>1 DEF There, Stored, Is
  <2>4. \A e \in edges' : Stored(e[1])' /\ Stored(e[2])'
    BY <1>3, <2>1, <2>3 DEF LinkedAll, LineageWhole
  <2>5. \A r \in rows' : r.kind \in Derived => \E e \in edges' : Is(r, e[2])
    BY <2>1 DEF LinkedAll, LineageWhole
  <2> QED BY <1>1, <2>2, <2>4, <2>5 DEF LineageWhole, Is
<1>6. ASSUME NEW s \in Sessions, Adds(s)
      PROVE  LineageInv'
  <2> DEFINE f == Flushed(s)
             m == Op(s).makes
             new == {<<j, m>> : j \in Op(s).joins}
  <2>1. /\ rows' = rows /\ edges' = edges /\ txn[s].stage = "flush"
        /\ txn'[s].added = txn[s].added \cup {f} /\ txn'[s].links = txn[s].links \cup new
        /\ \A t \in Sessions \ {s} : txn'[t].added = txn[t].added /\ txn'[t].links = txn[t].links
    BY <1>6 DEF Adds
  <2>2. Is(f, m) /\ (f.kind = m.kind)
    BY DEF Flushed, Is
  <2>3. /\ Op(s).joins \subseteq Op(s).needs
        /\ m.kind \in Derived => Op(s).joins # {}
    BY <2>1, OpTyped
  <2>4. \A j \in Op(s).joins : There(s, j)
    BY <2>1, <2>3 DEF Ready, Absent
  <2> HIDE DEF f, m
  <2>5. \A x : x = m => There(s, x)'
    <3> SUFFICES ASSUME NEW x, x = m
                 PROVE  \E r \in rows' \cup txn'[s].added : Is(r, x)
      BY DEF There, Is
    <3> QED BY <2>1, <2>2
  <2>6. \A x : There(s, x) => There(s, x)'
    BY <1>2, <2>1, ThereStays
  <2>7. \A e \in new : There(s, e[1])' /\ There(s, e[2])'
    <3> SUFFICES ASSUME NEW j \in Op(s).joins
                 PROVE  \A e : e = <<j, m>> => There(s, e[1])' /\ There(s, e[2])'
      OBVIOUS
    <3>1. \A e : e = <<j, m>> => e[1] = j /\ e[2] = m
      OBVIOUS
    <3> QED BY <2>4, <2>5, <2>6, <3>1
  <2>8. f.kind \in Derived => \E e \in new : Is(f, e[2])
    <3> SUFFICES ASSUME f.kind \in Derived
                 PROVE  \E e \in new : Is(f, e[2])
      OBVIOUS
    <3>1. PICK j \in Op(s).joins : TRUE
      BY <2>2, <2>3
    <3>2. <<j, m>> \in new /\ <<j, m>>[2] = m
      OBVIOUS
    <3> QED BY <2>2, <3>2
  <2> HIDE DEF new
  <2>9. /\ \A e \in txn'[s].links : There(s, e[1])' /\ There(s, e[2])'
        /\ \A r \in txn'[s].added : r.kind \in Derived => \E e \in txn'[s].links : Is(r, e[2])
    BY <2>1, <2>6, <2>7, <2>8 DEF LinkedAll
  <2>10. ASSUME NEW t \in Sessions \ {s}
         PROVE  /\ \A e \in txn'[t].links : There(t, e[1])' /\ There(t, e[2])'
                /\ \A r \in txn'[t].added : r.kind \in Derived =>
                     \E e \in txn'[t].links : Is(r, e[2])
    BY <1>2, <2>1, ThereStays DEF LinkedAll
  <2>11. LinkedAll'
    BY <2>9, <2>10 DEF LinkedAll, Is
  <2>12. LineageWhole'
    BY <2>1 DEF LineageWhole, Stored, Is
  <2> QED BY <1>1, <2>11, <2>12
<1> QED BY <1>4, <1>5, <1>6, StepKinds

\* No row is visible without its lineage, and no lineage without its rows.
THEOREM LineageIsWhole == OntSpec => []LineageWhole
<1>1. OntInit => Base /\ LineageInv
  BY BaseHolds, NewTyped DEF OntInit, LineageInv, Ready, LinkedAll, LineageWhole
<1>2. Base /\ LineageInv /\ [OntNext]_ontVars => (Base /\ LineageInv)'
  BY BaseStays, LineageStays
<1> QED BY <1>1, <1>2, PTL DEF OntSpec, LineageInv

-----------------------------------------------------------------------------
(* A command's record, and what is stored whole.                           *)

\* What has not begun has left nothing; a command has a record from its start.
Blank == \A s \in Sessions : txn[s].stage = "new" => \A r \in rows : r.by # s

Recorded ==
  \A s \in Sessions :
    txn[s].stage \notin {"new", "done"} /\ txn[s].program.command => txn[s].recorded

RecordInv == OwnRows /\ Blank /\ Recorded /\ EffectIsRecorded

LEMMA OwnRowsStay ==
  ASSUME Base, OwnRows, [OntNext]_ontVars
  PROVE  OwnRows'
<1>1. CASE Quiet
  BY <1>1 DEF Quiet, Keeps, OwnRows
<1>2. ASSUME NEW s \in Sessions, Publishes(s) \/ Adds(s)
      PROVE  OwnRows'
  <2>1. Flushed(s).by = s
    BY DEF Flushed
  <2> QED BY <1>2, <2>1 DEF Publishes, Adds, OwnRows
<1> QED BY <1>1, <1>2, StepKinds

\* What every step of a session must show.
LEMMA RecordOfOne ==
  ASSUME Base, RecordInv, NEW s \in Sessions, Others(s), OwnRows',
         \/ rows' = rows
         \/ rows' = rows \cup txn[s].added /\ txn[s].stage # "new"
             /\ (txn[s].recorded => execution'[s] # "none"),
         \A t \in Sessions : execution'[t] = "none" => execution[t] = "none",
         txn'[s].stage # "new",
         \/ txn[s].stage = "new" /\ rows' = rows
             /\ (txn'[s].stage # "done" => (txn'[s].program.command => txn'[s].recorded))
         \/ txn[s].stage \notin {"new", "done"} /\ Stays(s)
  PROVE  RecordInv'
<1> USE DEF RecordInv
<1>1. \A r \in rows' : r \in rows \/ (r.by = s /\ r \in txn[s].added)
  BY DEF OwnRows
<1>2. Blank'
  BY <1>1 DEF Blank, Others, Same
<1>3. Recorded'
  BY DEF Recorded, Others, Same, Stays
<1>4. EffectIsRecorded'
  <2> SUFFICES ASSUME NEW t \in Sessions, txn'[t].program.command,
                      NEW r \in rows', r.by = t
               PROVE  execution'[t] # "none"
    BY DEF EffectIsRecorded
  <2>1. CASE t # s
    BY <1>1, <2>1 DEF EffectIsRecorded, Others, Same
  <2>2. CASE t = s /\ r \in rows
    BY <2>2 DEF EffectIsRecorded, Blank, Stays
  <2>3. CASE t = s /\ r \notin rows
    BY <2>3 DEF Recorded, Stays
  <2> QED BY <2>1, <2>2, <2>3
<1> QED BY <1>2, <1>3, <1>4

LEMMA RecordStays ==
  ASSUME Base, RecordInv, [OntNext]_ontVars
  PROVE  RecordInv'
<1>1. OwnRows'
  BY OwnRowsStay DEF RecordInv
<1>2. CASE UNCHANGED ontVars
  BY <1>2 DEF ontVars, RecordInv, OwnRows, Blank, Recorded, EffectIsRecorded
<1>3. CASE OntCrash
  BY <1>1, <1>3, CrashStep DEF Base, RecordInv, Blank, Recorded, EffectIsRecorded
<1>4. ASSUME NEW s \in Sessions, Stepping(s)
      PROVE  RecordInv'
  <2>1. ASSUME NEW p \in Programs, Start(s, p)
        PROVE  RecordInv'
    BY <1>1, <2>1, StartStep, RecordOfOne DEF Base
  <2>2. ASSUME NEW p \in Programs, Refused(s, p)
        PROVE  RecordInv'
    BY <1>1, <2>2, RefusedStep, RecordOfOne DEF Base
  <2>3. CASE Keep(s)
    BY <1>1, <2>3, KeepStep, RecordOfOne DEF Onwards
  <2>4. CASE Look(s)
    BY <1>1, <2>4, LookStep, RecordOfOne
  <2>5. CASE Flush(s)
    BY <1>1, <2>5, FlushStep, RecordOfOne DEF Onwards
  <2>6. CASE Commit(s)
    BY <1>1, <2>6, CommitStep, RecordStep, RecordOfOne DEF Base, Publish
  <2>7. CASE Ending(s)
    BY <1>1, <2>7, EndingStep, RecordOfOne DEF EndPublishes, Publish
  <2> QED BY <1>4, <2>1, <2>2, <2>3, <2>4, <2>5, <2>6, <2>7 DEF Stepping
<1> QED BY <1>2, <1>3, <1>4, NextSteps

\* Nothing a command did is stored without the command's record.
THEOREM CommandsAreRecorded == OntSpec => []EffectIsRecorded
<1>1. OntInit => Base /\ RecordInv
  BY BaseHolds, NewTyped
     DEF OntInit, RecordInv, OwnRows, Blank, Recorded, EffectIsRecorded
<1>2. Base /\ RecordInv /\ [OntNext]_ontVars => (Base /\ RecordInv)'
  BY BaseStays, RecordStays
<1> QED BY <1>1, <1>2, PTL DEF OntSpec, RecordInv

\* Session s is past the first k operations of p, and what they make is there.
Past(s, p, k) ==
  /\ k \in 0..Len(p.ops) /\ Len(txn[s].todo) = Len(p.ops) - k
  /\ \A i \in 1..Len(txn[s].todo) : txn[s].todo[i] = p.ops[k + i]
  /\ \A j \in 1..k : There(s, p.ops[j].makes)

\* What is to be stored whole is published at its end, when all of it is there.
WholeOf(s, p) ==
  /\ txn[s].stage # "commit"
  /\ txn[s].stage \in {"look", "flush", "finish"} =>
       (\A r \in rows : r.by # s) /\ \E k \in Nat : Past(s, p, k)
  /\ txn[s].stage = "finish" => txn[s].todo = <<>>
  /\ (\E r \in rows : r.by = s) => \A i \in 1..Len(p.ops) : Stored(p.ops[i].makes)

WholeInv ==
  \A s \in Sessions : \A p \in Programs :
    txn[s].program = p /\ p.whole => WholeOf(s, p)

LEMMA WholePrograms ==
  ASSUME NEW p \in Programs, p.whole
  PROVE  /\ ~p.watches /\ Len(p.ops) \in Nat
         /\ \A i \in 1..Len(p.ops) :
              /\ ~p.ops[i].commits /\ ~p.ops[i].mustBeNew
              /\ \A n \in p.ops[i].needs : \E j \in 1..(i - 1) : p.ops[j].makes = n
BY ProgramsAssumption, OpsOfPrograms, LenProperties

\* The operation a session is at, and the place behind it.
LEMMA PastOne ==
  ASSUME Base, NEW s \in Sessions, NEW p \in Programs, NEW k \in Nat, Past(s, p, k),
         txn[s].stage \in {"look", "flush"}
  PROVE  /\ k + 1 \in 1..Len(p.ops) /\ Op(s) = p.ops[k + 1]
         /\ Len(Tail(txn[s].todo)) = Len(p.ops) - (k + 1)
         /\ \A i \in 1..Len(Tail(txn[s].todo)) : Tail(txn[s].todo)[i] = p.ops[(k + 1) + i]
<1>1. txn[s].todo \in Seq(Steps) /\ txn[s].todo # <<>>
  BY DEF Base, Types, Txn, AtWork
<1>2. Len(txn[s].todo) \in Nat \ {0} /\ Len(p.ops) \in Nat
  BY <1>1, EmptySeq, OpsOfPrograms, LenProperties
<1>3. /\ Len(Tail(txn[s].todo)) = Len(txn[s].todo) - 1
      /\ \A i \in 1..Len(Tail(txn[s].todo)) : Tail(txn[s].todo)[i] = txn[s].todo[i + 1]
  BY <1>1, HeadTailProperties
<1>4. Op(s) = txn[s].todo[1]
  BY <1>1 DEF Op
<1> DEFINE todo == txn[s].todo
           left == Tail(todo)
<1>5. /\ Len(todo) = Len(p.ops) - k /\ k \in 0..Len(p.ops)
      /\ \A i \in 1..Len(todo) : todo[i] = p.ops[k + i]
  BY DEF Past
<1>6. /\ Len(todo) \in Nat \ {0} /\ Len(left) = Len(todo) - 1
      /\ \A i \in 1..Len(left) : left[i] = todo[i + 1]
  BY <1>2, <1>3
<1> HIDE DEF left, todo
<1>7. k + 1 \in 1..Len(p.ops) /\ todo[1] = p.ops[k + 1]
  BY <1>2, <1>5, <1>6
<1>8. Len(left) = Len(p.ops) - (k + 1)
  BY <1>2, <1>5, <1>6
<1>9. ASSUME NEW i \in 1..Len(left)
      PROVE  left[i] = p.ops[(k + 1) + i]
  <2>1. i + 1 \in 1..Len(todo) /\ k + (i + 1) = (k + 1) + i
    BY <1>6
  <2> QED BY <1>5, <1>6, <2>1
<1> QED BY <1>4, <1>7, <1>8, <1>9 DEF left, todo

LEMMA PastStays ==
  ASSUME rows \subseteq rows', NEW t \in Sessions, txn[t].added \subseteq txn'[t].added,
         txn'[t].todo = txn[t].todo, NEW p, NEW k, Past(t, p, k)
  PROVE  Past(t, p, k)'
BY ThereStays DEF Past

\* One more operation is behind.
LEMMA PastNext ==
  ASSUME Base, rows \subseteq rows', NEW s \in Sessions, txn[s].added \subseteq txn'[s].added,
         NEW p \in Programs, NEW k \in Nat, Past(s, p, k),
         txn[s].stage \in {"look", "flush"}, txn'[s].todo = Tail(txn[s].todo),
         There(s, p.ops[k + 1].makes)'
  PROVE  Past(s, p, k + 1)'
<1> DEFINE left == Tail(txn[s].todo)
<1>0. /\ k + 1 \in 1..Len(p.ops)
      /\ Len(left) = Len(p.ops) - (k + 1)
      /\ \A i \in 1..Len(left) : left[i] = p.ops[(k + 1) + i]
  BY PastOne
<1>1. /\ k + 1 \in 1..Len(p.ops)
      /\ Len(txn'[s].todo) = Len(p.ops) - (k + 1)
      /\ \A i \in 1..Len(txn'[s].todo) : txn'[s].todo[i] = p.ops[(k + 1) + i]
  <2> HIDE DEF left
  <2>1. txn'[s].todo = left
    BY DEF left
  <2> QED BY <1>0, <2>1
<1>2. \A j \in 1..k : There(s, p.ops[j].makes)'
  BY ThereStays DEF Past
<1>3. \A j \in 1..(k + 1) : There(s, p.ops[j].makes)'
  BY <1>2
<1> QED BY <1>1, <1>3, OpsOfPrograms, LenProperties DEF Past

\* What is to be stored whole is never refused half-way.
LEMMA NeverRefused ==
  ASSUME Base, NEW s \in Sessions, NEW p \in Programs, p.whole, NEW k \in Nat,
         Past(s, p, k), txn[s].stage \in {"look", "flush"}
  PROVE  ~Absent(s) /\ ~Op(s).mustBeNew /\ ~Op(s).commits
<1>1. k + 1 \in 1..Len(p.ops) /\ Op(s) = p.ops[k + 1]
  BY PastOne
<1>2. \A n \in Op(s).needs : \E j \in 1..k : p.ops[j].makes = n
  BY <1>1, WholePrograms
<1>3. \A n \in Op(s).needs : There(s, n)
  BY <1>2 DEF Past
<1> QED BY <1>1, <1>3, WholePrograms DEF Absent

LEMMA WholeStays ==
  ASSUME Base, RecordInv, WholeInv, [OntNext]_ontVars
  PROVE  WholeInv'
<1>1. rows \subseteq rows' /\ \A m : Stored(m) => Stored(m)'
  BY RowsStay DEF Stored, Is
<1>2. CASE UNCHANGED ontVars
  <2>1. UNCHANGED <<rows, txn>>
    BY <1>2 DEF ontVars
  <2>2. \A t \in Sessions, p \in Programs, k \in Nat : Past(t, p, k) => Past(t, p, k)'
    BY <2>1, PastStays
  <2> SUFFICES ASSUME NEW s \in Sessions, NEW p \in Programs, txn'[s].program = p, p.whole
               PROVE  WholeOf(s, p)'
    BY DEF WholeInv
  <2>3. WholeOf(s, p)
    BY <2>1 DEF WholeInv
  <2> QED BY <1>1, <2>1, <2>2, <2>3 DEF WholeOf
<1>3. CASE OntCrash
  <2> SUFFICES ASSUME NEW s \in Sessions, NEW p \in Programs, txn'[s].program = p, p.whole
               PROVE  WholeOf(s, p)'
    BY DEF WholeInv
  <2>1. txn'[s].stage = "done" /\ txn[s].program = p /\ rows' = rows
    BY <1>3, CrashStep DEF Base
  <2> QED BY <1>1, <2>1 DEF WholeInv, WholeOf
<1>4. ASSUME NEW s \in Sessions, Stepping(s)
      PROVE  WholeInv'
  <2>1. Others(s)
    BY <1>4, StartStep, RefusedStep, KeepStep, LookStep, FlushStep, CommitStep, EndingStep
       DEF Stepping, Base
  <2>2. \A r \in rows' : r \in rows \/ r.by = s
    <3>1. rows' = rows \/ rows' = rows \cup txn[s].added
      BY <1>4, StartStep, RefusedStep, KeepStep, LookStep, FlushStep, CommitStep, EndingStep
         DEF Stepping, Base, Publish, EndPublishes
    <3> QED BY <3>1 DEF RecordInv, OwnRows
  <2>3. ASSUME NEW t \in Sessions \ {s}, NEW p \in Programs, txn'[t].program = p, p.whole
        PROVE  WholeOf(t, p)'
    <3>1. WholeOf(t, p) /\ Same(t)
      BY <2>1, <2>3 DEF WholeInv, Others, Same
    <3>2. \A k \in Nat : Past(t, p, k) => Past(t, p, k)'
      BY <1>1, <3>1, PastStays DEF Same
    <3> QED BY <1>1, <2>2, <3>1, <3>2 DEF WholeOf, Same
  <2>4. ASSUME NEW p \in Programs, txn'[s].program = p, p.whole
        PROVE  WholeOf(s, p)'
    <3>1. ASSUME NEW q \in Programs, Start(s, q)
          PROVE  WholeOf(s, p)'
      <4>1. /\ q = p /\ txn[s].stage = "new" /\ txn'[s].stage = "look"
            /\ txn'[s].todo = p.ops /\ rows' = rows
        BY <2>4, <3>1, StartStep, WholePrograms DEF Base
      <4>2. \A r \in rows' : r.by # s
        BY <4>1 DEF RecordInv, Blank
      <4>3. Past(s, p, 0)'
        BY <4>1, <2>4, WholePrograms DEF Past
      <4> QED BY <4>1, <4>2, <4>3 DEF WholeOf
    <3>2. ASSUME NEW q \in Programs, Refused(s, q)
          PROVE  WholeOf(s, p)'
      <4>1. txn[s].stage = "new" /\ txn'[s].stage = "done" /\ rows' = rows
        BY <3>2, RefusedStep DEF Base
      <4> QED BY <4>1 DEF WholeOf, RecordInv, Blank
    <3>3. CASE Keep(s)
      <4>1. /\ txn[s].program = p /\ txn[s].stage = "look" /\ Onwards(s)
            /\ txn'[s].stage # "commit" /\ txn'[s].added = txn[s].added
            /\ There(s, Op(s).makes) /\ rows' = rows
        BY <2>4, <3>3, KeepStep DEF Stays
      <4>2. WholeOf(s, p)
        BY <2>4, <4>1 DEF WholeInv
      <4>3. PICK k \in Nat : Past(s, p, k)
        BY <4>1, <4>2 DEF WholeOf
      <4>4. \A m : m = p.ops[k + 1].makes => There(s, m)'
        BY <1>1, <4>1, <4>3, PastOne, ThereStays
      <4>5. Past(s, p, k + 1)'
        BY <1>1, <4>1, <4>3, <4>4, PastNext DEF Onwards
      <4> QED BY <1>1, <4>1, <4>2, <4>5 DEF WholeOf, Onwards
    <3>4. CASE Look(s)
      <4>1. /\ txn[s].program = p /\ txn[s].stage = "look" /\ txn'[s].stage = "flush"
            /\ txn'[s].todo = txn[s].todo /\ txn'[s].added = txn[s].added /\ rows' = rows
        BY <2>4, <3>4, LookStep DEF Stays
      <4>2. WholeOf(s, p)
        BY <2>4, <4>1 DEF WholeInv
      <4>3. PICK k \in Nat : Past(s, p, k)
        BY <4>1, <4>2 DEF WholeOf
      <4>4. Past(s, p, k)'
        BY <1>1, <4>1, <4>3, PastStays
      <4> QED BY <1>1, <4>1, <4>2, <4>4 DEF WholeOf
    <3>5. CASE Flush(s)
      <4>1. /\ txn[s].program = p /\ txn[s].stage = "flush" /\ Onwards(s)
            /\ (~Op(s).commits => txn'[s].stage # "commit")
            /\ txn'[s].added = txn[s].added \cup {Flushed(s)} /\ rows' = rows
        BY <2>4, <3>5, FlushStep DEF Stays
      <4>2. WholeOf(s, p)
        BY <2>4, <4>1 DEF WholeInv
      <4>3. PICK k \in Nat : Past(s, p, k)
        BY <4>1, <4>2 DEF WholeOf
      <4>4. ~Op(s).commits /\ Op(s) = p.ops[k + 1]
        BY <2>4, <4>1, <4>3, NeverRefused, PastOne
      <4>5. \A m : m = p.ops[k + 1].makes => There(s, m)'
        <5> SUFFICES ASSUME NEW m, m = Op(s).makes
                     PROVE  \E r \in rows' \cup txn'[s].added : Is(r, m)
          BY <4>4 DEF There, Is
        <5>1. Is(Flushed(s), m)
          BY DEF Flushed, Is
        <5> QED BY <4>1, <5>1
      <4>6. Past(s, p, k + 1)'
        BY <1>1, <4>1, <4>3, <4>5, PastNext DEF Onwards
      <4> QED BY <1>1, <4>1, <4>2, <4>4, <4>6 DEF WholeOf, Onwards
    <3>6. ~Commit(s)
      <4> SUFFICES ASSUME Commit(s) PROVE FALSE
        OBVIOUS
      <4>1. txn[s].program = p /\ txn[s].stage = "commit"
        BY <2>4, CommitStep DEF Stays
      <4> QED BY <2>4, <4>1 DEF WholeInv, WholeOf
    <3>7. CASE Ending(s)
      <4>1. /\ txn[s].program = p /\ txn[s].stage \in {"look", "flush", "finish"}
            /\ txn'[s].stage = "done"
            /\ rows' = rows \/ EndPublishes(s)
        BY <2>4, <3>7, EndingStep DEF Stays
      <4>2. WholeOf(s, p)
        BY <2>4, <4>1 DEF WholeInv
      <4>3. PICK k \in Nat : Past(s, p, k)
        BY <4>1, <4>2 DEF WholeOf
      <4>4. CASE rows' = rows
        BY <4>1, <4>2, <4>4 DEF WholeOf
      <4>5. CASE EndPublishes(s)
        <5>1. txn[s].stage = "finish" /\ rows' = rows \cup txn[s].added
          BY <2>4, <4>3, <4>5, NeverRefused DEF EndPublishes, Publish
        <5>2. k = Len(p.ops)
          BY <4>2, <4>3, <5>1, WholePrograms, <2>4, EmptySeq DEF WholeOf, Past
        <5>3. \A m : There(s, m) => Stored(m)'
          BY <5>1 DEF There, Stored, Is
        <5>4. \A i \in 1..Len(p.ops) : Stored(p.ops[i].makes)'
          BY <4>3, <5>2, <5>3 DEF Past
        <5> QED BY <4>1, <5>4 DEF WholeOf
      <4> QED BY <4>1, <4>4, <4>5
    <3> QED BY <1>4, <3>1, <3>2, <3>3, <3>4, <3>5, <3>6, <3>7 DEF Stepping
  <2> QED BY <2>3, <2>4 DEF WholeInv
<1> QED BY <1>2, <1>3, <1>4, NextSteps

\* A screening, and the seeding of the watch list, are stored whole or not at
\* all, whatever conflicts, deadlocks and restarts happen.
THEOREM WholeOrNothing == OntSpec => []StoredWhole
<1>1. OntInit => Base /\ RecordInv /\ WholeInv
  BY BaseHolds, NewTyped
     DEF OntInit, RecordInv, OwnRows, Blank, Recorded, EffectIsRecorded, WholeInv, WholeOf
<1>2. Base /\ RecordInv /\ WholeInv /\ [OntNext]_ontVars => (Base /\ RecordInv /\ WholeInv)'
  BY BaseStays, RecordStays, WholeStays
<1>3. Base /\ WholeInv => StoredWhole
  <2> SUFFICES ASSUME Base, WholeInv, NEW s \in Sessions, txn[s].program.whole,
                      \E r \in rows : r.by = s
               PROVE  \A i \in 1..Len(txn[s].program.ops) : Stored(txn[s].program.ops[i].makes)
    BY DEF StoredWhole
  <2>1. ~New.program.whole
    BY DEF New, Program
  <2>2. txn[s].program \in Programs
    BY <2>1 DEF Base, Types, Txn, Known
  <2> QED BY <2>2 DEF WholeInv, WholeOf
<1> QED BY <1>1, <1>2, <1>3, PTL DEF OntSpec

-----------------------------------------------------------------------------
(* The watch list of a plan.                                               *)

\* The rows that metered programs put on someone's list.
Metered(who) == {r \in Watching(who) : txn[r.by].program.watches}

Overlap(s, t) == s \in txn[t].beside \/ t \in txn[s].beside

\* Those that were there, or were never going to be, when s was counted.
Before(s) == {r \in Metered(txn[s].program.who) : r.by # s /\ ~Overlap(s, r.by)}

Planned(r) == \E op \in ToSet(txn[r.by].program.ops) : Is(r, op.makes)

Finite == IsFiniteSet(rows) /\ \A t \in Sessions : IsFiniteSet(txn[t].added)

AsPlanned ==
  /\ \A t \in Sessions : Running(t) => txn[t].todo \in Seq(ToSet(txn[t].program.ops))
  /\ \A t \in Sessions : \A r \in rows \cup txn[t].added : Planned(r)

AllBeside ==
  \A t, u \in Sessions : t # u /\ Running(t) /\ Running(u) => t \in txn[u].beside

Room ==
  \A s \in Sessions :
    Running(s) /\ txn[s].program.watches => Cardinality(Before(s)) < WatchLimit

Quota ==
  \A who \in {p.who : p \in Programs} :
    \/ Cardinality(Metered(who)) <= WatchLimit
    \/ \E r, q \in Metered(who) : r.by \in txn[q.by].beside

WatchInv == Finite /\ AsPlanned /\ AllBeside /\ Room /\ Quota

\* A step that begins nothing.
Continues ==
  \A t \in Sessions :
    /\ txn'[t].program = txn[t].program /\ txn'[t].beside = txn[t].beside
    /\ Running(t)' =>
         /\ Running(t)
         /\ \/ txn'[t].todo = txn[t].todo
            \/ txn[t].todo # <<>> /\ txn'[t].todo = Tail(txn[t].todo)

\* A step that begins program p, or refuses it.
Begins(s, p) ==
  /\ txn[s].stage = "new" /\ rows' = rows
  /\ txn'[s].program = p /\ txn'[s].added = {}
  /\ Running(s)' =>
       /\ txn'[s].todo \in Seq(ToSet(p.ops)) /\ ~OverQuota(p)
       /\ \A t \in Sessions \ {s} :
            Running(t) => t \in txn'[s].beside /\ s \in txn'[t].beside
  /\ \A t \in Sessions \ {s} : Same(t) /\ txn[t].beside \subseteq txn'[t].beside

LEMMA BesideStays ==
  ASSUME Types, NEW s \in Sessions,
         Keep(s) \/ Look(s) \/ Flush(s) \/ Commit(s) \/ Ended(s)
  PROVE  \A t \in Sessions : txn'[t].beside = txn[t].beside
<1>1. ASSUME NEW x \in Txn, NEW a, NEW b, NEW c, NEW d
      PROVE  /\ [x EXCEPT !.stage = a].beside = x.beside
             /\ [x EXCEPT !.stage = a, !.todo = b].beside = x.beside
             /\ [x EXCEPT !.stage = a, !.added = b, !.links = c].beside = x.beside
             /\ [x EXCEPT !.added = b, !.links = c, !.stage = a].beside = x.beside
             /\ [x EXCEPT !.added = b, !.links = c, !.stage = a, !.todo = d].beside = x.beside
  BY DEF Txn
<1>2. txn \in [Sessions -> Txn] /\ txn[s] \in Txn
  BY DEF Types
<1>3. CASE Keep(s)
  BY <1>1, <1>2, <1>3 DEF Keep
<1>4. CASE Look(s)
  BY <1>1, <1>2, <1>4 DEF Look
<1>5. CASE Flush(s)
  <2> DEFINE added == txn[s].added \cup {Flushed(s)}
             links == txn[s].links \cup {<<j, Op(s).makes>> : j \in Op(s).joins}
             stage == IF Op(s).commits THEN "commit" ELSE After(s)
             todo  == Tail(txn[s].todo)
             mine  == [txn[s] EXCEPT !.added = added, !.links = links,
                                     !.stage = stage, !.todo = todo]
  <2>1. txn' = [txn EXCEPT ![s] = mine]
    BY <1>2, <1>5 DEF Flush, Flushed
  <2> HIDE DEF added, links, stage, todo
  <2>2. mine.beside = txn[s].beside
    BY <1>1, <1>2
  <2> HIDE DEF mine
  <2> QED BY <1>2, <2>1, <2>2
<1>6. CASE Commit(s)
  BY <1>1, <1>2, <1>6 DEF Commit
<1>7. CASE Ended(s)
  BY <1>1, <1>2, <1>7 DEF Ended
<1> QED BY <1>3, <1>4, <1>5, <1>6, <1>7

LEMMA BeginsOrContinues ==
  ASSUME Base, [OntNext]_ontVars
  PROVE  Continues \/ \E s \in Sessions, p \in Programs : Begins(s, p)
<1>1. CASE UNCHANGED ontVars
  BY <1>1 DEF ontVars, Continues, Running
<1>2. CASE OntCrash
  <2>1. \A x \in Txn :
          [x EXCEPT !.stage = "done", !.added = {}, !.links = {}].beside = x.beside
    BY DEF Txn
  <2>2. \A t \in Sessions : txn'[t].beside = txn[t].beside
    BY <1>2, <2>1 DEF OntCrash, Base, Types
  <2> QED BY <1>2, <2>2, CrashStep DEF Base, Continues, Running
<1>3. ASSUME NEW s \in Sessions, Stepping(s)
      PROVE  Continues \/ \E p \in Programs : Begins(s, p)
  <2>1. ASSUME NEW p \in Programs, Start(s, p)
        PROVE  Begins(s, p)
    <3>1. ~OverQuota(p)
      BY <2>1 DEF Start
    <3> QED BY <2>1, <3>1, StartStep DEF Base, Begins, Others
  <2>2. ASSUME NEW p \in Programs, Refused(s, p)
        PROVE  Begins(s, p)
    <3>1. \A t \in Sessions \ {s} : txn'[t] = txn[t]
      BY <2>2 DEF Refused, Base, Types
    <3> QED BY <2>2, <3>1, RefusedStep DEF Base, Begins, Others, Running
  <2>3. CASE Keep(s) \/ Look(s) \/ Flush(s) \/ Commit(s) \/ Ending(s)
    <3>1. \A t \in Sessions : txn'[t].beside = txn[t].beside
      BY <2>3, BesideStays
         DEF Base, Ending, Finish, Refuse, RefreshFails, Violate, Rollback, Victim
    <3>2. Others(s) /\ Stays(s) /\ Running(s)
      BY <2>3, KeepStep, LookStep, FlushStep, CommitStep, EndingStep DEF Running
    <3>3. Running(s)' => \/ txn'[s].todo = txn[s].todo
                         \/ txn[s].todo # <<>> /\ txn'[s].todo = Tail(txn[s].todo)
      BY <2>3, KeepStep, LookStep, FlushStep, CommitStep, EndingStep
         DEF Running, Onwards, Base, AtWork
    <3> QED BY <3>1, <3>2, <3>3 DEF Continues, Others, Same, Stays, Running
  <2> QED BY <1>3, <2>1, <2>2, <2>3 DEF Stepping
<1> QED BY <1>1, <1>2, <1>3, NextSteps

LEMMA FiniteStays ==
  ASSUME Base, Finite, [OntNext]_ontVars
  PROVE  Finite'
<1>1. CASE Quiet
  BY <1>1, FS_EmptySet DEF Quiet, Keeps, Finite
<1>2. ASSUME NEW s \in Sessions, Publishes(s)
      PROVE  Finite'
  BY <1>2, FS_EmptySet, FS_Union DEF Publishes, Publish, Finite
<1>3. ASSUME NEW s \in Sessions, Adds(s)
      PROVE  Finite'
  <2>1. IsFiniteSet(rows')
    BY <1>3 DEF Adds, Finite
  <2>2. IsFiniteSet(txn[s].added \cup {Flushed(s)})
    BY FS_AddElement DEF Finite
  <2>3. ASSUME NEW t \in Sessions PROVE IsFiniteSet(txn'[t].added)
    BY <1>3, <2>2 DEF Adds, Finite
  <2> QED BY <2>1, <2>3 DEF Finite
<1> QED BY <1>1, <1>2, <1>3, StepKinds

\* Where a request's rows and operations come from.
LEMMA AsPlannedStays ==
  ASSUME Base, RecordInv, AsPlanned, [OntNext]_ontVars
  PROVE  AsPlanned'
<1>1. ASSUME NEW t \in Sessions, Running(t)'
      PROVE  txn'[t].todo \in Seq(ToSet(txn'[t].program.ops))
  <2>1. CASE Continues
    <3>1. /\ txn'[t].program = txn[t].program
          /\ txn[t].todo \in Seq(ToSet(txn[t].program.ops))
          /\ \/ txn'[t].todo = txn[t].todo
             \/ txn[t].todo # <<>> /\ txn'[t].todo = Tail(txn[t].todo)
      BY <1>1, <2>1 DEF Continues, AsPlanned
    <3> QED BY <3>1, HeadTailProperties
  <2>2. ASSUME NEW s \in Sessions, NEW p \in Programs, Begins(s, p)
        PROVE  txn'[t].todo \in Seq(ToSet(txn'[t].program.ops))
    BY <1>1, <2>2 DEF Begins, AsPlanned, Same, Running
  <2> QED BY <2>1, <2>2, BeginsOrContinues
<1>2. ASSUME NEW t \in Sessions, NEW r \in rows' \cup txn'[t].added
      PROVE  Planned(r)'
  <2>1. r.by \in Sessions
    <3>1. Base'
      BY BaseStays
    <3> QED BY <1>2, <3>1 DEF Base, Types, Txn, Stamped
  <2>2. Planned(r)
    <3>1. CASE r \in rows \/ \E u \in Sessions : r \in txn[u].added
      BY <3>1 DEF AsPlanned
    <3>2. ASSUME NEW s \in Sessions, Adds(s), r = Flushed(s)
          PROVE  Planned(r)
      <4>1. txn[s].todo # <<>> /\ txn[s].todo \in Seq(ToSet(txn[s].program.ops))
        BY <3>2 DEF Adds, Base, AtWork, AsPlanned, Running
      <4>2. Op(s) \in ToSet(txn[s].program.ops)
        BY <4>1, HeadTailProperties DEF Op
      <4> QED BY <3>2, <4>2 DEF Planned, Flushed, Is
    <3> QED BY <1>2, <3>1, <3>2, StepKinds DEF Quiet, Keeps, Publishes, Publish, Adds
  <2>3. CASE Continues
    BY <2>1, <2>2, <2>3 DEF Continues, Planned, Is
  <2>4. ASSUME NEW s \in Sessions, NEW p \in Programs, Begins(s, p)
        PROVE  Planned(r)'
    <3>1. r.by # s
      <4>1. OwnRows'
        BY OwnRowsStay DEF RecordInv
      <4> QED BY <1>2, <2>4, <4>1 DEF Begins, RecordInv, Blank, OwnRows
    <3> QED BY <2>1, <2>2, <2>4, <3>1 DEF Begins, Same, Planned, Is
  <2> QED BY <2>3, <2>4, BeginsOrContinues
<1> QED BY <1>1, <1>2 DEF AsPlanned

LEMMA AllBesideStays ==
  ASSUME Base, AllBeside, [OntNext]_ontVars
  PROVE  AllBeside'
<1>1. CASE Continues
  BY <1>1 DEF Continues, AllBeside
<1>2. ASSUME NEW s \in Sessions, NEW p \in Programs, Begins(s, p)
      PROVE  AllBeside'
  <2> SUFFICES ASSUME NEW t \in Sessions, NEW u \in Sessions, t # u, Running(t)', Running(u)'
               PROVE  t \in txn'[u].beside
    BY DEF AllBeside
  <2>1. CASE t # s /\ u # s
    BY <1>2, <2>1 DEF Begins, AllBeside, Same, Running
  <2>2. CASE t = s \/ u = s
    BY <1>2, <2>2 DEF Begins, Same, Running
  <2> QED BY <2>1, <2>2
<1> QED BY <1>1, <1>2, BeginsOrContinues

\* A metered program puts one row on a list, its user's own.
LEMMA OneWatch ==
  ASSUME Base, AsPlanned, NEW s \in Sessions, txn[s].program.watches,
         NEW w \in rows \cup txn[s].added, w.by = s, w.kind = "watch"
  PROVE  /\ w.of[2] = txn[s].program.who
         /\ \A r \in rows \cup txn[s].added : r.by = s /\ r.kind = "watch" => r = w
<1>1. txn[s].program \in Programs
  BY DEF Base, Types, Txn, Known, New, Program
<1>2. PICK op \in ToSet(txn[s].program.ops) : Is(w, op.makes)
  BY DEF AsPlanned, Planned
<1>3. op.makes.kind = "watch" /\ op.makes.of[2] = txn[s].program.who
  BY <1>1, <1>2, WatchAssumption DEF Is
<1>4. ASSUME NEW r \in rows \cup txn[s].added, r.by = s, r.kind = "watch"
      PROVE  r = w
  <2>1. PICK other \in ToSet(txn[s].program.ops) : Is(r, other.makes)
    BY <1>4 DEF AsPlanned, Planned
  <2>2. other.makes = op.makes
    BY <1>1, <1>3, <1>4, <2>1, WatchAssumption DEF Is
  <2>3. r \in Stamped /\ w \in Stamped
    BY DEF Base, Types, Txn
  <2> QED BY <1>2, <1>4, <2>1, <2>2, <2>3, SameRow DEF Is
<1> QED BY <1>2, <1>3, <1>4 DEF Is

LEMMA FewerThanLimit ==
  ASSUME NEW S, NEW T, IsFiniteSet(T), S \subseteq T, Cardinality(T) < WatchLimit
  PROVE  IsFiniteSet(S) /\ Cardinality(S) < WatchLimit
<1>1. /\ IsFiniteSet(S) /\ Cardinality(S) <= Cardinality(T)
      /\ Cardinality(S) \in Nat /\ Cardinality(T) \in Nat
  BY FS_Subset, FS_CardinalityType
<1> QED BY <1>1, WatchAssumption

LEMMA MeteredFinite ==
  ASSUME Finite
  PROVE  /\ \A who : IsFiniteSet(Watching(who)) /\ IsFiniteSet(Metered(who))
         /\ \A s : IsFiniteSet(Before(s))
<1>1. /\ \A who : Watching(who) \subseteq rows /\ Metered(who) \subseteq rows
      /\ \A s : Before(s) \subseteq rows
  BY DEF Watching, Metered, Before
<1> QED BY <1>1, FS_Subset DEF Finite

\* A program that begins was counted; the others are as they were.
LEMMA RoomAtBeginning ==
  ASSUME Base, RecordInv, WatchInv, NEW s \in Sessions, NEW p \in Programs, Begins(s, p)
  PROVE  Room' /\ Quota'
<1>1. \A r \in rows : r.by \in Sessions /\ r.by # s
  BY DEF Base, Types, Stamped, RecordInv, Blank, Begins
<1>2. \A who : Metered(who)' = Metered(who) /\ Watching(who)' = Watching(who)
  BY <1>1 DEF Metered, Watching, Begins, Same
<1>3. ASSUME NEW t \in Sessions, Running(t)', txn'[t].program.watches
      PROVE  Cardinality(Before(t)') < WatchLimit
  <2>1. CASE t = s
    <3>1. Before(s)' \subseteq Watching(p.who)
      BY <1>2 DEF Before, Metered, Begins
    <3>2. IsFiniteSet(Watching(p.who)) /\ Cardinality(Watching(p.who)) < WatchLimit
      <4>1. IsFiniteSet(Watching(p.who)) /\ Cardinality(Watching(p.who)) \in Nat
        BY MeteredFinite, FS_CardinalityType DEF WatchInv
      <4> QED BY <1>3, <2>1, <4>1, WatchAssumption DEF Begins, OverQuota
    <3> QED BY <2>1, <3>1, <3>2, FewerThanLimit
  <2>2. CASE t # s
    <3>1. Running(t) /\ txn[t].program.watches /\ txn'[t].program = txn[t].program
      BY <1>3, <2>2 DEF Begins, Same, Running
    <3>2. \A r \in rows : Overlap(t, r.by) => Overlap(t, r.by)'
      BY <1>1, <2>2 DEF Overlap, Begins
    <3>3. Before(t)' \subseteq Before(t)
      BY <1>2, <3>1, <3>2 DEF Before, Metered, Watching
    <3>4. IsFiniteSet(Before(t)) /\ Cardinality(Before(t)) < WatchLimit
      BY <3>1, MeteredFinite DEF WatchInv, Room
    <3> QED BY <3>3, <3>4, FewerThanLimit
  <2> QED BY <2>1, <2>2
<1>4. Quota'
  <2>1. \A who : \A r, q \in Metered(who) :
          r.by \in txn[q.by].beside => r.by \in txn'[q.by].beside
    BY <1>1 DEF Begins, Metered, Watching
  <2> QED BY <1>2, <2>1 DEF Quota, WatchInv
<1> QED BY <1>3, <1>4 DEF Room

\* A watch that is published was asked for beside the others, or fits.
LEMMA RoomAtPublication ==
  ASSUME Base, RecordInv, WatchInv, Continues, NEW s \in Sessions, Publishes(s)
  PROVE  Room' /\ Quota'
<1>1. /\ rows' = rows \cup txn[s].added /\ Running(s)
      /\ \A r \in txn[s].added : r.by = s
      /\ \A r \in rows' : r.by \in Sessions
  BY DEF Publishes, Publish, RecordInv, OwnRows, Base, Types, Stamped
<1>2. \A who : \A r : r \in Metered(who)' <=>
        r \in rows' /\ r.kind = "watch" /\ r.of[2] = who /\ txn[r.by].program.watches
  BY <1>1 DEF Metered, Watching, Continues
<1>3. \A t \in Sessions, r \in rows' : Overlap(t, r.by)' <=> Overlap(t, r.by)
  BY <1>1 DEF Overlap, Continues
<1>4. ASSUME NEW t \in Sessions, Running(t)', txn'[t].program.watches
      PROVE  Cardinality(Before(t)') < WatchLimit
  <2>1. Running(t) /\ txn[t].program.watches /\ txn'[t].program = txn[t].program
    BY <1>4 DEF Continues
  <2>2. t # s => Overlap(t, s)
    BY <1>1, <2>1 DEF WatchInv, AllBeside, Overlap
  <2>3. Before(t)' \subseteq Before(t)
    <3> SUFFICES ASSUME NEW r \in Before(t)' PROVE r \in Before(t)
      OBVIOUS
    <3>1. r \in Metered(txn[t].program.who)' /\ r.by # t /\ ~Overlap(t, r.by)'
      BY <2>1 DEF Before
    <3>2. r \in rows
      BY <1>1, <1>2, <1>3, <2>2, <3>1
    <3>3. r \in Metered(txn[t].program.who)
      BY <1>2, <2>1, <3>1, <3>2 DEF Metered, Watching
    <3>4. ~Overlap(t, r.by)
      BY <1>1, <1>3, <3>1, <3>2
    <3> QED BY <3>1, <3>3, <3>4 DEF Before
  <2>4. IsFiniteSet(Before(t)) /\ Cardinality(Before(t)) < WatchLimit
    BY <2>1, MeteredFinite DEF WatchInv, Room
  <2> QED BY <2>3, <2>4, FewerThanLimit
<1>5. ASSUME NEW who \in {p.who : p \in Programs},
             ~\E r, q \in Metered(who)' : r.by \in txn'[q.by].beside
      PROVE  Cardinality(Metered(who)') <= WatchLimit
  <2>1. \A r, q \in Metered(who)' : r.by \notin txn[q.by].beside
    BY <1>1, <1>2, <1>5 DEF Continues
  <2>2. CASE \A r \in Metered(who)' : r \in rows
    <3>1. Metered(who)' = Metered(who)
      BY <1>1, <1>2, <2>2 DEF Metered, Watching
    <3> QED BY <2>1, <3>1 DEF WatchInv, Quota
  <2>3. ASSUME NEW w \in Metered(who)', w \notin rows
        PROVE  Cardinality(Metered(who)') <= WatchLimit
    <3>1. w \in txn[s].added /\ w.by = s /\ w.kind = "watch" /\ txn[s].program.watches
      BY <1>1, <1>2, <2>3
    <3>2. /\ w.of[2] = txn[s].program.who
          /\ \A r \in rows' : r.by = s /\ r.kind = "watch" => r = w
      BY <1>1, <3>1, OneWatch DEF WatchInv
    <3>3. who = txn[s].program.who
      BY <1>2, <2>3, <3>2
    <3>4. Metered(who)' \subseteq Before(s) \cup {w}
      <4> SUFFICES ASSUME NEW r \in Metered(who)', r # w PROVE r \in Before(s)
        OBVIOUS
      <4>1. r.by # s /\ r \in rows
        BY <1>1, <1>2, <3>2
      <4>2. ~Overlap(s, r.by)
        BY <2>1, <2>3, <3>1 DEF Overlap
      <4> QED BY <1>2, <3>3, <4>1, <4>2 DEF Before, Metered, Watching
    <3>5. IsFiniteSet(Before(s)) /\ Cardinality(Before(s)) < WatchLimit
      BY <1>1, <3>1, MeteredFinite DEF WatchInv, Room
    <3>6. /\ IsFiniteSet(Before(s) \cup {w}) /\ Cardinality(Before(s)) \in Nat
          /\ Cardinality(Before(s) \cup {w}) <= Cardinality(Before(s)) + 1
      <4>1. /\ IsFiniteSet(Before(s) \cup {w}) /\ Cardinality(Before(s)) \in Nat
            /\ Cardinality(Before(s) \cup {w}) =
                 IF w \in Before(s) THEN Cardinality(Before(s)) ELSE Cardinality(Before(s)) + 1
        BY <3>5, FS_AddElement, FS_CardinalityType
      <4> QED BY <4>1
    <3>7. Cardinality(Metered(who)') <= Cardinality(Before(s) \cup {w})
          /\ Cardinality(Metered(who)') \in Nat /\ Cardinality(Before(s) \cup {w}) \in Nat
      <4>1. IsFiniteSet(Metered(who)')
        BY <3>4, <3>6, FS_Subset
      <4> QED BY <3>4, <3>6, <4>1, FS_Subset, FS_CardinalityType
    <3> QED BY <3>5, <3>6, <3>7, WatchAssumption
  <2> QED BY <2>2, <2>3
<1>6. Quota'
  BY <1>5 DEF Quota
<1> QED BY <1>4, <1>6 DEF Room

LEMMA WatchStays ==
  ASSUME Base, RecordInv, WatchInv, [OntNext]_ontVars
  PROVE  WatchInv'
<1>1. Finite' /\ AsPlanned' /\ AllBeside'
  BY FiniteStays, AsPlannedStays, AllBesideStays DEF WatchInv
<1>2. CASE \E s \in Sessions, p \in Programs : Begins(s, p)
  BY <1>1, <1>2, RoomAtBeginning DEF WatchInv
<1>3. CASE Continues /\ \E s \in Sessions : Publishes(s)
  BY <1>1, <1>3, RoomAtPublication DEF WatchInv
<1>4. CASE Continues /\ rows' = rows
  <2>1. \A r \in rows : r.by \in Sessions
    BY DEF Base, Types, Stamped
  <2>2. \A who : Metered(who)' = Metered(who)
    BY <1>4, <2>1 DEF Metered, Watching, Continues
  <2>3. \A t \in Sessions : Before(t)' = Before(t)
    <3>1. \A t \in Sessions, r \in rows : Overlap(t, r.by)' <=> Overlap(t, r.by)
      BY <1>4, <2>1 DEF Overlap, Continues
    <3> QED BY <1>4, <2>2, <3>1 DEF Before, Continues, Metered, Watching
  <2>4. Room'
    BY <1>4, <2>3 DEF WatchInv, Room, Continues
  <2>5. \A who : \A r, q \in Metered(who) :
          r.by \in txn'[q.by].beside <=> r.by \in txn[q.by].beside
    BY <1>4, <2>1 DEF Continues, Metered, Watching
  <2>6. Quota'
    BY <2>2, <2>5 DEF WatchInv, Quota
  <2> QED BY <1>1, <2>4, <2>6 DEF WatchInv
<1> QED BY <1>2, <1>3, <1>4, BeginsOrContinues, StepKinds DEF Quiet, Adds

\* The allowance of a plan's watch list is exceeded by commands that ran at the
\* same time, and by nothing else.
THEOREM OnlyTogetherPastTheList == OntSpec => []WatchQuota
<1>1. OntInit => Base /\ RecordInv /\ WatchInv
  <2> SUFFICES ASSUME OntInit PROVE Base /\ RecordInv /\ WatchInv
    OBVIOUS
  <2>1. Base /\ RecordInv
    BY BaseHolds, NewTyped
       DEF OntInit, RecordInv, OwnRows, Blank, Recorded, EffectIsRecorded
  <2>2. rows = {} /\ \A t \in Sessions : txn[t].added = {} /\ ~Running(t)
    BY NewTyped DEF OntInit, Running
  <2>3. Finite /\ AsPlanned /\ AllBeside /\ Room
    BY <2>2, FS_EmptySet DEF Finite, AsPlanned, AllBeside, Room
  <2>4. \A who : Metered(who) = {}
    BY <2>2 DEF Metered, Watching
  <2>5. Cardinality({}) <= WatchLimit
    BY FS_EmptySet, WatchAssumption
  <2>6. Quota
    BY <2>4, <2>5 DEF Quota
  <2> QED BY <2>1, <2>3, <2>6 DEF WatchInv
<1>2. Base /\ RecordInv /\ WatchInv /\ [OntNext]_ontVars => (Base /\ RecordInv /\ WatchInv)'
  BY BaseStays, RecordStays, WatchStays
<1>3. WatchInv => WatchQuota
  BY DEF WatchInv, Quota, WatchQuota, Metered
<1> QED BY <1>1, <1>2, <1>3, PTL DEF OntSpec
=============================================================================
