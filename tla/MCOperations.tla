---------------------------- MODULE MCOperations ---------------------------
(***************************************************************************)
(* The writes of the ontology, and the governed work on cases, side by     *)
(* side: a behaviour exercises one of them, part says which.               *)
(***************************************************************************)
EXTENDS Ontology, CaseWork

CONSTANTS ann, bob, eve, adm, a, b, g, h, r1, c1, c2, e1, al1

VARIABLE part

-----------------------------------------------------------------------------
(* Writes: a screening or a watch, the seeding of the list or a watch, and *)
(* one of the other commands and endpoints.                                *)

E1 == Event(r1, a, b)

MCOf ==
  << {PersistRun(r1, <<a, b>>, g, <<[pair |-> <<a, b>>, critical |-> TRUE]>>),
      MonitorAdd(b, g, ann)},
     {Seed(<<b, a>>, g, adm), MonitorAdd(a, g, ann), Endpoint(JoinWaitlist("e@mail"), ann)},
     {MonitorAdd(b, h, ann), Endpoint(CreateObject(a), adm), Endpoint(AddObservation(a), adm),
      Endpoint(RecordDecision(Case(E1)), ann), Endpoint(OpenCase(E1), ann),
      Endpoint(CreateManeuver(E1, a), ann), Endpoint(CreateEvent(Nobody, a, b), adm),
      Endpoint(CreateAlert(E1), ann), Endpoint(JoinWaitlist("e@mail"), Nobody)} >>

MCPrograms == UNION {MCOf[i] : i \in Sessions}

\* Each session makes its own kind of request.
OwnKind == \A s \in Sessions : txn[s].stage # "new" => txn[s].program \in MCOf[s]

-----------------------------------------------------------------------------
(* Case work: ann has a case, bob an alert and the right to open a case,   *)
(* eve is an administrator.                                                *)

MCRequests ==
  {Asks("assign_case", c1, ann, bob), Asks("escalate_event", c1, ann, "P0"),
   Asks("close_case", c1, eve, NoValue), Asks("record_decision", c1, ann, NoValue),
   Asks("acknowledge_alert", al1, eve, NoValue),
   Asks("open_case", c2, bob, "P0"), Asks("assign_case", c2, bob, bob)}

MCEventOf == [c \in Cases |-> e1]

MCAtFirst ==
  [c \in Cells |->
     CASE c = <<c1, "actor">>    -> ann
       [] c = <<c1, "status">>   -> "open"
       [] c = <<c1, "priority">> -> "P1"
       [] c[1] = c2              -> "none"
       [] c = <<e1, "status">>   -> "under_review"
       [] c = <<al1, "actor">>   -> bob
       [] OTHER                  -> NoValue]

\* Requests are taken up in the order of the workers.
InTurn == \A v, w \in Workers : v < w /\ work[v].stage = "idle" => work[w].stage = "idle"

-----------------------------------------------------------------------------

mcVars == <<ontVars, caseVars, part>>

MCInit == OntInit /\ CaseInit /\ part \in {"writes", "cases"}

WriteStep == /\ part = "writes" /\ OntNext /\ OwnKind'
             /\ UNCHANGED <<caseVars, part>>

CaseStep == /\ part = "cases" /\ CaseNext /\ InTurn'
            /\ UNCHANGED <<ontVars, part>>

MCNext == WriteStep \/ CaseStep

MCSpec == MCInit /\ [][MCNext]_mcVars /\ OntFairness
=============================================================================
