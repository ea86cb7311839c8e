---------------------------- MODULE ServingLayer ----------------------------
(***************************************************************************)
(* The serving layer of AWS: clients of the API and invocations of the     *)
(* projection against the tables Gold rewrites.                            *)
(***************************************************************************)
EXTENDS LatestProjection, ServingApi

vars == <<gen, latest, candles, phase, query, item, rows, raced, session>>

ASSUME LayerAssumption == Projection \cup Client = Invocation /\ Projection \cap Client = {}

Init == AthenaInit /\ ProjectionInit /\ ApiInit

Next ==
  \/ (GoldOverwrites \/ GoldCommits) /\ UNCHANGED <<projectionVars, session>>
  \/ ProjectionNext /\ UNCHANGED session
  \/ ApiNext /\ UNCHANGED projectionVars

Spec == Init /\ [][Next]_vars

\* The Lambdas go on.  Nothing obliges Athena to end a query, Gold to rebuild, or
\* anybody to invoke or call.
Fairness ==
  /\ \A p \in Projection : WF_vars(Project(p) /\ UNCHANGED session)
  /\ \A c \in Client : WF_vars(Handle(c) /\ UNCHANGED projectionVars)

FairSpec == Spec /\ Fairness

-----------------------------------------------------------------------------
(* Properties *)

TypeOK == AthenaTypeOK /\ ProjectionTypeOK /\ ApiTypeOK

\* A client that follows the page tokens gets the rows of its query once each, in
\* order, and has all of them when there is no further token, whatever Gold does
\* to the table in between.
PagesAreTheQuery ==
  \A c \in Client : phase[c] = "ok" /\ session[c].limit > 0 =>
    LET got == session[c].received IN
    /\ got = SubSeq(query[c].rows, 1, Len(got))
    /\ session[c].next = 0 => Len(got) = Len(query[c].rows)

\* The puts are unconditional: an older row replaces a newer one, but only when an
\* invocation puts it that another one has overlapped.
ItemsNeverGoBack ==
  [][\A k \in Key : 0 < item'[k] /\ item'[k] < item[k] =>
       \E p \in raced : phase[p] = "putting" /\ Len(rows'[p]) < Len(rows[p])]_vars

\* A projection that returns has brought the items of its page up to its query:
\* one page, so at most AthenaMax - 1 rows, and never fewer than that.
ProjectionRefreshesAPage ==
  [][\A p \in Projection : phase[p] = "putting" /\ phase'[p] = "ok" /\ p \notin raced =>
       LET fresh == {j \in DOMAIN query[p].rows :
                       item[query[p].rows[j].key] = query[p].rows[j].gen}
       IN  Cardinality(fresh) >= Smaller(Len(query[p].rows),
                                         Smaller(QueryLimit, AthenaMax - 1))]_vars

\* Every invocation ends, though Athena may never end its query: the deadline
\* gives up on it.
EveryInvocationEnds == \A i \in Invocation : IsBusy(i) ~> ~IsBusy(i)
=============================================================================
