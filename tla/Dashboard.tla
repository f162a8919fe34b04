----------------------------- MODULE Dashboard ------------------------------
(***************************************************************************)
(* apps/web/src/lib/useAttestations.ts on top of the in-memory backend:    *)
(* the hook lists attestations by asking for the count, then for every     *)
(* record.  A refresh suspends twice, at each await, while other promise   *)
(* chains submit, challenge and resolve and other refreshes run.           *)
(***************************************************************************)
EXTENDS MockBackend

CONSTANT MaxRefreshes   \* bound: how many refreshes are under way at once

VARIABLES
    view,       \* the attestations the page lists; the newest is the last here
    loading,    \* nothing has been loaded since the page was opened
    refreshes   \* the refreshes under way, in the order they were started

viewVars == <<view, loading, refreshes>>
allVars == <<vars, viewVars>>

(* A refresh that knows the count, and one that has loaded the records.    *)
Counted(n) == [stage |-> "counted", count |-> n, loaded |-> <<>>]
Loaded(n) == [stage |-> "loaded", count |-> n,
              loaded |-> SubSeq(attestations, 1, n)]

DashboardInit ==
    /\ Init
    /\ view = <<>>
    /\ loading = TRUE
    /\ refreshes = <<Counted(0)>>

(* Opening the page mounts the hook, whose effect refreshes at once; what  *)
(* refreshes of an earlier visit bring is no longer shown.                 *)
OpenPage ==
    /\ view' = <<>>
    /\ loading' = TRUE
    /\ refreshes' = <<Counted(Count)>>
    /\ UNCHANGED vars

(* refresh() runs to its first await when it is called: the count is read. *)
StartRefresh ==
    /\ Len(refreshes) < MaxRefreshes
    /\ refreshes' = Append(refreshes, Counted(Count))
    /\ UNCHANGED <<vars, view, loading>>

(* Its first continuation asks for all records at once.  Promise           *)
(* continuations of equal depth run in the order they were queued.         *)
LoadRecords ==
    \E i \in DOMAIN refreshes :
        /\ refreshes[i].stage = "counted"
        /\ \A j \in 1 .. i - 1 : refreshes[j].stage = "loaded"
        /\ refreshes' = [refreshes EXCEPT ![i] = Loaded(@.count)]
        /\ UNCHANGED <<vars, view, loading>>

(* Mutation: whichever answer arrives first is shown first.                *)
MayShowAny(i) == refreshes[i].stage = "loaded"

(* Promise.all of the answers, too, completes in the order of the calls.   *)
MayShow(i) == refreshes[i].stage = "loaded" /\ i = 1

ShowRecords ==
    \E i \in DOMAIN refreshes :
        /\ MayShow(i)
        /\ view' = refreshes[i].loaded
        /\ loading' = FALSE
        /\ refreshes' = RemoveAt(refreshes, i)
        /\ UNCHANGED vars

DashboardNext ==
    \/ Next /\ UNCHANGED viewVars
    \/ OpenPage
    \/ StartRefresh
    \/ LoadRecords
    \/ ShowRecords

DashboardSpec == DashboardInit /\ [][DashboardNext]_allVars
-----------------------------------------------------------------------------
(* While the page is open its list never goes back: an attestation that    *)
(* was listed stays listed, and a status that was shown is not replaced by *)
(* an earlier one, although refreshes overlap and none is cancelled.       *)
Rank(status) ==
    CASE status = "Active" -> 0
      [] status = "Challenged" -> 1
      [] OTHER -> 2

ViewNeverRegresses ==
    [][ ~loading' =>
          /\ Len(view) <= Len(view')
          /\ \A id \in DOMAIN view :
                Rank(view[id].status) <= Rank(view'[id].status) ]_allVars
=============================================================================
