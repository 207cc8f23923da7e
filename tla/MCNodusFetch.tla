---------------------------- MODULE MCNodusFetch ----------------------------
(***************************************************************************)
(* A Lookup that asks several peers, one after the other, while the peers' *)
(* files change and connections come and go.                               *)
(***************************************************************************)
EXTENDS MCNodus

VARIABLE lasting   \* history: for each Lookup under way, the peers that have been
                   \* connected and have held something to send ever since it began

CanSend(n, m) ==
  {p \in ConnectedPeers(n) : Holds(p, m) /\ cache[p].items[m].len > 0}

FetchInit == Init /\ lasting = [n \in Nodes |-> [m \in Names |-> {}]]

FetchNext ==
  /\ Next
  /\ lasting' = [n \in Nodes |-> [m \in Names |->
       IF NoLookupOf(n, m)' THEN {}
       ELSE CanSend(n, m)' \cap (IF NoLookupOf(n, m) THEN Nodes ELSE lasting[n][m])]]

FetchSpec == FetchInit /\ [][FetchNext]_<<vars, lasting>>

FetchView == <<Shape, Len(wrote), lasting>>

\* A Lookup comes to "file not found on any peer" (node.go:121), and to ENOENT or
\* to a Create, only if no peer has had the file to give from the beginning of the
\* Lookup to its end: whichever peers lose it, get it, come or go meanwhile.
FetchFindsCopy ==
  \A c \in lookups :
    c.phase = "absent" \/ (c.phase = "choosing" /\ c.todo = {})
      => lasting[c.node][c.name] = {}
=============================================================================
