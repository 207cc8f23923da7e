------------------------------ MODULE MCNodus ------------------------------
(***************************************************************************)
(* What the TLC instances of Nodus have in common: a view that does not    *)
(* tell apart two states that differ only in the numbers of the arrays.    *)
(* It keeps which slices share an array and what each array holds, and     *)
(* that is all the actions and the properties depend on.                   *)
(***************************************************************************)
EXTENDS Nodus

Nameless(r) == [r EXCEPT !.data.buf = 0]

SharedBy(b) == {h.at : h \in {x \in Holders : x.data.buf = b}}

Shape ==
  << [n \in Nodes |-> [cache[n] EXCEPT !.items = [m \in DOMAIN @ |-> @[m].len]]],
     [n \in Nodes |-> [f \in Slots |->
        IF f \in OpenSlots(n) THEN Nameless(files[n][f]) ELSE NoFile]],
     {IF c.phase = "reading" THEN Nameless(c) ELSE c : c \in lookups},
     {Nameless(b) : b \in casts},
     {Nameless(s) : s \in sends},
     links,
     {<<SharedBy(b), heap[b]>> : b \in {x \in Bufs : heap[x] # << >>}} >>

\* The Write calls that a byte somewhere, or a File at work, still refers to
Referred ==
  UNION {{heap[b][i] : i \in DOMAIN heap[b]} : b \in Bufs}
    \cup UNION {{s.got[i] : i \in DOMAIN s.got} :
                  s \in sends \cup {c \in lookups : c.phase = "reading"}}
    \cup UNION {{files[n][f].w : f \in OpenSlots(n)} : n \in Nodes}

View == <<Shape, Len(wrote), [w \in Referred \ {0} |-> wrote[w]]>>

\* All nodes have found each other before the first file is made.
AllLinks == {{n, p} : n, p \in Nodes} \ {{n} : n \in Nodes}
LinkedSpec == StartsWith(AllLinks) /\ [][Next]_vars

Symmetric == Permutations(Nodes)
=============================================================================
