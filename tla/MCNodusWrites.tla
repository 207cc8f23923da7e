--------------------------- MODULE MCNodusWrites ---------------------------
(***************************************************************************)
(* The Write calls of several File objects, with reads that overlap them,  *)
(* second descriptors, and broadcasts that arrive in between.              *)
(***************************************************************************)
EXTENDS MCNodus

VARIABLE disturbed   \* history: the Write calls under way whose byte may be lost

\* Two things can take its byte from a Write before it is published: a Read of the
\* same File object, which gives the File the cached slice, and a Write through
\* another File object of the same name to the same place.
ReadUnder(n, f) == ~ Idle(files[n][f]) /\ ReadAll(n, f)

OverWritten(n, f) ==
  \E g \in OpenSlots(n) \ {f} :
    /\ files[n][g].name = files[n][f].name /\ files[n][g].off = files[n][f].off
    /\ WriteCopy(n, g)

Disturbs(n, f) == ReadUnder(n, f) \/ OverWritten(n, f)

WritesInit == Init /\ disturbed = {}

WritesNext ==
  /\ Next
  /\ disturbed' = disturbed \cup
       UNION {{files[n][f].w : f \in {g \in OpenSlots(n) : Disturbs(n, g)}} : n \in Nodes}

WritesSpec == WritesInit /\ [][WritesNext]_<<vars, disturbed>>

\* The numbers of the Write calls that are still under way are all that matters.
WritesView ==
  <<View, disturbed \cap UNION {{files[n][f].w : f \in OpenSlots(n)} : n \in Nodes}>>

-----------------------------------------------------------------------------

\* "Write writes data to the file" (fuse.go:175): when Write returns without an
\* error, which is when it starts its broadcast, its byte is in the file that the
\* node has cached.  The two things above are the only ones that can prevent it:
\* not another node, not a broadcast that arrives or a Lookup that ends meanwhile,
\* not Flush, truncation, unlink or another descriptor's Write elsewhere.
WriteLands ==
  [][\A n \in Nodes : \A f \in OpenSlots(n) :
       LET file == files[n][f]
       IN  /\ file.stage = "copied" /\ file.w \notin disturbed
           /\ ~ (casts' \subseteq casts) /\ files'[n][f] # file
           => LET bytes == BytesIn(heap', cache'[n].items[file.name])
              IN  file.off + 1 \in DOMAIN bytes /\ bytes[file.off + 1] = file.w
    ]_<<vars, disturbed>>
=============================================================================
