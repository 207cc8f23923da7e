---------------------------- MODULE MCNodusLocal ----------------------------
(***************************************************************************)
(* One Nodus node on its own: the FUSE handlers and the cache, no peers.   *)
(***************************************************************************)
EXTENDS MCNodus

VARIABLE gone    \* history: the names removed on the node, and not created since

TheNode == CHOOSE n \in Nodes : TRUE

LocalInit == Init /\ gone = {}

LocalNext ==
  /\ Next
  /\ gone' = (gone \cup {m \in Names : RemoveFile(TheNode, m)})
               \ {c.name : c \in {d \in lookups : Create(d)}}

LocalSpec == LocalInit /\ [][LocalNext]_<<vars, gone>>

\* The files of the node are what a program expects of files: the File objects,
\* their slices and the cache entries that share them come to the same as one
\* map from names to bytes.
ExpectedFiles == INSTANCE FileStore
  WITH content <- [m \in CachedKeys(cache[TheNode]) |-> Copy(TheNode, m)]

BehavesAsFiles == ExpectedFiles!FSpec

\* "Remove deletes a file" (fuse.go:139): a removed name stays away until the file
\* is created again.
RemovedStaysRemoved == \A m \in gone : ~ Holds(TheNode, m)

-----------------------------------------------------------------------------
\* Where a byte was written is not asked here: the number of writes is enough.
LocalView == <<Shape, Len(wrote), gone>>
=============================================================================
