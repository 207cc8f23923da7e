----------------------------- MODULE FileStore -----------------------------
(***************************************************************************)
(* What a program expects of the files of one directory: a map from names  *)
(* to bytes, in which an operation on one file leaves the others alone,    *)
(* a write changes one stretch of bytes, and a gap reads as zeros.  Nodus  *)
(* implements it on a node that works alone (MCNodusLocal).                *)
(***************************************************************************)
EXTENDS Integers, Sequences

CONSTANTS Names, MaxLen, MaxWrites

VARIABLE content    \* a function from the names of the existing files to bytes

Files == DOMAIN content

\* bytes cut or filled with zeros to length n
Fit(bytes, n) == [i \in 1 .. n |-> IF i <= Len(bytes) THEN bytes[i] ELSE 0]

Longer(a, b) == IF a > b THEN a ELSE b

FInit == content = [m \in {} |-> {}]

Creat(m) ==
  /\ m \notin Files
  /\ content' = [x \in Files \cup {m} |-> IF x = m THEN << >> ELSE content[x]]

Pwrite(m, off, byte) ==
  /\ m \in Files
  /\ content' = [content EXCEPT ![m] =
                   [Fit(@, Longer(Len(@), off + 1)) EXCEPT ![off + 1] = byte]]

Truncate(m, n) ==
  /\ m \in Files
  /\ content' = [content EXCEPT ![m] = Fit(@, n)]

Unlink(m) ==
  /\ m \in Files
  /\ content' = [x \in Files \ {m} |-> content[x]]

FNext ==
  \E m \in Names :
    \/ Creat(m)
    \/ \E off \in 0 .. MaxLen - 1, w \in 1 .. MaxWrites : Pwrite(m, off, w)
    \/ \E n \in 0 .. MaxLen : Truncate(m, n)
    \/ Unlink(m)

FSpec == FInit /\ [][FNext]_content
=============================================================================
