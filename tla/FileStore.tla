----------------------------- MODULE FileStore ------------------------------
(***************************************************************************)
(* What the file system (lab6/jos/fs) promises to its clients: files that  *)
(* do not affect one another, and contents that survive a loss of power    *)
(* once the file was flushed and as long as nobody changes it again.       *)
(* A part of a file that was never written since the file grew over it is  *)
(* a hole; what a hole reads as is not promised (see FileSystem).          *)
(***************************************************************************)
EXTENDS Naturals

CONSTANTS
    Files,
    MaxSize,    \* MaxSize[f]: largest size of f, in blocks
    Hole, NoData

VARIABLES
    holds,      \* holds[f]: the blocks of f, a function on 0 .. size - 1
    safe        \* the files that a loss of power leaves as they are

Contents == Files \cup {NoData}   \* the file whose data a block holds, if any

Init ==
    /\ holds = [f \in Files |-> [i \in {} |-> Hole]]
    /\ safe = Files

\* The size of f becomes n: blocks at the end go, or holes appear there.
Resize(f, n) ==
    /\ safe' = safe \ {f}
    /\ holds' = [holds EXCEPT ![f] =
                    [i \in 0 .. n - 1 |-> IF i \in DOMAIN @ THEN @[i] ELSE Hole]]

\* Data is stored in block i of f, which grows if it must.
Write(f, i) ==
    /\ safe' = safe \ {f}
    /\ holds' = [holds EXCEPT ![f] =
                    [k \in DOMAIN @ \cup 0 .. i |->
                        IF k = i THEN f ELSE IF k \in DOMAIN @ THEN @[k] ELSE Hole]]

\* A read makes a block of a hole, or fails on the way to it.
Fill(f, i) ==
    /\ safe' = safe \ {f}
    /\ i \in DOMAIN holds[f] /\ holds[f][i] = Hole
    /\ \E c \in Contents \cup {Hole} : holds' = [holds EXCEPT ![f][i] = c]

\* A flush of f or of everything.
Flush(F) == safe' = safe \cup F /\ UNCHANGED holds

Blocks(n) == [0 .. n - 1 -> Contents \cup {Hole}]

\* A loss of power and a restart: of the files that are not safe nothing is
\* said.
Crash ==
    /\ safe' = Files
    /\ DOMAIN holds' = Files
    /\ \A f \in Files : \E n \in 0 .. MaxSize[f] : holds'[f] \in Blocks(n)
    /\ \A f \in safe : holds'[f] = holds[f]

Next ==
    \/ \E f \in Files :
          \/ \E n \in 0 .. MaxSize[f] : Resize(f, n)
          \/ \E i \in 0 .. MaxSize[f] : Write(f, i) \/ Fill(f, i)
    \/ \E F \in {Files} \cup {{f} : f \in Files} : Flush(F)
    \/ Crash

Spec == Init /\ [][Next]_<<holds, safe>>
=============================================================================
