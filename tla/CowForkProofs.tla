---------------------------- MODULE CowForkProofs ---------------------------
(***************************************************************************)
(* Proofs about CowFork (lab6/jos/lib/fork.c and lib/pgfault.c), for any   *)
(* number of environments, frames and values: pages are isolated, nobody   *)
(* is destroyed for a write to its own memory, and fork() implements       *)
(* ForkMemory.                                                             *)
(***************************************************************************)
EXTENDS CowFork, TLAPS

-----------------------------------------------------------------------------
(* The invariant.                                                          *)

Page == [f : Frames \cup {0}, perm : Perms]
ForkState ==
    [pc : {"no", "pte", "child", "self", "xstack", "status"}, child : Envs, i : 0 .. 4,
     pte : Perms, seen : SUBSET Values]
FaultState ==
    [va : VA, pc : {"no", "alloc", "copy", "map", "unmap"}, tmp : Frames \cup {0}]
Request == [f : Frames \cup {0}, client : Envs, pc : {"recv", "serve", "unmap"}]

Typed ==
    /\ st \in [Envs -> {"free", "embryo", "run", "wait", "panic", "nomem", "killed"}]
    /\ pt \in [Envs -> [VA -> Page]]
    /\ mem \in [VA -> [Frames -> Values]]
    /\ upcall \in [Envs -> BOOLEAN]
    /\ fk \in [Envs -> ForkState]
    /\ flt \in [Envs -> FaultState]
    /\ srv \in Request

Alive(e) == st[e] \in {"run", "wait", "panic", "nomem"}

\* The permissions a mapped page may have.
Kind(va) == IF va = "text" THEN {"r"} ELSE IF va = "share" THEN {"ws"} ELSE {"w", "cow"}
Kinds ==
    \A e \in Envs, va \in VA :
        IF pt[e][va].f = 0 THEN pt[e][va].perm = "r" ELSE pt[e][va].perm \in Kind(va)

\* What an environment is doing, by its status.
LiveOk(e) ==
    /\ Alive(e) => \A va \in VA : pt[e][va].f # 0
    /\ st[e] = "free" => \A va \in VA : pt[e][va] = Unmapped
    /\ st[e] # "run" => fk[e].pc = "no" /\ flt[e].pc = "no"
    /\ st[e] # "killed"
    /\ flt[e].pc \in {"no", "alloc"} => flt[e].tmp = 0
    /\ fk[e].pc = "no" <=> fk[e].seen = {}
    /\ st[e] = "embryo" => \A va \in VA : pt[e][va].perm # "w"

Living == \A e \in Envs : LiveOk(e)

SomeAlive == \E e \in Envs : Alive(e)

\* Whoever has copy-on-write pages, or is about to, has the handler.
HandleOk(e) ==
    /\ Alive(e) /\ (\E va \in VA : pt[e][va].perm = "cow") => upcall[e]
    /\ fk[e].pc # "no" => upcall[e]
    /\ fk[e].pc = "status" => upcall[fk[e].child]

Handled == \A e \in Envs : HandleOk(e)

\* Whoever forks has a child of its own, which does not run yet.
Children ==
    \A e \in Envs :
        fk[e].pc # "no" =>
            /\ st[fk[e].child] = "embryo" /\ fk[e].i \in 1 .. 4
            /\ \A x \in Envs : fk[x].pc # "no" /\ fk[x].child = fk[e].child => x = e

\* The child has the pages up to where its parent is: the parent's own, and of
\* the stack one that is as the parent's was at some moment.
Given(e, j) ==
    \/ j < fk[e].i
    \/ fk[e].pc \in {"xstack", "status"}
    \/ j = fk[e].i /\ fk[e].pc = "self"

CopyOk(e) ==
    fk[e].pc # "no" =>
        /\ \A j \in 1 .. 4 : pt[fk[e].child][Vas[j]].f # 0 <=> Given(e, j)
        /\ \A j \in 1 .. 3 : Given(e, j) => pt[fk[e].child][Vas[j]].f = pt[e][Vas[j]].f
        /\ Given(e, 4) => At(fk[e].child, "stack") \in fk[e].seen
        /\ At(e, "stack") \in fk[e].seen
        /\ fk[e].pc \in {"child", "self"} => fk[e].pte \in Kind(Vas[fk[e].i])
        /\ fk[e].pc = "self" => Vas[fk[e].i] \in {"buf", "stack"}

Copies == \A e \in Envs : CopyOk(e)

\* Within pgfault(): the new page is nobody else's, and when it is mapped it has
\* the contents of the old one.
FaultOk(e) ==
    LET va == flt[e].va IN
    /\ flt[e].pc \in {"alloc", "copy", "map"} => pt[e][va].perm = "cow"
    /\ flt[e].pc \in {"copy", "map"} =>
          flt[e].tmp # 0 /\ \A x \in Envs : pt[x][va].f # flt[e].tmp
    /\ flt[e].pc = "unmap" =>
          flt[e].tmp # 0 /\ pt[e][va] = [f |-> flt[e].tmp, perm |-> "w"]
    /\ flt[e].pc \in {"copy", "map", "unmap"} =>
          \A x \in Envs \ {e} : flt[x].va = va => flt[x].tmp # flt[e].tmp
    /\ flt[e].pc = "map" => mem[va][flt[e].tmp] = At(e, va)
    /\ flt[e].pc # "no" /\ fk[e].pc # "no" => va = "stack"

Faulting == \A e \in Envs : FaultOk(e)

\* The server serves whoever waits, in the page that this one can write.
Serving ==
    srv.pc = "serve" =>
        /\ st[srv.client] = "wait"
        /\ pt[srv.client]["buf"].f = srv.f /\ pt[srv.client]["buf"].perm = "w"

OneShared ==
    \A e, x \in Envs :
        pt[e]["share"].f # 0 /\ pt[x]["share"].f # 0
            => pt[e]["share"].f = pt[x]["share"].f

IInv ==
    /\ Typed /\ Kinds /\ Living /\ SomeAlive /\ Handled /\ Children /\ Copies
    /\ Faulting /\ Serving /\ OneShared /\ Isolated

-----------------------------------------------------------------------------
(* Pages and frames.                                                       *)

LEMMA PageNames ==
    /\ VA = {"text", "buf", "share", "stack"} /\ Private = {"text", "buf", "stack"}
    /\ Len(Vas) = 4
    /\ Vas[1] = "text" /\ Vas[2] = "buf" /\ Vas[3] = "share" /\ Vas[4] = "stack"
<1>1. /\ Vas[1] = "text" /\ Vas[2] = "buf" /\ Vas[3] = "share" /\ Vas[4] = "stack"
      /\ DOMAIN Vas = 1 .. 4 /\ Len(Vas) = 4
  BY DEF Vas
<1>2. \A i \in 1 .. 4 : i = 1 \/ i = 2 \/ i = 3 \/ i = 4 OBVIOUS
<1>3. VA = {"text", "buf", "share", "stack"}
  <2>1. ASSUME NEW v \in VA PROVE v \in {"text", "buf", "share", "stack"}
    BY <1>1, <1>2 DEF VA
  <2>2. Vas[1] \in VA /\ Vas[2] \in VA /\ Vas[3] \in VA /\ Vas[4] \in VA
    BY <1>1 DEF VA
  <2> QED BY <1>1, <2>1, <2>2
<1> QED BY <1>1, <1>3 DEF Private

LEMMA PageOrder ==
    /\ \A j \in 1 .. 4 : /\ Vas[j] \in VA
                         /\ Vas[j] = "stack" <=> j = 4
                         /\ Vas[j] = "share" <=> j = 3
                         /\ Vas[j] = "buf" <=> j = 2
                         /\ Vas[j] = "text" <=> j = 1
    /\ \A j, k \in 1 .. 4 : Vas[j] = Vas[k] => j = k
    /\ \A va \in VA : \E j \in 1 .. 4 : va = Vas[j]
<1>1. \A i \in 1 .. 4 : i = 1 \/ i = 2 \/ i = 3 \/ i = 4 OBVIOUS
<1>2. 1 \in 1 .. 4 /\ 2 \in 1 .. 4 /\ 3 \in 1 .. 4 /\ 4 \in 1 .. 4 OBVIOUS
<1> QED BY <1>1, <1>2, PageNames

\* The frame page_alloc() returns is nobody's.
LEMMA FrameIsNew ==
    ASSUME NEW va \in VA, FreeFrames(va) # {}
    PROVE  /\ NewFrame(va) \in Frames
           /\ \A e \in Envs : pt[e][va].f # NewFrame(va)
           /\ \A e \in Envs : flt[e].va = va => flt[e].tmp # NewFrame(va)
<1>1. NewFrame(va) \in FreeFrames(va) BY DEF NewFrame
<1> HIDE DEF NewFrame
<1> QED BY <1>1 DEF FreeFrames, UsedFrames

\* The parts of the state have their types.
LEMMA Fields ==
    ASSUME Typed
    PROVE  /\ \A e \in Envs, va \in VA :
                 pt[e][va].f \in Frames \cup {0} /\ pt[e][va].perm \in Perms
           /\ \A e \in Envs :
                 /\ fk[e].child \in Envs /\ fk[e].i \in 0 .. 4
                 /\ fk[e].pte \in Perms /\ fk[e].seen \in SUBSET Values
                 /\ fk[e].pc \in {"no", "pte", "child", "self", "xstack", "status"}
           /\ \A e \in Envs :
                 /\ flt[e].va \in VA /\ flt[e].tmp \in Frames \cup {0}
                 /\ flt[e].pc \in {"no", "alloc", "copy", "map", "unmap"}
           /\ srv.f \in Frames \cup {0} /\ srv.client \in Envs
           /\ srv.pc \in {"recv", "serve", "unmap"}
BY DEF Typed, Page, ForkState, FaultState, Request

\* What is in use keeps its contents when a frame is given back.
LEMMA ClearedKeeps ==
    ASSUME Typed, mem' = Cleared,
           pt' \in [Envs -> [VA -> Page]], flt' \in [Envs -> FaultState]
    PROVE  /\ mem' \in [VA -> [Frames -> Values]]
           /\ \A e \in Envs, va \in VA :
                 pt'[e][va].f # 0 => mem'[va][pt'[e][va].f] = mem[va][pt'[e][va].f]
           /\ \A e \in Envs :
                 flt'[e].tmp # 0 =>
                     mem'[flt'[e].va][flt'[e].tmp] = mem[flt'[e].va][flt'[e].tmp]
<1>1. \A va \in VA, f \in Frames :
          mem'[va][f] = IF f \in UsedFrames(va)' THEN mem[va][f] ELSE Zero
  BY DEF Cleared
<1>2. mem' \in [VA -> [Frames -> Values]]
  BY CowForkAssumption DEF Cleared, Typed
<1>3. ASSUME NEW e \in Envs, NEW va \in VA, pt'[e][va].f # 0
      PROVE  mem'[va][pt'[e][va].f] = mem[va][pt'[e][va].f]
  <2>1. pt'[e][va].f \in Frames BY <1>3 DEF Page
  <2>2. pt'[e][va].f \in UsedFrames(va)' BY DEF UsedFrames
  <2> QED BY <1>1, <2>1, <2>2
<1>4. ASSUME NEW e \in Envs, flt'[e].tmp # 0
      PROVE  mem'[flt'[e].va][flt'[e].tmp] = mem[flt'[e].va][flt'[e].tmp]
  <2>1. PICK va \in VA : va = flt'[e].va BY DEF FaultState
  <2>2. flt'[e].tmp \in Frames BY <1>4 DEF FaultState
  <2>3. flt'[e].tmp \in UsedFrames(va)' BY <2>1 DEF UsedFrames
  <2> QED BY <1>1, <2>1, <2>2, <2>3
<1> QED BY <1>2, <1>3, <1>4

\* A page that its owner can write is seen by nobody who lives.
LEMMA Exclusive ==
    ASSUME IInv, NEW e \in Envs, st[e] # "nomem", NEW va \in VA,
           pt[e][va].f # 0, pt[e][va].perm = "w", NEW x \in Envs \ {e}
    PROVE  /\ Alive(x) => pt[x][va].f # pt[e][va].f
           /\ pt[x][va].f = pt[e][va].f => fk[e].pc = "self" /\ fk[e].child = x
BY DEF IInv, Isolated, Children, Alive

-----------------------------------------------------------------------------
(* Each action keeps the invariant.                                        *)

LEMMA InitIInv == Init => IInv
<1> SUFFICES ASSUME Init PROVE IInv OBVIOUS
<1> DEFINE perm == [text |-> "r", buf |-> "w", share |-> "ws", stack |-> "w"]
<1>1. /\ st = [e \in Envs |-> IF e = First THEN "run" ELSE "free"]
      /\ pt = [e \in Envs |-> IF e = First
                                 THEN [va \in VA |-> [f |-> 1, perm |-> perm[va]]]
                                 ELSE Empty]
      /\ mem = [va \in VA |-> [f \in Frames |-> Zero]]
      /\ upcall = [e \in Envs |-> FALSE]
      /\ fk = [e \in Envs |-> NotForking] /\ flt = [e \in Envs |-> NoFault]
      /\ srv = NoRequest
  BY DEF Init
<1>2. \A va \in VA : perm[va] \in Kind(va) /\ perm[va] \in Perms /\ perm[va] # "cow"
  BY PageNames DEF Kind, Perms
<1> HIDE DEF perm
<1>3. /\ \A va \in VA : pt[First][va].f = 1 /\ pt[First][va].perm = perm[va]
      /\ \A e \in Envs \ {First}, va \in VA :
             pt[e][va] = Unmapped /\ pt[e][va].f = 0 /\ pt[e][va].perm = "r"
  <2>1. \A va \in VA : pt[First][va] = [f |-> 1, perm |-> perm[va]]
    BY <1>1, CowForkAssumption
  <2>2. \A e \in Envs \ {First}, va \in VA : pt[e][va] = Unmapped
    BY <1>1 DEF Empty
  <2>3. Unmapped.f = 0 /\ Unmapped.perm = "r" BY DEF Unmapped
  <2>4. ASSUME NEW va \in VA PROVE pt[First][va].f = 1 /\ pt[First][va].perm = perm[va]
    <3>1. PICK p \in Perms : p = perm[va] BY <1>2
    <3>2. pt[First][va] = [f |-> 1, perm |-> p] BY <2>1, <3>1
    <3> QED BY <3>1, <3>2
  <2> QED BY <2>2, <2>3, <2>4
<1>4. "text" \in VA /\ 1 \in Frames /\ First \in Envs /\ Zero \in Values
  BY PageNames, CowForkAssumption DEF Frames
<1>5. Typed
  <2>1. pt \in [Envs -> [VA -> Page]]
    BY <1>1, <1>2, <1>4 DEF Empty, Unmapped, Page, Perms
  <2>2. fk \in [Envs -> ForkState]
    BY <1>1, <1>4 DEF NotForking, ForkState, Perms
  <2> QED BY <1>1, <1>4, <2>1, <2>2 DEF Typed, NoFault, NoRequest, FaultState, Request
<1>6. Kinds /\ OneShared BY <1>2, <1>3, PageNames DEF Kinds, Unmapped, OneShared
<1>7. Living
  <2>1. \A e \in Envs : /\ fk[e].pc = "no" /\ fk[e].seen = {}
                        /\ flt[e].pc = "no" /\ flt[e].tmp = 0
    BY <1>1 DEF NotForking, NoFault
  <2>2. st[First] = "run" /\ \A e \in Envs \ {First} : st[e] = "free"
    BY <1>1, <1>4
  <2>3. ASSUME NEW e \in Envs
        PROVE  /\ Alive(e) => \A va \in VA : pt[e][va].f # 0
               /\ st[e] = "free" => \A va \in VA : pt[e][va] = Unmapped
               /\ st[e] # "killed" /\ st[e] # "embryo"
    <3>1. CASE e = First BY <1>3, <2>2, <3>1 DEF Alive
    <3>2. CASE e # First BY <1>3, <2>2, <3>2 DEF Alive
    <3> QED BY <3>1, <3>2
  <2> QED BY <2>1, <2>3 DEF Living, LiveOk
<1>8. SomeAlive BY <1>1, <1>4 DEF SomeAlive, Alive
<1>9. Handled
  <2>1. \A e \in Envs, va \in VA : pt[e][va].perm # "cow" BY <1>2, <1>3
  <2> QED BY <1>1, <2>1 DEF Handled, HandleOk, NotForking
<1>10. Children /\ Copies /\ Faulting /\ Serving
  BY <1>1 DEF Children, Copies, CopyOk, Faulting, FaultOk, Serving, NotForking, NoFault, NoRequest
<1>11. Isolated
  <2>1. \A e \in Envs, va \in VA : pt[e][va].f # 0 => e = First
    BY <1>3
  <2>2. \A e \in Envs : flt[e].tmp = 0 BY <1>1 DEF NoFault
  <2> QED BY <1>3, <2>1, <2>2 DEF Isolated
<1> QED BY <1>5, <1>6, <1>7, <1>8, <1>9, <1>10, <1>11 DEF IInv

LEMMA WriteKeeps ==
    ASSUME IInv, NEW e \in Envs, NEW va \in VA, NEW v \in Values, Write(e, va, v)
    PROVE  /\ IInv' /\ Alive(e) /\ At(e, va)' = v
           /\ \A x \in Envs, y \in VA :
                 Alive(x) /\ (x # e \/ y # va) /\ (y # "share" \/ va # "share")
                     => At(x, y)' = At(x, y)
<1>1. /\ st[e] = "run" /\ flt[e].pc = "no" /\ (fk[e].pc = "no" \/ va = "stack")
      /\ pt[e][va].f # 0 /\ pt[e][va].f \in Frames /\ pt[e][va].perm \in {"w", "ws"}
      /\ Alive(e)
      /\ st' = st /\ pt' = pt /\ upcall' = upcall /\ flt' = flt /\ srv' = srv
  BY Fields DEF Write, Idle, Forks, Runs, Writable, Alive, IInv
<1>2. \A y \in VA, f \in Frames :
          mem'[y][f] = IF y = va /\ f = pt[e][va].f THEN v ELSE mem[y][f]
  BY DEF Write, IInv, Typed
<1>3. /\ \A x \in Envs : /\ fk'[x].pc = fk[x].pc /\ fk'[x].child = fk[x].child
                         /\ fk'[x].i = fk[x].i /\ fk'[x].pte = fk[x].pte
                         /\ x # e => fk'[x].seen = fk[x].seen
                         /\ fk[x].seen \subseteq fk'[x].seen
                         /\ fk[x].pc = "no" => fk'[x].seen = fk[x].seen
      /\ fk[e].pc # "no" => v \in fk'[e].seen
  BY <1>1 DEF Write, Seen, IInv, Typed
<1>4. Typed'
  <2>1. mem' \in [VA -> [Frames -> Values]]
    BY DEF Write, IInv, Typed
  <2>2. fk' \in [Envs -> ForkState]
    <3>1. CASE fk' = fk BY <3>1 DEF IInv, Typed
    <3>2. CASE fk' = [fk EXCEPT ![e].seen = @ \cup {v}]
      <4>1. fk[e] \in ForkState BY DEF IInv, Typed
      <4>2. [fk[e] EXCEPT !.seen = @ \cup {v}] \in ForkState BY <4>1 DEF ForkState
      <4> QED BY <3>2, <4>2 DEF IInv, Typed
    <3> QED BY <3>1, <3>2 DEF Write, Seen
  <2> QED BY <1>1, <2>1, <2>2 DEF IInv, Typed
<1>5. Kinds' /\ SomeAlive' /\ OneShared' /\ Serving'
  BY <1>1 DEF IInv, Kinds, SomeAlive, Alive, OneShared, Serving
<1>6. Living' BY <1>1, <1>3 DEF IInv, Living, LiveOk, Alive
<1>7. Handled' /\ Children' BY <1>1, <1>3 DEF IInv, Handled, HandleOk, Children, Alive
<1>8. Isolated' BY <1>1, <1>3 DEF IInv, Isolated
\* Only the child of e, while e is between the halves of duppage(), can see it.
<1>9. \A x \in Envs \ {e}, y \in VA :
          /\ pt[x][y].f # 0 /\ Alive(x) /\ y # "share" => At(x, y)' = At(x, y)
          /\ pt[x]["stack"].f # 0 /\ At(x, "stack")' # At(x, "stack")
                => fk[e].child = x /\ fk[e].pc = "self" /\ At(x, "stack")' = v
  <2>1. \A x \in Envs, y \in VA : pt[x][y].f # 0 => pt[x][y].f \in Frames
    BY Fields DEF IInv
  <2>2. va # "share" => pt[e][va].perm = "w"
    BY <1>1 DEF IInv, Kinds, Kind
  <2> QED BY <1>1, <1>2, <2>1, <2>2, Exclusive, PageNames DEF At
<1>10. Copies'
  <2> SUFFICES ASSUME NEW x \in Envs, fk[x].pc # "no" PROVE CopyOk(x)'
    BY <1>3 DEF Copies, CopyOk
  <2>1. /\ st[x] = "run" /\ Alive(x) /\ fk[x].child \in Envs \ {x}
        /\ st[fk[x].child] = "embryo" /\ "stack" \in VA
        /\ pt[x]["stack"].f # 0
    BY Fields, PageNames DEF IInv, Living, LiveOk, Alive, Children
  <2>2. At(x, "stack")' \in fk'[x].seen
    <3>1. CASE x # e BY <1>3, <1>9, <2>1, <3>1, PageNames DEF IInv, Copies, CopyOk
    <3>2. CASE x = e /\ va = "stack"
      BY <1>1, <1>2, <1>3, <3>2 DEF At
    <3> QED BY <1>1, <3>1, <3>2
  <2>3. ASSUME Given(x, 4) PROVE At(fk[x].child, "stack")' \in fk'[x].seen
    <3>1. pt[fk[x].child]["stack"].f # 0 /\ At(fk[x].child, "stack") \in fk[x].seen
      BY <2>3, PageNames DEF IInv, Copies, CopyOk
    <3>2. PICK c \in Envs : c = fk[x].child BY <2>1
    <3>3. c # e /\ "stack" \in VA /\ fk[x].seen \subseteq fk'[x].seen
      BY <1>1, <1>3, <2>1, <3>2, PageNames
    <3>4. At(c, "stack")' \in fk'[x].seen
      <4>1. CASE At(c, "stack")' = At(c, "stack") BY <3>1, <3>2, <3>3, <4>1
      <4>2. CASE At(c, "stack")' # At(c, "stack")
        <5>1. fk[e].child = c /\ fk[e].pc = "self" /\ At(c, "stack")' = v
          BY <1>9, <3>1, <3>2, <3>3, <4>2
        <5>2. x = e BY <3>2, <5>1 DEF IInv, Children
        <5> QED BY <1>3, <5>1, <5>2
      <4> QED BY <4>1, <4>2
    <3> QED BY <1>3, <3>2, <3>4 DEF At
  <2>4. CopyOk(x) BY DEF IInv, Copies
  <2>5. \A j \in 1 .. 4 : Given(x, j)' <=> Given(x, j) BY <1>3 DEF Given
  <2>6. pt' = pt /\ \A j \in 1 .. 3 : j \in 1 .. 4 BY <1>1
  <2>7. /\ \A j \in 1 .. 4 : pt'[fk[x].child][Vas[j]].f # 0 <=> Given(x, j)'
        /\ \A j \in 1 .. 3 :
               Given(x, j)' => pt'[fk[x].child][Vas[j]].f = pt'[x][Vas[j]].f
    BY <2>4, <2>5, <2>6 DEF CopyOk
  <2>8. Given(x, 4)' => At(fk[x].child, "stack")' \in fk'[x].seen
    BY <2>3, <2>5
  <2> QED BY <1>3, <2>2, <2>4, <2>7, <2>8 DEF CopyOk
<1>11. Faulting'
  <2> SUFFICES ASSUME NEW x \in Envs, flt[x].pc = "map"
               PROVE  mem'[flt[x].va][flt[x].tmp] = At(x, flt[x].va)'
    BY <1>1, <1>3 DEF IInv, Faulting, FaultOk
  <2>1. /\ x # e /\ st[x] = "run" /\ Alive(x) /\ flt[x].va \in VA /\ flt[x].tmp \in Frames
        /\ pt[e][va].f # flt[x].tmp \/ va # flt[x].va
        /\ pt[x][flt[x].va].perm = "cow" /\ pt[x][flt[x].va].f # 0
        /\ mem[flt[x].va][flt[x].tmp] = At(x, flt[x].va)
    <3>1. x # e /\ st[x] = "run" /\ Alive(x) BY <1>1 DEF IInv, Living, LiveOk, Alive
    <3>2. PICK y \in VA : y = flt[x].va BY Fields DEF IInv
    <3>3. flt[x].tmp # 0 /\ pt[x][y].perm = "cow"
      BY <3>2 DEF IInv, Faulting, FaultOk
    <3>4. flt[x].tmp \in Frames /\ pt[x][y].f # 0
      BY <3>1, <3>3, Fields DEF IInv, Living, LiveOk
    <3> QED BY <1>1, <3>1, <3>2, <3>3, <3>4 DEF IInv, Faulting, FaultOk
  <2>2. flt[x].va # "share" BY <2>1 DEF IInv, Kinds, Kind
  <2>3. PICK y \in VA : y = flt[x].va BY <2>1
  <2>4. At(x, y)' = At(x, y) BY <1>9, <2>1, <2>2, <2>3
  <2> QED BY <1>1, <1>2, <2>1, <2>3, <2>4 DEF At
<1>12. At(e, va)' = v BY <1>1, <1>2 DEF At
<1>13. \A x \in Envs, y \in VA :
           Alive(x) /\ (x # e \/ y # va) /\ (y # "share" \/ va # "share")
               => At(x, y)' = At(x, y)
  <2> SUFFICES ASSUME NEW x \in Envs, NEW y \in VA, Alive(x), x # e \/ y # va,
                      y # "share" \/ va # "share"
               PROVE  At(x, y)' = At(x, y)
    OBVIOUS
  <2>1. pt[x][y].f # 0 /\ pt[x][y].f \in Frames BY Fields DEF IInv, Living, LiveOk
  <2>2. CASE y # va BY <1>1, <1>2, <2>1, <2>2 DEF At
  <2>3. CASE y = va BY <1>9, <2>1, <2>3
  <2> QED BY <2>2, <2>3
<1> QED BY <1>1, <1>4, <1>5, <1>6, <1>7, <1>8, <1>10, <1>11, <1>12, <1>13 DEF IInv

\* Whoever runs has all its pages, is no child any more and is not being served.
LEMMA Running ==
    ASSUME IInv, NEW e \in Envs, st[e] = "run"
    PROVE  /\ Alive(e)
           /\ \A va \in VA : pt[e][va].f # 0 /\ pt[e][va].f \in Frames
           /\ \A x \in Envs : fk[x].pc # "no" => fk[x].child # e
           /\ srv.pc = "serve" => srv.client # e
<1>1. Alive(e) BY DEF Alive
<1>2. \A va \in VA : pt[e][va].f # 0 /\ pt[e][va].f \in Frames
  BY <1>1, Fields DEF IInv, Living, LiveOk
<1> QED BY <1>1, <1>2 DEF IInv, Children, Serving

\* Whoever forks runs; its child does nothing and belongs to nobody else.
LEMMA Child ==
    ASSUME IInv, NEW e \in Envs, fk[e].pc # "no", NEW c \in Envs, c = fk[e].child
    PROVE  /\ st[e] = "run" /\ st[c] = "embryo" /\ c # e
           /\ fk[c].pc = "no" /\ flt[c].pc = "no" /\ flt[c].tmp = 0
           /\ \A va \in VA : pt[c][va].perm # "w"
           /\ \A x \in Envs \ {e} : fk[x].pc # "no" => fk[x].child # c
           /\ srv.pc = "serve" => srv.client # c
<1>1. st[e] = "run" /\ st[c] = "embryo" BY DEF IInv, Living, LiveOk, Children
<1> QED BY <1>1 DEF IInv, Living, LiveOk, Children, Serving

\* Copies is about what environments see of pages they have.
LEMMA CopiesStay ==
    ASSUME IInv, pt' = pt, fk' = fk,
           \A x \in Envs, y \in VA : pt[x][y].f # 0 => At(x, y)' = At(x, y)
    PROVE  Copies'
<1> SUFFICES ASSUME NEW x \in Envs, fk[x].pc # "no"
             PROVE  /\ Given(x, 4) => At(fk[x].child, "stack")' \in fk[x].seen
                    /\ At(x, "stack")' \in fk[x].seen
  BY DEF IInv, Copies, CopyOk, Given
<1>1. PICK c \in Envs : c = fk[x].child BY Fields DEF IInv
<1>2. "stack" \in VA /\ pt[x]["stack"].f # 0 /\ At(x, "stack") \in fk[x].seen
  BY <1>1, Child, Running, PageNames DEF IInv, Copies, CopyOk
<1>3. Given(x, 4) => pt[c]["stack"].f # 0 /\ At(c, "stack") \in fk[x].seen
  BY <1>1, PageNames DEF IInv, Copies, CopyOk
<1>4. At(x, "stack")' \in fk[x].seen BY <1>2
<1>5. Given(x, 4) => At(c, "stack")' \in fk[x].seen BY <1>2, <1>3
<1> QED BY <1>1, <1>4, <1>5 DEF At

LEMMA FaultKeeps ==
    ASSUME IInv, NEW e \in Envs, NEW va \in VA, Fault(e, va)
    PROVE  IInv'
<1>1. /\ st[e] = "run" /\ flt[e].pc = "no" /\ (fk[e].pc = "no" \/ va = "stack")
      /\ pt[e][va].perm = "cow"
  BY DEF Fault, Idle, Forks, Runs
<1>2. upcall[e] BY <1>1, Running DEF IInv, Handled, HandleOk
<1>3. /\ st' = st /\ pt' = pt /\ mem' = mem /\ upcall' = upcall /\ fk' = fk /\ srv' = srv
      /\ flt' = [flt EXCEPT ![e] = [va |-> va, pc |-> "alloc", tmp |-> 0]]
  BY <1>2 DEF Fault
<1>4. /\ flt'[e].va = va /\ flt'[e].pc = "alloc" /\ flt'[e].tmp = 0
      /\ \A x \in Envs \ {e} : flt'[x] = flt[x]
  BY <1>3 DEF IInv, Typed
<1>5. Typed' BY <1>3 DEF IInv, Typed, FaultState
<1>6. Kinds' /\ SomeAlive' /\ Handled' /\ Children' /\ OneShared' /\ Serving'
  BY <1>3 DEF IInv, Kinds, SomeAlive, Alive, Handled, HandleOk, Children, OneShared, Serving
<1>7. Copies' BY <1>3 DEF IInv, Copies, CopyOk, Given, At
<1>8. Living' BY <1>1, <1>3, <1>4 DEF IInv, Living, LiveOk, Alive
<1>9. Faulting'
  <2>1. FaultOk(e)' BY <1>1, <1>3, <1>4 DEF FaultOk
  <2>2. ASSUME NEW x \in Envs \ {e} PROVE FaultOk(x)'
    <3>1. FaultOk(x) BY DEF IInv, Faulting
    <3> QED BY <1>3, <1>4, <3>1 DEF FaultOk, At
  <2> QED BY <2>1, <2>2 DEF Faulting
<1>10. Isolated' BY <1>3, <1>4 DEF IInv, Isolated
<1> QED BY <1>5, <1>6, <1>7, <1>8, <1>9, <1>10 DEF IInv

LEMMA FaultAllocKeeps ==
    ASSUME IInv, NEW e \in Envs, FaultAlloc(e)
    PROVE  IInv'
<1>1. PICK va \in VA : va = flt[e].va BY Fields DEF IInv
<1>2. PICK n : n = NewFrame(va) OBVIOUS
<1>3. /\ n \in Frames /\ n # 0
      /\ \A x \in Envs : pt[x][va].f # n
      /\ \A x \in Envs : flt[x].va = va => flt[x].tmp # n
  BY <1>1, <1>2, FrameIsNew DEF FaultAlloc, Frames
<1>4. /\ st[e] = "run" /\ flt[e].pc = "alloc"
      /\ st' = st /\ pt' = pt /\ mem' = mem /\ upcall' = upcall /\ fk' = fk /\ srv' = srv
      /\ flt' = [flt EXCEPT ![e].tmp = n, ![e].pc = "copy"]
  BY <1>1, <1>2 DEF FaultAlloc
<1>5. /\ flt'[e].va = va /\ flt'[e].pc = "copy" /\ flt'[e].tmp = n
      /\ \A x \in Envs \ {e} : flt'[x] = flt[x]
  <2>1. flt[e] \in FaultState BY DEF IInv, Typed
  <2>2. flt'[e] = [flt[e] EXCEPT !.tmp = n, !.pc = "copy"] BY <1>4 DEF IInv, Typed
  <2>3. flt'[e].va = va /\ flt'[e].pc = "copy" /\ flt'[e].tmp = n
    BY <1>1, <2>1, <2>2 DEF FaultState
  <2>4. \A x \in Envs \ {e} : flt'[x] = flt[x] BY <1>4 DEF IInv, Typed
  <2> QED BY <2>3, <2>4
<1>6. Typed'
  <2>1. flt[e] \in FaultState BY DEF IInv, Typed
  <2>2. [flt[e] EXCEPT !.tmp = n, !.pc = "copy"] \in FaultState
    BY <1>3, <2>1 DEF FaultState
  <2>3. flt' \in [Envs -> FaultState] BY <1>4, <2>2 DEF IInv, Typed
  <2> QED BY <1>4, <2>3 DEF IInv, Typed
<1>7. Kinds' /\ SomeAlive' /\ Handled' /\ Children' /\ OneShared' /\ Serving'
  BY <1>4 DEF IInv, Kinds, SomeAlive, Alive, Handled, HandleOk, Children, OneShared, Serving
<1>8. Copies' BY <1>4 DEF IInv, Copies, CopyOk, Given, At
<1>9. Living'
  <2> SUFFICES ASSUME NEW x \in Envs PROVE LiveOk(x)' BY DEF Living
  <2>1. LiveOk(x) BY DEF IInv, Living
  <2>2. st' = st /\ pt' = pt /\ fk' = fk BY <1>4
  <2>3. \/ flt'[x].pc = "copy" /\ st[x] = "run"
        \/ flt'[x] = flt[x]
    BY <1>4, <1>5
  <2> QED BY <2>1, <2>2, <2>3 DEF LiveOk, Alive
<1>10. Faulting'
  <2>1. FaultOk(e)'
    <3>1. FaultOk(e) BY DEF IInv, Faulting
    <3>2. /\ pt[e][va].perm = "cow" /\ (fk[e].pc # "no" => va = "stack")
      BY <1>1, <1>4, <3>1 DEF FaultOk
    <3> QED BY <1>3, <1>4, <1>5, <3>2 DEF FaultOk
  <2>2. ASSUME NEW x \in Envs \ {e} PROVE FaultOk(x)'
    <3>1. FaultOk(x) BY DEF IInv, Faulting
    <3>2. flt[x].va = va => flt[x].tmp # n BY <1>3
    <3>3. pt' = pt /\ mem' = mem /\ fk' = fk /\ flt'[x] = flt[x] BY <1>4, <1>5
    <3>4. \A z \in Envs \ {x} :
              \/ flt'[z] = flt[z]
              \/ flt'[z].va = va /\ flt'[z].tmp = n
      BY <1>5
    <3> QED BY <3>1, <3>2, <3>3, <3>4 DEF FaultOk, At
  <2> QED BY <2>1, <2>2 DEF Faulting
<1>11. Isolated'
  <2>0. pt' = pt /\ fk' = fk /\ st' = st BY <1>4
  <2> SUFFICES ASSUME NEW z \in Envs, NEW y \in VA, st[z] # "nomem",
                      pt[z][y].f # 0, pt[z][y].perm = "w", NEW x \in Envs \ {z}
               PROVE  /\ pt[x][y].f = pt[z][y].f =>
                            fk[z].pc = "self" /\ fk[z].child = x /\ Vas[fk[z].i] = y
                      /\ flt'[x].va = y => flt'[x].tmp # pt[z][y].f
    BY <2>0 DEF Isolated
  <2>1. CASE x = e BY <1>3, <1>5, <2>1 DEF IInv, Isolated
  <2>2. CASE x # e BY <1>5, <2>2 DEF IInv, Isolated
  <2> QED BY <2>1, <2>2
<1> QED BY <1>6, <1>7, <1>8, <1>9, <1>10, <1>11 DEF IInv

LEMMA FaultCopyKeeps ==
    ASSUME IInv, NEW e \in Envs, FaultCopy(e)
    PROVE  /\ IInv'
           /\ \A x \in Envs, y \in VA : pt[x][y].f # 0 => At(x, y)' = At(x, y)
<1>1. PICK va \in VA, n \in Frames : va = flt[e].va /\ n = flt[e].tmp
  BY Fields DEF IInv, Faulting, FaultOk, FaultCopy
<1>2. /\ st[e] = "run" /\ flt[e].pc = "copy"
      /\ st' = st /\ pt' = pt /\ upcall' = upcall /\ fk' = fk /\ srv' = srv
      /\ flt' = [flt EXCEPT ![e].pc = "map"]
      /\ mem' = [mem EXCEPT ![va][n] = At(e, va)]
  BY <1>1 DEF FaultCopy
<1>3. /\ flt'[e].va = va /\ flt'[e].pc = "map" /\ flt'[e].tmp = n
      /\ \A x \in Envs \ {e} : flt'[x] = flt[x]
  BY <1>1, <1>2 DEF IInv, Typed, FaultState
<1>4. \A y \in VA, f \in Frames :
          mem'[y][f] = IF y = va /\ f = n THEN At(e, va) ELSE mem[y][f]
  BY <1>2 DEF IInv, Typed
<1>5. /\ \A x \in Envs : pt[x][va].f # n
      /\ \A x \in Envs \ {e} : flt[x].va = va => flt[x].tmp # n
      /\ pt[e][va].f \in Frames /\ At(e, va) \in Values
  <2>1. pt[e][va].f \in Frames BY <1>2, Running
  <2>2. At(e, va) \in Values BY <2>1 DEF At, IInv, Typed
  <2> QED BY <1>1, <1>2, <2>1, <2>2 DEF IInv, Faulting, FaultOk
<1>6. \A x \in Envs, y \in VA : pt[x][y].f # 0 => At(x, y)' = At(x, y)
  <2>1. \A x \in Envs, y \in VA : pt[x][y].f # 0 => pt[x][y].f \in Frames
    BY Fields DEF IInv
  <2> QED BY <1>2, <1>4, <1>5, <2>1 DEF At
<1>7. Typed'
  <2>1. mem' \in [VA -> [Frames -> Values]] BY <1>2, <1>5 DEF IInv, Typed
  <2>2. flt' \in [Envs -> FaultState]
    <3>1. flt[e] \in FaultState BY DEF IInv, Typed
    <3>2. [flt[e] EXCEPT !.pc = "map"] \in FaultState BY <3>1 DEF FaultState
    <3> QED BY <1>2, <3>2 DEF IInv, Typed
  <2> QED BY <1>2, <2>1, <2>2 DEF IInv, Typed
<1>8. Kinds' /\ SomeAlive' /\ Handled' /\ Children' /\ OneShared' /\ Serving'
  BY <1>2 DEF IInv, Kinds, SomeAlive, Alive, Handled, HandleOk, Children, OneShared, Serving
<1>9. Copies' BY <1>2, <1>6, CopiesStay DEF IInv
<1>10. Living' BY <1>2, <1>3 DEF IInv, Living, LiveOk, Alive
<1>11. Faulting'
  <2>1. FaultOk(e)'
    <3>1. mem'[va][n] = At(e, va) /\ At(e, va)' = At(e, va)
      BY <1>2, <1>4, <1>6, Running
    <3>2. (mem[flt[e].va][flt[e].tmp] = At(e, flt[e].va))' BY <1>3, <3>1 DEF At
    <3>3. FaultOk(e) BY DEF IInv, Faulting
    <3>4. /\ pt[e][va].perm = "cow" /\ n # 0 /\ (fk[e].pc # "no" => va = "stack")
      BY <1>1, <1>2, <3>3 DEF FaultOk
    <3> QED BY <1>2, <1>3, <1>5, <3>2, <3>4 DEF FaultOk
  <2>2. ASSUME NEW x \in Envs \ {e} PROVE FaultOk(x)'
    <3>1. FaultOk(x) BY DEF IInv, Faulting
    <3>2. flt[x].pc = "map" => (mem[flt[x].va][flt[x].tmp] = At(x, flt[x].va))'
      <4> SUFFICES ASSUME flt[x].pc = "map"
                   PROVE  (mem[flt[x].va][flt[x].tmp] = At(x, flt[x].va))'
        OBVIOUS
      <4>1. PICK y \in VA : y = flt[x].va BY Fields DEF IInv
      <4>2. st[x] = "run" /\ flt[x].tmp # 0 /\ mem[y][flt[x].tmp] = At(x, y)
        BY <3>1, <4>1 DEF IInv, FaultOk, Living, LiveOk
      <4>3. flt[x].tmp \in Frames /\ pt[x][y].f # 0
        BY <4>2, Fields, Running DEF IInv
      <4>4. mem'[y][flt[x].tmp] = At(x, y) /\ At(x, y)' = At(x, y)
        BY <1>4, <1>5, <1>6, <4>1, <4>2, <4>3
      <4> QED BY <1>3, <4>1, <4>4 DEF At
    <3>3. flt[x].pc \in {"copy", "map", "unmap"} =>
             \A z \in Envs \ {x} : flt'[z].va = flt[x].va => flt'[z].tmp # flt[x].tmp
      BY <1>1, <1>3, <3>1 DEF FaultOk
    <3> QED BY <1>2, <1>3, <3>1, <3>2, <3>3 DEF FaultOk
  <2> QED BY <2>1, <2>2 DEF Faulting
<1>12. Isolated' BY <1>2, <1>3 DEF IInv, Isolated
<1> QED BY <1>6, <1>7, <1>8, <1>9, <1>10, <1>11, <1>12 DEF IInv

LEMMA FaultMapKeeps ==
    ASSUME IInv, NEW e \in Envs, FaultMap(e)
    PROVE  /\ IInv'
           /\ \A x \in Envs, y \in VA : pt'[x][y].f # 0 => At(x, y)' = At(x, y)
<1>1. PICK va \in VA, n \in Frames : va = flt[e].va /\ n = flt[e].tmp /\ n # 0
  BY Fields DEF IInv, Faulting, FaultOk, FaultMap
<1>2. /\ st[e] = "run" /\ flt[e].pc = "map"
      /\ st' = st /\ upcall' = upcall /\ fk' = fk /\ srv' = srv /\ mem' = Cleared
  BY DEF FaultMap
<1>3. /\ pt' = [pt EXCEPT ![e][va] = [f |-> n, perm |-> "w"]]
      /\ flt' = [flt EXCEPT ![e].pc = "unmap"]
  BY <1>1 DEF FaultMap
<1>4. /\ flt'[e].va = va /\ flt'[e].pc = "unmap" /\ flt'[e].tmp = n
      /\ \A x \in Envs \ {e} : flt'[x] = flt[x]
  BY <1>1, <1>3 DEF IInv, Typed, FaultState
<1>5. /\ pt'[e][va] = [f |-> n, perm |-> "w"] /\ pt'[e][va].f = n /\ pt'[e][va].perm = "w"
      /\ \A x \in Envs, y \in VA : x # e \/ y # va => pt'[x][y] = pt[x][y]
  BY <1>3 DEF IInv, Typed
<1>6. /\ pt[e][va].perm = "cow"
      /\ \A x \in Envs : pt[x][va].f # n
      /\ \A x \in Envs \ {e} : flt[x].va = va => flt[x].tmp # n
      /\ mem[va][n] = At(e, va)
      /\ fk[e].pc # "no" => va = "stack"
  BY <1>1, <1>2 DEF IInv, Faulting, FaultOk
<1>7. va \in {"buf", "stack"} BY <1>6, PageNames DEF IInv, Kinds, Kind
<1>8. Typed'
  <2>1. pt' \in [Envs -> [VA -> Page]] BY <1>3 DEF IInv, Typed, Page, Perms
  <2>2. flt' \in [Envs -> FaultState]
    <3>1. flt[e] \in FaultState BY DEF IInv, Typed
    <3>2. [flt[e] EXCEPT !.pc = "unmap"] \in FaultState BY <3>1 DEF FaultState
    <3> QED BY <1>3, <3>2 DEF IInv, Typed
  <2>3. mem' \in [VA -> [Frames -> Values]] BY <1>2, <2>1, <2>2, ClearedKeeps DEF IInv
  <2> QED BY <1>2, <2>1, <2>2, <2>3 DEF IInv, Typed
<1>9. /\ \A x \in Envs, y \in VA :
              pt'[x][y].f # 0 => mem'[y][pt'[x][y].f] = mem[y][pt'[x][y].f]
      /\ \A x \in Envs :
              flt'[x].tmp # 0 => mem'[flt'[x].va][flt'[x].tmp] = mem[flt'[x].va][flt'[x].tmp]
  BY <1>2, <1>8, ClearedKeeps DEF IInv, Typed
<1>10. \A x \in Envs, y \in VA : pt'[x][y].f # 0 => At(x, y)' = At(x, y)
  BY <1>5, <1>6, <1>9 DEF At
<1>11. Kinds' BY <1>5, <1>7, <1>1 DEF IInv, Kinds, Kind
<1>12. Living'
  <2>1. ASSUME NEW x \in Envs PROVE pt'[e][va].f # 0 /\ st[e] = "run"
    BY <1>1, <1>2, <1>5
  <2> QED BY <1>2, <1>4, <1>5, <2>1 DEF IInv, Living, LiveOk, Alive
<1>13. SomeAlive' /\ Children' /\ Handled'
  BY <1>2, <1>5 DEF IInv, SomeAlive, Alive, Children, Handled, HandleOk
<1>14. OneShared'
  BY <1>5, <1>7, PageNames DEF IInv, OneShared
<1>15. Serving'
  <2>1. srv.client \in Envs /\ "buf" \in VA BY Fields, PageNames DEF IInv
  <2>2. srv.pc = "serve" => pt'[srv.client]["buf"] = pt[srv.client]["buf"]
    BY <1>2, <1>5, <2>1, Running
  <2> QED BY <1>2, <2>2 DEF IInv, Serving
<1>16. Copies'
  <2> SUFFICES ASSUME NEW x \in Envs, fk[x].pc # "no", NEW c \in Envs, c = fk[x].child
               PROVE  /\ \A j \in 1 .. 4 : pt'[c][Vas[j]].f # 0 <=> Given(x, j)
                      /\ \A j \in 1 .. 3 : Given(x, j) => pt'[c][Vas[j]].f = pt'[x][Vas[j]].f
                      /\ Given(x, 4) => At(c, "stack")' \in fk[x].seen
                      /\ At(x, "stack")' \in fk[x].seen
                      /\ fk[x].pc \in {"child", "self"} => fk[x].pte \in Kind(Vas[fk[x].i])
                      /\ fk[x].pc = "self" => Vas[fk[x].i] \in {"buf", "stack"}
    <3>1. \A x \in Envs : fk[x].child \in Envs BY Fields DEF IInv
    <3> QED BY <1>2, <3>1 DEF Copies, CopyOk, Given, At
  <2>1. c # e /\ st[x] = "run" BY <1>2, Child
  <2>2. \A j \in 1 .. 4 : pt'[c][Vas[j]].f # 0 <=> Given(x, j)
    BY <1>5, <2>1, PageOrder DEF IInv, Copies, CopyOk
  <2>3. \A j \in 1 .. 3 : Given(x, j) => pt'[c][Vas[j]].f = pt'[x][Vas[j]].f
    <3> SUFFICES ASSUME NEW j \in 1 .. 3, Given(x, j)
                 PROVE  pt'[c][Vas[j]].f = pt'[x][Vas[j]].f
      OBVIOUS
    <3>1. Vas[j] \in VA /\ (x # e \/ Vas[j] # va) BY <1>6, PageOrder
    <3>2. pt'[c][Vas[j]] = pt[c][Vas[j]] /\ pt'[x][Vas[j]] = pt[x][Vas[j]]
      BY <1>5, <2>1, <3>1
    <3> QED BY <3>2 DEF IInv, Copies, CopyOk
  <2>4. "stack" \in VA /\ pt'[x]["stack"].f # 0
    BY <1>1, <1>5, <2>1, PageNames, Running
  <2>5. At(x, "stack")' \in fk[x].seen BY <1>10, <2>4 DEF IInv, Copies, CopyOk
  <2>6. Given(x, 4) => At(c, "stack")' \in fk[x].seen
    BY <1>10, <2>2, <2>4, PageNames DEF IInv, Copies, CopyOk
  <2> QED BY <2>2, <2>3, <2>5, <2>6 DEF IInv, Copies, CopyOk
<1>17. Faulting'
  <2>1. FaultOk(e)' BY <1>1, <1>2, <1>4, <1>5, <1>6 DEF FaultOk
  <2>2. ASSUME NEW x \in Envs \ {e} PROVE FaultOk(x)'
    <3>1. FaultOk(x) BY DEF IInv, Faulting
    <3>2. PICK y \in VA : y = flt[x].va BY Fields DEF IInv
    <3>3. pt'[x][y] = pt[x][y] BY <1>5
    <3>4. flt[x].pc \in {"copy", "map"} => \A z \in Envs : pt'[z][y].f # flt[x].tmp
      BY <1>5, <1>6, <3>1, <3>2 DEF FaultOk
    <3>5. flt[x].pc \in {"copy", "map", "unmap"} =>
             \A z \in Envs \ {x} : flt'[z].va = y => flt'[z].tmp # flt[x].tmp
      BY <1>1, <1>4, <3>1, <3>2 DEF FaultOk
    <3>6. flt[x].pc = "map" => mem'[y][flt[x].tmp] = At(x, y)'
      <4> SUFFICES ASSUME flt[x].pc = "map" PROVE mem'[y][flt[x].tmp] = At(x, y)'
        OBVIOUS
      <4>1. st[x] = "run" /\ flt[x].tmp # 0 /\ mem[y][flt[x].tmp] = At(x, y)
        BY <3>1, <3>2 DEF IInv, FaultOk, Living, LiveOk
      <4>2. pt'[x][y].f # 0 BY <3>3, <4>1, Running
      <4>3. mem'[y][flt[x].tmp] = mem[y][flt[x].tmp] BY <1>4, <1>9, <3>2, <4>1
      <4> QED BY <1>10, <4>1, <4>2, <4>3
    <3>7. flt'[x] = flt[x] /\ fk' = fk BY <1>2, <1>4
    <3>8. flt[x].pc = "map" => (mem[flt[x].va][flt[x].tmp] = At(x, flt[x].va))'
      BY <3>2, <3>6, <3>7 DEF At
    <3> QED BY <3>1, <3>2, <3>3, <3>4, <3>5, <3>7, <3>8 DEF FaultOk
  <2> QED BY <2>1, <2>2 DEF Faulting
<1>18. Isolated'
  <2>0. fk' = fk /\ st' = st BY <1>2
  <2> SUFFICES ASSUME NEW z \in Envs, NEW y \in VA, st[z] # "nomem",
                      pt'[z][y].f # 0, pt'[z][y].perm = "w", NEW x \in Envs \ {z}
               PROVE  /\ pt'[x][y].f = pt'[z][y].f =>
                            fk[z].pc = "self" /\ fk[z].child = x /\ Vas[fk[z].i] = y
                      /\ flt'[x].va = y => flt'[x].tmp # pt'[z][y].f
    BY <2>0 DEF Isolated
  <2>1. CASE z = e /\ y = va BY <1>4, <1>5, <1>6, <2>1
  <2>2. CASE ~(z = e /\ y = va)
    <3>1. pt'[z][y] = pt[z][y] BY <1>5, <2>2
    <3>2. CASE x = e /\ y = va
      <4>1. pt'[x][y].f # pt[z][y].f BY <1>5, <1>6, <3>2
      <4>2. flt'[x].va = y => flt'[x].tmp # pt[z][y].f BY <1>4, <1>6, <3>2
      <4> QED BY <3>1, <4>1, <4>2
    <3>3. CASE ~(x = e /\ y = va)
      <4>1. pt'[x][y] = pt[x][y] BY <1>5, <3>3
      <4>2. flt'[x].va = y => flt[x].va = y /\ flt'[x].tmp = flt[x].tmp
        BY <1>1, <1>4
      <4> QED BY <3>1, <4>1, <4>2 DEF IInv, Isolated
    <3> QED BY <3>2, <3>3
  <2> QED BY <2>1, <2>2
<1> QED
  BY <1>8, <1>10, <1>11, <1>12, <1>13, <1>14, <1>15, <1>16, <1>17, <1>18 DEF IInv

LEMMA FaultUnmapKeeps ==
    ASSUME IInv, NEW e \in Envs, FaultUnmap(e)
    PROVE  IInv'
<1>1. /\ st' = st /\ pt' = pt /\ mem' = mem /\ upcall' = upcall /\ fk' = fk /\ srv' = srv
      /\ flt' = [flt EXCEPT ![e] = NoFault]
  BY DEF FaultUnmap
<1>2. /\ flt'[e].pc = "no" /\ flt'[e].tmp = 0
      /\ \A x \in Envs \ {e} : flt'[x] = flt[x]
  BY <1>1 DEF IInv, Typed, NoFault
<1>3. Typed'
  <2>1. NoFault \in FaultState BY PageNames DEF NoFault, FaultState
  <2> QED BY <1>1, <2>1 DEF IInv, Typed
<1>4. Kinds' /\ SomeAlive' /\ Handled' /\ Children' /\ OneShared' /\ Serving'
  BY <1>1 DEF IInv, Kinds, SomeAlive, Alive, Handled, HandleOk, Children, OneShared, Serving
<1>5. Copies' BY <1>1 DEF IInv, Copies, CopyOk, Given, At
<1>6. Living' BY <1>1, <1>2 DEF IInv, Living, LiveOk, Alive
<1>7. Faulting'
  <2>1. FaultOk(e)' BY <1>2 DEF FaultOk
  <2>2. ASSUME NEW x \in Envs \ {e} PROVE FaultOk(x)'
    <3>1. FaultOk(x) BY DEF IInv, Faulting
    <3> QED BY <1>1, <1>2, <3>1 DEF FaultOk, At
  <2> QED BY <2>1, <2>2 DEF Faulting
<1>8. Isolated'
  <2>1. pt' = pt /\ fk' = fk /\ st' = st BY <1>1
  <2>2. \A x \in Envs : flt'[x].tmp = 0 \/ flt'[x] = flt[x] BY <1>2
  <2> QED BY <2>1, <2>2 DEF IInv, Isolated
<1> QED BY <1>3, <1>4, <1>5, <1>6, <1>7, <1>8 DEF IInv

\* An environment whose fork() is where it was, and whose memory and whose
\* child's are as they were.
LEMMA CopyStays ==
    ASSUME IInv, NEW x \in Envs, fk'[x] = fk[x], pt'[x] = pt[x],
           NEW c \in Envs, c = fk[x].child, fk[x].pc # "no" => pt'[c] = pt[c],
           pt[x]["stack"].f # 0 => At(x, "stack")' = At(x, "stack"),
           fk[x].pc # "no" /\ pt[c]["stack"].f # 0 => At(c, "stack")' = At(c, "stack")
    PROVE  CopyOk(x)'
<1> SUFFICES ASSUME fk[x].pc # "no" PROVE CopyOk(x)'
  BY DEF CopyOk
<1>1. CopyOk(x) BY DEF IInv, Copies
<1>2. "stack" \in VA /\ pt[x]["stack"].f # 0 BY Child, Running, PageNames
<1>3. At(x, "stack")' \in fk'[x].seen BY <1>1, <1>2 DEF CopyOk
<1>4. \A j \in 1 .. 4 : Given(x, j)' <=> Given(x, j) BY DEF Given
<1>5. Given(x, 4) => At(c, "stack")' \in fk'[x].seen
  <2>1. Given(x, 4) => pt[c]["stack"].f # 0 /\ At(c, "stack") \in fk[x].seen
    BY <1>1, PageNames DEF CopyOk
  <2> QED BY <2>1
<1>6. /\ \A j \in 1 .. 4 : pt'[c][Vas[j]].f # 0 <=> Given(x, j)'
      /\ \A j \in 1 .. 3 : Given(x, j)' => pt'[c][Vas[j]].f = pt'[x][Vas[j]].f
      /\ fk[x].pc \in {"child", "self"} => fk[x].pte \in Kind(Vas[fk[x].i])
      /\ fk[x].pc = "self" => Vas[fk[x].i] \in {"buf", "stack"}
  BY <1>1, <1>4 DEF CopyOk
<1>7. (At(fk[x].child, "stack") = At(c, "stack"))' BY DEF At
<1>8. fk'[x].child = c OBVIOUS
<1>9. Given(x, 4)' => At(fk[x].child, "stack")' \in fk'[x].seen
  BY <1>4, <1>5, <1>7
<1> QED BY <1>3, <1>6, <1>8, <1>9 DEF CopyOk

\* An environment whose page fault is where it was, and nothing it is about
\* has changed.
LEMMA FaultStays ==
    ASSUME IInv, NEW x \in Envs, flt' = flt, pt'[x] = pt[x],
           fk[x].pc = "no" /\ flt[x].pc # "no" => fk'[x].pc = "no",
           \A z \in Envs : flt[x].pc \in {"copy", "map"} =>
               pt'[z][flt[x].va].f # flt[x].tmp,
           \A y \in VA : pt[x][y].f # 0 /\ flt[x].va = y =>
               At(x, y)' = At(x, y),
           \A y \in VA, f \in Frames : flt[x].va = y /\ flt[x].tmp = f =>
               mem'[y][f] = mem[y][f]
    PROVE  FaultOk(x)'
<1>1. FaultOk(x) BY DEF IInv, Faulting
<1>2. flt[x].pc = "map" => (mem[flt[x].va][flt[x].tmp] = At(x, flt[x].va))'
  <2> SUFFICES ASSUME flt[x].pc = "map"
               PROVE  (mem[flt[x].va][flt[x].tmp] = At(x, flt[x].va))'
    OBVIOUS
  <2>1. PICK y \in VA : y = flt[x].va BY Fields DEF IInv
  <2>2. st[x] = "run" /\ flt[x].tmp # 0 /\ mem[y][flt[x].tmp] = At(x, y)
    BY <1>1, <2>1 DEF IInv, FaultOk, Living, LiveOk
  <2>3. flt[x].tmp \in Frames /\ pt[x][y].f # 0
    BY <2>2, Fields, Running DEF IInv
  <2>4. mem'[y][flt[x].tmp] = At(x, y)' BY <2>1, <2>2, <2>3
  <2> QED BY <2>1, <2>4 DEF At
<1> QED BY <1>1, <1>2 DEF FaultOk

LEMMA ForkNoEnvKeeps ==
    ASSUME IInv, NEW e \in Envs, ForkNoEnv(e)
    PROVE  IInv'
<1>1. /\ st' = st /\ pt' = pt /\ mem' = mem /\ fk' = fk /\ flt' = flt /\ srv' = srv
      /\ upcall' = [upcall EXCEPT ![e] = TRUE]
  BY DEF ForkNoEnv
<1>2. \A x \in Envs : upcall[x] => upcall'[x] BY <1>1 DEF IInv, Typed
<1>3. Typed' BY <1>1 DEF IInv, Typed
<1>4. Kinds' /\ SomeAlive' /\ Children' /\ OneShared' /\ Serving' /\ Isolated' /\ Living'
  BY <1>1
     DEF IInv, Kinds, SomeAlive, Alive, Children, OneShared, Serving, Isolated, Living, LiveOk
<1>5. Handled'
  <2>1. \A x \in Envs : fk[x].child \in Envs BY Fields DEF IInv
  <2> QED BY <1>1, <1>2, <2>1 DEF IInv, Handled, HandleOk, Alive
<1>6. Copies' BY <1>1 DEF IInv, Copies, CopyOk, Given, At
<1>7. Faulting' BY <1>1 DEF IInv, Faulting, FaultOk, At
<1> QED BY <1>3, <1>4, <1>5, <1>6, <1>7 DEF IInv

LEMMA ForkBeginKeeps ==
    ASSUME IInv, NEW e \in Envs, NEW c \in Envs, ForkBegin(e, c)
    PROVE  IInv'
<1>1. /\ st[e] = "run" /\ flt[e].pc = "no" /\ fk[e].pc = "no" /\ st[c] = "free" /\ c # e
      /\ pt' = pt /\ mem' = mem /\ flt' = flt /\ srv' = srv
      /\ upcall' = [upcall EXCEPT ![e] = TRUE, ![c] = FALSE]
      /\ st' = [st EXCEPT ![c] = "embryo"]
      /\ fk' = [fk EXCEPT ![e] = [pc |-> "pte", child |-> c, i |-> 1, pte |-> "r",
                                  seen |-> {At(e, "stack")}]]
  BY DEF ForkBegin, Idle, Runs
<1>2. /\ st'[c] = "embryo" /\ \A x \in Envs \ {c} : st'[x] = st[x]
      /\ upcall'[e] /\ \A x \in Envs \ {e, c} : upcall'[x] = upcall[x]
      /\ fk'[e].pc = "pte" /\ fk'[e].child = c /\ fk'[e].i = 1
      /\ fk'[e].seen = {At(e, "stack")}
      /\ \A x \in Envs \ {e} : fk'[x] = fk[x]
  BY <1>1 DEF IInv, Typed
<1>3. /\ \A x \in Envs : fk[x].pc # "no" => fk[x].child # c
      /\ fk[c].pc = "no" /\ flt[c].pc = "no"
      /\ \A va \in VA : pt[c][va] = Unmapped /\ pt[c][va].f = 0 /\ pt[c][va].perm = "r"
      /\ srv.pc = "serve" => srv.client # c
  <2>1. \A va \in VA : pt[c][va] = Unmapped BY <1>1 DEF IInv, Living, LiveOk
  <2>2. Unmapped.f = 0 /\ Unmapped.perm = "r" BY DEF Unmapped
  <2>3. /\ \A x \in Envs : fk[x].pc # "no" => fk[x].child # c
        /\ srv.pc = "serve" => srv.client # c
    BY <1>1 DEF IInv, Children, Serving
  <2> QED BY <1>1, <2>1, <2>2, <2>3 DEF IInv, Living, LiveOk
<1>4. At(e, "stack") \in Values
  <2>1. "stack" \in VA /\ pt[e]["stack"].f \in Frames BY <1>1, PageNames, Running
  <2> QED BY <2>1 DEF IInv, Typed, At
<1>5. Typed'
  <2>1. st' \in [Envs -> {"free", "embryo", "run", "wait", "panic", "nomem", "killed"}]
    BY <1>1 DEF IInv, Typed
  <2>2. upcall' \in [Envs -> BOOLEAN] BY <1>1 DEF IInv, Typed
  <2>3. [pc |-> "pte", child |-> c, i |-> 1, pte |-> "r", seen |-> {At(e, "stack")}]
            \in ForkState
    BY <1>4 DEF ForkState, Perms
  <2>4. fk' \in [Envs -> ForkState] BY <1>1, <2>3 DEF IInv, Typed
  <2> QED BY <1>1, <2>1, <2>2, <2>4 DEF IInv, Typed
<1>6. Kinds' /\ OneShared' BY <1>1 DEF IInv, Kinds, OneShared
<1>7. Living'
  <2> SUFFICES ASSUME NEW x \in Envs PROVE LiveOk(x)' BY DEF Living
  <2>1. LiveOk(x) BY DEF IInv, Living
  <2>2. CASE x = c BY <1>1, <1>2, <1>3, <2>1, <2>2 DEF LiveOk, Alive
  <2>3. CASE x = e BY <1>1, <1>2, <2>1, <2>3 DEF LiveOk, Alive
  <2>4. CASE x \notin {c, e} BY <1>1, <1>2, <2>1, <2>4 DEF LiveOk, Alive
  <2> QED BY <2>2, <2>3, <2>4
<1>8. SomeAlive' BY <1>1, <1>2 DEF SomeAlive, Alive
<1>9. Handled'
  <2> SUFFICES ASSUME NEW x \in Envs PROVE HandleOk(x)' BY DEF Handled
  <2>1. HandleOk(x) /\ fk[x].child \in Envs BY Fields DEF IInv, Handled
  <2>2. CASE x = c BY <1>1, <1>2, <1>3, <2>2 DEF HandleOk, Alive
  <2>3. CASE x = e BY <1>1, <1>2, <2>3 DEF HandleOk
  <2>4. CASE x \notin {c, e}
    <3>1. fk'[x] = fk[x] /\ st'[x] = st[x] /\ upcall'[x] = upcall[x] BY <1>2, <2>4
    <3>2. PICK d \in Envs : d = fk[x].child BY <2>1
    <3>3. fk[x].pc # "no" /\ upcall[d] => upcall'[d] BY <1>2, <1>3, <3>2
    <3> QED BY <1>1, <2>1, <3>1, <3>2, <3>3 DEF HandleOk, Alive
  <2> QED BY <2>2, <2>3, <2>4
<1>10. Children' BY <1>1, <1>2, <1>3 DEF IInv, Children
<1>11. Serving' BY <1>1, <1>2, <1>3, Fields DEF IInv, Serving
<1>12. Isolated' BY <1>1, <1>2 DEF IInv, Isolated
<1>13. Copies'
  <2>1. CopyOk(e)'
    <3>1. \A j \in 1 .. 4 : ~Given(e, j)' BY <1>2 DEF Given
    <3>2. \A j \in 1 .. 4 : pt[c][Vas[j]].f = 0 BY <1>3, PageOrder
    <3>3. At(e, "stack")' = At(e, "stack") BY <1>1 DEF At
    <3> QED BY <1>1, <1>2, <3>1, <3>2, <3>3 DEF CopyOk
  <2>2. ASSUME NEW x \in Envs \ {e} PROVE CopyOk(x)'
    <3>1. PICK d \in Envs : d = fk[x].child BY Fields DEF IInv
    <3>2. At(x, "stack")' = At(x, "stack") /\ At(d, "stack")' = At(d, "stack")
      BY <1>1 DEF At
    <3> QED BY <1>1, <1>2, <3>1, <3>2, CopyStays
  <2> QED BY <2>1, <2>2 DEF Copies
<1>14. Faulting'
  <2> SUFFICES ASSUME NEW x \in Envs PROVE FaultOk(x)' BY DEF Faulting
  <2>1. FaultOk(x) BY DEF IInv, Faulting
  <2>2. flt[x].pc # "no" => fk'[x] = fk[x] BY <1>1, <1>2
  <2> QED BY <1>1, <2>1, <2>2 DEF FaultOk, At
<1> QED
  BY <1>5, <1>6, <1>7, <1>8, <1>9, <1>10, <1>11, <1>12, <1>13, <1>14 DEF IInv

\* A step of fork() in which only fk[e] changes.
LEMMA ForkStepKeeps ==
    ASSUME IInv, NEW e \in Envs, fk[e].pc # "no", fk' \in [Envs -> ForkState],
           \A x \in Envs \ {e} : fk'[x] = fk[x],
           st' = st, pt' = pt, mem' = mem, upcall' = upcall, flt' = flt, srv' = srv,
           flt[e].pc = "no", fk[e].pc # "self",
           fk'[e].pc # "no" => /\ fk'[e].child = fk[e].child /\ fk'[e].i \in 1 .. 4
                               /\ fk'[e].pc # "status",
           fk'[e].pc = "no" <=> fk'[e].seen = {},
           CopyOk(e)'
    PROVE  IInv'
<1>1. Typed' BY DEF IInv, Typed
<1>2. Kinds' /\ OneShared' /\ SomeAlive' /\ Serving'
  BY DEF IInv, Kinds, OneShared, SomeAlive, Alive, Serving
<1>3. Living'
  <2>1. st[e] = "run" BY DEF IInv, Living, LiveOk
  <2> QED BY <2>1 DEF IInv, Living, LiveOk, Alive
<1>4. Handled' BY DEF IInv, Handled, HandleOk, Alive
<1>5. Children' BY DEF IInv, Children
<1>6. Isolated' BY DEF IInv, Isolated
<1>7. Copies'
  <2> SUFFICES ASSUME NEW x \in Envs \ {e} PROVE CopyOk(x)' BY DEF Copies
  <2>1. PICK d \in Envs : d = fk[x].child BY Fields DEF IInv
  <2>2. At(x, "stack")' = At(x, "stack") /\ At(d, "stack")' = At(d, "stack") BY DEF At
  <2> QED BY <2>1, <2>2, CopyStays
<1>8. Faulting'
  <2> SUFFICES ASSUME NEW x \in Envs PROVE FaultOk(x)' BY DEF Faulting
  <2>1. FaultOk(x) BY DEF IInv, Faulting
  <2>2. flt[x].pc # "no" => fk'[x] = fk[x] OBVIOUS
  <2> QED BY <2>1, <2>2 DEF FaultOk, At
<1> QED BY <1>1, <1>2, <1>3, <1>4, <1>5, <1>6, <1>7, <1>8 DEF IInv

LEMMA ForkPteKeeps ==
    ASSUME IInv, NEW e \in Envs, ForkPte(e)
    PROVE  IInv'
<1>1. PICK i \in 1 .. 4 : i = fk[e].i BY DEF IInv, Children, ForkPte
<1>2. PICK va \in VA : va = Vas[i] BY PageOrder
<1>3. PICK c \in Envs : c = fk[e].child BY Fields DEF IInv
<1>4. st[e] = "run" /\ flt[e].pc = "no" /\ fk[e].pc = "pte"
  BY DEF ForkPte, Forks, Runs
<1>5. pt[e][va].f # 0 /\ pt[e][va].perm \in Kind(va) /\ pt[e][va].perm \in Perms
  BY <1>4, Running, Fields DEF IInv, Kinds
<1>6. /\ st' = st /\ pt' = pt /\ mem' = mem /\ upcall' = upcall /\ flt' = flt /\ srv' = srv
      /\ fk' = [fk EXCEPT ![e].pte = pt[e][va].perm, ![e].pc = "child"]
  BY <1>1, <1>2, <1>5 DEF ForkPte
<1>7. fk' \in [Envs -> ForkState]
  <2>1. fk[e] \in ForkState BY DEF IInv, Typed
  <2>2. [fk[e] EXCEPT !.pte = pt[e][va].perm, !.pc = "child"] \in ForkState
    BY <1>5, <2>1 DEF ForkState
  <2> QED BY <1>6, <2>2 DEF IInv, Typed
<1>8. /\ \A x \in Envs \ {e} : fk'[x] = fk[x]
      /\ fk'[e].pc = "child" /\ fk'[e].child = c /\ fk'[e].i = i
      /\ fk'[e].pte = pt[e][va].perm /\ fk'[e].seen = fk[e].seen
  BY <1>1, <1>3, <1>6 DEF IInv, Typed, ForkState
<1>9. CopyOk(e)'
  <2>1. CopyOk(e) BY DEF IInv, Copies
  <2>2. \A j \in 1 .. 4 : Given(e, j)' <=> Given(e, j) BY <1>1, <1>4, <1>8 DEF Given
  <2>3. At(c, "stack")' = At(c, "stack") /\ At(e, "stack")' = At(e, "stack")
    BY <1>6 DEF At
  <2>4. /\ \A j \in 1 .. 4 : pt'[c][Vas[j]].f # 0 <=> Given(e, j)'
        /\ \A j \in 1 .. 3 : Given(e, j)' => pt'[c][Vas[j]].f = pt'[e][Vas[j]].f
        /\ Given(e, 4)' => At(c, "stack")' \in fk'[e].seen
        /\ At(e, "stack")' \in fk'[e].seen
    <3>1. /\ \A j \in 1 .. 4 : pt[c][Vas[j]].f # 0 <=> Given(e, j)
          /\ \A j \in 1 .. 3 : Given(e, j) => pt[c][Vas[j]].f = pt[e][Vas[j]].f
          /\ Given(e, 4) => At(c, "stack") \in fk[e].seen
          /\ At(e, "stack") \in fk[e].seen
      BY <1>3, <1>4, <2>1 DEF CopyOk
    <3>2. pt' = pt /\ fk'[e].seen = fk[e].seen /\ \A j \in 1 .. 3 : j \in 1 .. 4
      BY <1>6, <1>8
    <3> QED BY <2>2, <2>3, <3>1, <3>2
  <2>5. fk'[e].pte \in Kind(Vas[fk'[e].i]) /\ fk'[e].pc # "self" BY <1>2, <1>5, <1>8
  <2>6. (At(fk[e].child, "stack") = At(c, "stack"))' BY <1>8 DEF At
  <2> QED BY <1>8, <2>4, <2>5, <2>6 DEF CopyOk
<1>10. fk[e].seen # {} BY <1>4 DEF IInv, Living, LiveOk
<1> QED BY <1>1, <1>3, <1>4, <1>6, <1>7, <1>8, <1>9, <1>10, ForkStepKeeps

LEMMA ForkNoMemKeeps ==
    ASSUME IInv, NEW e \in Envs, ForkNoMem(e)
    PROVE  IInv'
<1>1. /\ flt[e].pc = "no" /\ fk[e].pc \in {"child", "xstack"}
      /\ st' = st /\ pt' = pt /\ mem' = mem /\ upcall' = upcall /\ flt' = flt /\ srv' = srv
      /\ fk' = [fk EXCEPT ![e] = NotForking]
  BY DEF ForkNoMem, Forks, Runs
<1>2. NotForking \in ForkState
  BY CowForkAssumption DEF NotForking, ForkState, Perms
<1>3. fk' \in [Envs -> ForkState] BY <1>1, <1>2 DEF IInv, Typed
<1>4. /\ \A x \in Envs \ {e} : fk'[x] = fk[x]
      /\ fk'[e].pc = "no" /\ fk'[e].seen = {}
  BY <1>1 DEF IInv, Typed, NotForking
<1>5. CopyOk(e)' BY <1>4 DEF CopyOk
<1> QED BY <1>1, <1>3, <1>4, <1>5, ForkStepKeeps

LEMMA ForkUpcallKeeps ==
    ASSUME IInv, NEW e \in Envs, ForkUpcall(e)
    PROVE  IInv'
<1>1. PICK c \in Envs : c = fk[e].child BY Fields DEF IInv
<1>2. /\ st[e] = "run" /\ flt[e].pc = "no" /\ fk[e].pc = "xstack"
      /\ st' = st /\ pt' = pt /\ mem' = mem /\ flt' = flt /\ srv' = srv
      /\ upcall' = [upcall EXCEPT ![c] = TRUE]
      /\ fk' = [fk EXCEPT ![e].pc = "status"]
  BY <1>1 DEF ForkUpcall, Forks, Runs
<1>3. fk' \in [Envs -> ForkState]
  <2>1. fk[e] \in ForkState BY DEF IInv, Typed
  <2>2. [fk[e] EXCEPT !.pc = "status"] \in ForkState BY <2>1 DEF ForkState
  <2> QED BY <1>2, <2>2 DEF IInv, Typed
<1>4. /\ \A x \in Envs \ {e} : fk'[x] = fk[x]
      /\ fk'[e].pc = "status" /\ fk'[e].child = c /\ fk'[e].i = fk[e].i
      /\ fk'[e].seen = fk[e].seen
  BY <1>1, <1>2 DEF IInv, Typed, ForkState
<1>5. \A x \in Envs : upcall[x] \/ x = c => upcall'[x] BY <1>2 DEF IInv, Typed
<1>6. Typed' BY <1>2, <1>3 DEF IInv, Typed
<1>7. Kinds' /\ OneShared' /\ SomeAlive' /\ Serving'
  BY <1>2 DEF IInv, Kinds, OneShared, SomeAlive, Alive, Serving
<1>8. Living' BY <1>2, <1>4 DEF IInv, Living, LiveOk, Alive
<1>9. Handled'
  <2> SUFFICES ASSUME NEW x \in Envs PROVE HandleOk(x)' BY DEF Handled
  <2>1. HandleOk(x) /\ HandleOk(e) BY DEF IInv, Handled
  <2>2. CASE x = e BY <1>2, <1>4, <1>5, <2>1, <2>2 DEF HandleOk
  <2>3. CASE x # e
    <3>1. PICK d \in Envs : d = fk[x].child BY Fields DEF IInv
    <3> QED BY <1>2, <1>4, <1>5, <2>1, <2>3, <3>1 DEF HandleOk, Alive
  <2> QED BY <2>2, <2>3
<1>10. Children' BY <1>1, <1>2, <1>4 DEF IInv, Children
<1>11. Isolated' BY <1>2, <1>4 DEF IInv, Isolated
<1>12. Copies'
  <2>1. CopyOk(e)'
    <3>1. CopyOk(e) BY DEF IInv, Copies
    <3>2. \A j \in 1 .. 4 : Given(e, j)' /\ Given(e, j) BY <1>2, <1>4 DEF Given
    <3>3. At(c, "stack")' = At(c, "stack") /\ At(e, "stack")' = At(e, "stack")
      BY <1>2 DEF At
    <3>4. /\ \A j \in 1 .. 4 : pt[c][Vas[j]].f # 0
          /\ \A j \in 1 .. 3 : pt[c][Vas[j]].f = pt[e][Vas[j]].f
          /\ At(c, "stack") \in fk[e].seen /\ At(e, "stack") \in fk[e].seen
      BY <1>1, <1>2, <3>1, <3>2 DEF CopyOk
    <3>5. (At(fk[e].child, "stack") = At(c, "stack"))' BY <1>4 DEF At
    <3>6. pt' = pt /\ \A j \in 1 .. 3 : j \in 1 .. 4 BY <1>2
    <3> QED BY <1>4, <3>2, <3>3, <3>4, <3>5, <3>6 DEF CopyOk
  <2>2. ASSUME NEW x \in Envs \ {e} PROVE CopyOk(x)'
    <3>1. PICK d \in Envs : d = fk[x].child BY Fields DEF IInv
    <3>2. At(x, "stack")' = At(x, "stack") /\ At(d, "stack")' = At(d, "stack")
      BY <1>2 DEF At
    <3> QED BY <1>2, <1>4, <3>1, <3>2, CopyStays
  <2> QED BY <2>1, <2>2 DEF Copies
<1>13. Faulting'
  <2> SUFFICES ASSUME NEW x \in Envs PROVE FaultOk(x)' BY DEF Faulting
  <2>1. FaultOk(x) BY DEF IInv, Faulting
  <2>2. flt[x].pc # "no" => fk'[x] = fk[x] BY <1>2, <1>4
  <2> QED BY <1>2, <2>1, <2>2 DEF FaultOk, At
<1> QED
  BY <1>6, <1>7, <1>8, <1>9, <1>10, <1>11, <1>12, <1>13 DEF IInv

LEMMA ForkStatusKeeps ==
    ASSUME IInv, NEW e \in Envs, ForkStatus(e)
    PROVE  IInv'
<1>1. PICK c \in Envs : c = fk[e].child BY Fields DEF IInv
<1>2. /\ st[e] = "run" /\ flt[e].pc = "no" /\ fk[e].pc = "status"
      /\ pt' = pt /\ mem' = mem /\ upcall' = upcall /\ flt' = flt /\ srv' = srv
      /\ st' = [st EXCEPT ![c] = "run"]
      /\ fk' = [fk EXCEPT ![e] = NotForking]
  BY <1>1 DEF ForkStatus, Forks, Runs
<1>3. /\ c # e /\ st[c] = "embryo" /\ fk[c].pc = "no" /\ flt[c].pc = "no"
      /\ \A x \in Envs \ {e} : fk[x].pc # "no" => fk[x].child # c
      /\ srv.pc = "serve" => srv.client # c
  BY <1>1, <1>2, Child
<1>4. /\ st'[c] = "run" /\ \A x \in Envs \ {c} : st'[x] = st[x]
      /\ fk'[e].pc = "no" /\ fk'[e].seen = {} /\ \A x \in Envs \ {e} : fk'[x] = fk[x]
  BY <1>2 DEF IInv, Typed, NotForking
<1>5. \A va \in VA : pt[c][va].f # 0
  <2>1. CopyOk(e) BY DEF IInv, Copies
  <2>2. \A j \in 1 .. 4 : pt[c][Vas[j]].f # 0 BY <1>1, <1>2, <2>1 DEF CopyOk, Given
  <2> QED BY <2>2, PageOrder
<1>6. Typed'
  <2>1. NotForking \in ForkState
    BY CowForkAssumption DEF NotForking, ForkState, Perms
  <2> QED BY <1>2, <2>1 DEF IInv, Typed
<1>7. Kinds' /\ OneShared' BY <1>2 DEF IInv, Kinds, OneShared
<1>8. SomeAlive' BY <1>4 DEF SomeAlive, Alive
<1>9. Living'
  <2> SUFFICES ASSUME NEW x \in Envs PROVE LiveOk(x)' BY DEF Living
  <2>1. LiveOk(x) BY DEF IInv, Living
  <2>2. CASE x = c BY <1>2, <1>3, <1>4, <1>5, <2>1, <2>2 DEF LiveOk
  <2>3. CASE x = e BY <1>2, <1>3, <1>4, <2>1, <2>3 DEF LiveOk, Alive
  <2>4. CASE x \notin {c, e} BY <1>2, <1>4, <2>1, <2>4 DEF LiveOk, Alive
  <2> QED BY <2>2, <2>3, <2>4
<1>10. Handled'
  <2> SUFFICES ASSUME NEW x \in Envs PROVE HandleOk(x)' BY DEF Handled
  <2>1. HandleOk(x) /\ HandleOk(e) BY DEF IInv, Handled
  <2>2. CASE x = c BY <1>1, <1>2, <1>3, <1>4, <2>1, <2>2 DEF HandleOk
  <2>3. CASE x = e BY <1>2, <1>4, <2>1, <2>3 DEF HandleOk
  <2>4. CASE x \notin {c, e} BY <1>2, <1>4, <2>1, <2>4 DEF HandleOk, Alive
  <2> QED BY <2>2, <2>3, <2>4
<1>11. Children'
  <2>1. \A x \in Envs : fk'[x].pc # "no" => x # e /\ fk[x].child # c /\ fk'[x] = fk[x]
    BY <1>3, <1>4
  <2>2. \A x \in Envs : fk[x].child \in Envs BY Fields DEF IInv
  <2> QED BY <1>4, <2>1, <2>2 DEF IInv, Children
<1>12. Serving' BY <1>2, <1>3, <1>4, Fields DEF IInv, Serving
<1>13. Isolated' BY <1>2, <1>3, <1>4 DEF IInv, Isolated
<1>14. Copies'
  <2>1. CopyOk(e)' BY <1>4 DEF CopyOk
  <2>2. ASSUME NEW x \in Envs \ {e} PROVE CopyOk(x)'
    <3>1. PICK d \in Envs : d = fk[x].child BY Fields DEF IInv
    <3>2. At(x, "stack")' = At(x, "stack") /\ At(d, "stack")' = At(d, "stack")
      BY <1>2 DEF At
    <3> QED BY <1>2, <1>4, <3>1, <3>2, CopyStays
  <2> QED BY <2>1, <2>2 DEF Copies
<1>15. Faulting'
  <2> SUFFICES ASSUME NEW x \in Envs PROVE FaultOk(x)' BY DEF Faulting
  <2>1. FaultOk(x) BY DEF IInv, Faulting
  <2>2. flt[x].pc # "no" => fk'[x] = fk[x] BY <1>2, <1>4
  <2> QED BY <1>2, <2>1, <2>2 DEF FaultOk, At
<1> QED
  BY <1>6, <1>7, <1>8, <1>9, <1>10, <1>11, <1>12, <1>13, <1>14, <1>15 DEF IInv

LEMMA ForkChildKeeps ==
    ASSUME IInv, NEW e \in Envs, ForkChild(e)
    PROVE  /\ IInv'
           /\ \A x \in Envs, y \in VA : Alive(x) => At(x, y)' = At(x, y)
<1>1. PICK i \in 1 .. 4 : i = fk[e].i BY DEF IInv, Children, ForkChild
<1>2. PICK va \in VA : va = Vas[i] BY PageOrder
<1>3. PICK c \in Envs : c = fk[e].child BY Fields DEF IInv
<1>4. PICK pte \in Perms : pte = fk[e].pte BY Fields DEF IInv
<1>5. PICK f \in Frames : f = pt[e][va].f /\ f # 0
  BY Running DEF ForkChild, Forks, Runs
<1>6. /\ st[e] = "run" /\ flt[e].pc = "no" /\ fk[e].pc = "child"
      /\ pte \in Kind(va)
  BY <1>1, <1>2, <1>4 DEF ForkChild, Forks, Runs, IInv, Copies, CopyOk
<1>7. PICK perm \in Perms : perm = ChildPerm(pte)
  BY DEF ChildPerm, Perms
<1>8. /\ st' = st /\ mem' = mem /\ upcall' = upcall /\ flt' = flt /\ srv' = srv
      /\ pt' = [pt EXCEPT ![c][va] = [f |-> f, perm |-> perm]]
      /\ fk' = IF pte \in {"w", "cow"} THEN [fk EXCEPT ![e].pc = "self"] ELSE ForkNext(e)
  BY <1>1, <1>2, <1>3, <1>4, <1>5, <1>7 DEF ForkChild, MapsSelf
\* Either the parent's entry is next, or the next page is.
<1>9. /\ perm # "w" /\ perm \in Kind(va)
      /\ pte \in {"w", "cow"} => va \in {"buf", "stack"}
      /\ pte \notin {"w", "cow"} => va \notin {"buf", "stack"} /\ i # 4
  <2>1. perm # "w" /\ perm \in Kind(va)
    BY <1>6, <1>7, PageNames DEF ChildPerm, Kind
  <2> QED BY <1>2, <1>6, <2>1, PageNames DEF Kind
<1>10. /\ fk' \in [Envs -> ForkState]
       /\ \A x \in Envs \ {e} : fk'[x] = fk[x]
       /\ fk'[e].child = c /\ fk'[e].seen = fk[e].seen /\ fk'[e].pte = pte
       /\ \/ /\ pte \in {"w", "cow"} /\ fk'[e].pc = "self" /\ fk'[e].i = i
          \/ /\ pte \notin {"w", "cow"} /\ fk'[e].pc = "pte" /\ fk'[e].i = i + 1
             /\ i + 1 \in 1 .. 4
  <2>1. fk[e] \in ForkState BY DEF IInv, Typed
  <2>2. CASE pte \in {"w", "cow"}
    <3>1. fk' = [fk EXCEPT ![e].pc = "self"] BY <1>8, <2>2
    <3>2. [fk[e] EXCEPT !.pc = "self"] \in ForkState BY <2>1 DEF ForkState
    <3>3. fk' \in [Envs -> ForkState] BY <3>1, <3>2 DEF IInv, Typed
    <3>4. \A x \in Envs \ {e} : fk'[x] = fk[x] BY <3>1 DEF IInv, Typed
    <3>5. /\ fk'[e].pc = "self" /\ fk'[e].child = fk[e].child /\ fk'[e].i = fk[e].i
          /\ fk'[e].pte = fk[e].pte /\ fk'[e].seen = fk[e].seen
      BY <2>1, <3>1 DEF IInv, Typed, ForkState
    <3> QED BY <1>1, <1>3, <1>4, <2>2, <3>3, <3>4, <3>5
  <2>3. CASE pte \notin {"w", "cow"}
    <3>1. fk' = [fk EXCEPT ![e].pc = "pte", ![e].i = @ + 1]
      BY <1>1, <1>8, <1>9, <2>3, PageNames DEF ForkNext
    <3>2. i + 1 \in 1 .. 4 /\ i + 1 \in 0 .. 4 BY <1>9, <2>3
    <3>3. [fk[e] EXCEPT !.pc = "pte", !.i = @ + 1] \in ForkState
      BY <1>1, <2>1, <3>2 DEF ForkState
    <3>4. fk' \in [Envs -> ForkState] BY <3>1, <3>3 DEF IInv, Typed
    <3> QED BY <1>1, <1>3, <1>4, <2>1, <2>3, <3>1, <3>2, <3>4 DEF IInv, Typed, ForkState
  <2> QED BY <2>2, <2>3
<1>11. /\ pt'[c][va] = [f |-> f, perm |-> perm] /\ pt'[c][va].f = f /\ pt'[c][va].perm = perm
       /\ \A x \in Envs, y \in VA : x # c \/ y # va => pt'[x][y] = pt[x][y]
       /\ \A x \in Envs \ {c} : pt'[x] = pt[x]
  BY <1>8 DEF IInv, Typed
<1>12. /\ c # e /\ st[c] = "embryo" /\ fk[c].pc = "no" /\ flt[c].pc = "no" /\ flt[c].tmp = 0
       /\ \A y \in VA : pt[c][y].perm # "w"
       /\ \A x \in Envs \ {e} : fk[x].pc # "no" => fk[x].child # c
       /\ srv.pc = "serve" => srv.client # c
  BY <1>3, <1>6, Child
<1>13. Typed'
  <2>1. pt' \in [Envs -> [VA -> Page]] BY <1>8 DEF IInv, Typed, Page
  <2> QED BY <1>8, <1>10, <2>1 DEF IInv, Typed
<1>14. Kinds' BY <1>5, <1>9, <1>11 DEF IInv, Kinds
<1>15. Living'
  <2> SUFFICES ASSUME NEW x \in Envs PROVE LiveOk(x)' BY DEF Living
  <2>1. LiveOk(x) BY DEF IInv, Living
  <2>2. CASE x = c
    <3>1. \A y \in VA : pt'[c][y].perm # "w" BY <1>9, <1>11, <1>12
    <3> QED BY <1>8, <1>10, <1>12, <2>1, <2>2, <3>1 DEF LiveOk, Alive
  <2>3. CASE x = e BY <1>6, <1>8, <1>10, <1>11, <1>12, <2>1, <2>3 DEF LiveOk, Alive
  <2>4. CASE x \notin {c, e} BY <1>8, <1>10, <1>11, <2>1, <2>4 DEF LiveOk, Alive
  <2> QED BY <2>2, <2>3, <2>4
<1>16. SomeAlive' BY <1>8 DEF IInv, SomeAlive, Alive
<1>17. Handled'
  <2> SUFFICES ASSUME NEW x \in Envs PROVE HandleOk(x)' BY DEF Handled
  <2>1. HandleOk(x) BY DEF IInv, Handled
  <2>2. CASE x = c BY <1>8, <1>10, <1>12, <2>2 DEF HandleOk, Alive
  <2>3. CASE x = e BY <1>6, <1>8, <1>10, <2>1, <2>3 DEF HandleOk
  <2>4. CASE x \notin {c, e} BY <1>8, <1>10, <1>11, <2>1, <2>4 DEF HandleOk, Alive
  <2> QED BY <2>2, <2>3, <2>4
<1>18. Children' BY <1>1, <1>3, <1>6, <1>8, <1>10 DEF IInv, Children
<1>19. Serving'
  <2>1. srv.client \in Envs /\ "buf" \in VA BY Fields, PageNames DEF IInv
  <2> QED BY <1>8, <1>11, <1>12, <2>1 DEF IInv, Serving
<1>20. OneShared'
  <2> SUFFICES ASSUME NEW x \in Envs, NEW z \in Envs,
                      pt'[x]["share"].f # 0, pt'[z]["share"].f # 0
               PROVE  pt'[x]["share"].f = pt'[z]["share"].f
    BY DEF OneShared
  <2>1. CASE va # "share" BY <1>11, <2>1, PageNames DEF IInv, OneShared
  <2>2. CASE va = "share"
    <3>1. \A y \in Envs : pt[y]["share"].f # 0 => pt[y]["share"].f = f
      BY <1>5, <2>2 DEF IInv, OneShared
    <3> QED BY <1>11, <2>2, <3>1
  <2> QED BY <2>1, <2>2
<1>21. \A x \in Envs, y \in VA : pt[x][y].f # 0 /\ (x # c \/ y # va) => At(x, y)' = At(x, y)
  BY <1>8, <1>11 DEF At
<1>22. Copies'
  <2>1. CopyOk(e)'
    <3>1. CopyOk(e) BY DEF IInv, Copies
    <3>2. \A j \in 1 .. 4 : Given(e, j)' <=> Given(e, j) \/ j = i
      BY <1>1, <1>6, <1>10 DEF Given
    <3>3. \A j \in 1 .. 4 : /\ j = i => pt'[c][Vas[j]].f = f /\ pt'[e][Vas[j]].f = f
                            /\ j # i => pt'[c][Vas[j]] = pt[c][Vas[j]]
                            /\ pt'[e][Vas[j]] = pt[e][Vas[j]]
      BY <1>2, <1>5, <1>11, <1>12, PageOrder
    <3>4. \A j \in 1 .. 4 : pt'[c][Vas[j]].f # 0 <=> Given(e, j)'
      BY <1>3, <1>5, <1>6, <3>1, <3>2, <3>3 DEF CopyOk
    <3>5. \A j \in 1 .. 3 : Given(e, j)' => pt'[c][Vas[j]].f = pt'[e][Vas[j]].f
      <4> SUFFICES ASSUME NEW j \in 1 .. 3, Given(e, j)'
                   PROVE  pt'[c][Vas[j]].f = pt'[e][Vas[j]].f
        OBVIOUS
      <4>1. j \in 1 .. 4 OBVIOUS
      <4>2. CASE j = i BY <3>3, <4>1, <4>2
      <4>3. CASE j # i
        <5>1. Given(e, j) BY <3>2, <4>1, <4>3
        <5>2. pt[c][Vas[j]].f = pt[e][Vas[j]].f BY <1>3, <1>6, <3>1, <5>1 DEF CopyOk
        <5> QED BY <3>3, <4>1, <4>3, <5>2
      <4> QED BY <4>2, <4>3
    <3>6. At(e, "stack")' \in fk'[e].seen
      <4>1. "stack" \in VA /\ pt[e]["stack"].f # 0 BY <1>6, Running, PageNames
      <4> QED BY <1>6, <1>10, <1>12, <1>21, <3>1, <4>1 DEF CopyOk
    <3>7. Given(e, 4)' => At(c, "stack")' \in fk'[e].seen
      <4>1. CASE i = 4
        <5>1. va = "stack" BY <1>2, <4>1, PageNames
        <5>2. At(c, "stack")' = At(e, "stack")
          BY <1>5, <1>8, <1>11, <5>1 DEF At
        <5> QED BY <1>6, <1>10, <3>1, <5>2 DEF CopyOk
      <4>2. CASE i # 4
        <5>1. "stack" \in VA /\ va # "stack" BY <1>2, <4>2, PageNames, PageOrder
        <5>2. Given(e, 4) => pt[c]["stack"].f # 0 /\ At(c, "stack") \in fk[e].seen
          BY <1>3, <1>6, <3>1, PageNames DEF CopyOk
        <5> QED BY <1>10, <1>21, <3>2, <4>2, <5>1, <5>2
      <4> QED BY <4>1, <4>2
    <3>8. /\ fk'[e].pc \in {"child", "self"} => fk'[e].pte \in Kind(Vas[fk'[e].i])
          /\ fk'[e].pc = "self" => Vas[fk'[e].i] \in {"buf", "stack"}
      BY <1>2, <1>6, <1>9, <1>10
    <3>9. (At(fk[e].child, "stack") = At(c, "stack"))' BY <1>10 DEF At
    <3> QED BY <1>10, <3>4, <3>5, <3>6, <3>7, <3>8, <3>9 DEF CopyOk
  <2>2. ASSUME NEW x \in Envs \ {e} PROVE CopyOk(x)'
    <3>1. PICK d \in Envs : d = fk[x].child BY Fields DEF IInv
    <3>2. CASE fk[x].pc = "no" BY <1>10, <3>2 DEF CopyOk
    <3>3. CASE fk[x].pc # "no"
      <4>1. x # c /\ d # c /\ "stack" \in VA BY <1>12, <3>1, <3>3, PageNames
      <4> QED BY <1>10, <1>11, <1>21, <3>1, <4>1, CopyStays
    <3> QED BY <3>2, <3>3
  <2> QED BY <2>1, <2>2 DEF Copies
<1>23. Faulting'
  <2> SUFFICES ASSUME NEW x \in Envs PROVE FaultOk(x)' BY DEF Faulting
  <2>1. FaultOk(x) BY DEF IInv, Faulting
  <2>2. CASE flt[x].pc = "no" BY <1>8, <2>2 DEF FaultOk
  <2>3. CASE flt[x].pc # "no"
    <3>1. x # c /\ x # e BY <1>6, <1>12, <2>3
    <3>2. \A z \in Envs : flt[x].pc \in {"copy", "map"} =>
              pt'[z][flt[x].va].f # flt[x].tmp
      <4>1. PICK y \in VA : y = flt[x].va BY Fields DEF IInv
      <4> QED BY <1>5, <1>11, <2>1, <4>1 DEF FaultOk
    <3> QED BY <1>8, <1>10, <1>11, <1>21, <3>1, <3>2, FaultStays
  <2> QED BY <2>2, <2>3
<1>24. Isolated'
  <2> SUFFICES ASSUME NEW z \in Envs, NEW y \in VA, st[z] # "nomem",
                      pt'[z][y].f # 0, pt'[z][y].perm = "w", NEW x \in Envs \ {z}
               PROVE  /\ pt'[x][y].f = pt'[z][y].f =>
                            fk'[z].pc = "self" /\ fk'[z].child = x /\ Vas[fk'[z].i] = y
                      /\ flt[x].va = y => flt[x].tmp # pt'[z][y].f
    BY <1>8 DEF Isolated
  <2>1. z # c BY <1>9, <1>11, <1>12
  <2>2. pt'[z][y] = pt[z][y] BY <1>11, <2>1
  <2>3. flt[x].va = y => flt[x].tmp # pt'[z][y].f BY <2>2 DEF IInv, Isolated
  <2>4. ASSUME pt'[x][y].f = pt'[z][y].f
        PROVE  fk'[z].pc = "self" /\ fk'[z].child = x /\ Vas[fk'[z].i] = y
    <3>1. CASE x = c /\ y = va
      <4>1. pt[z][y].f = f BY <1>11, <2>2, <2>4, <3>1
      <4>2. z = e
        <5> SUFFICES ASSUME z # e PROVE FALSE OBVIOUS
        <5>1. fk[z].pc # "no" /\ fk[z].child = e
          BY <1>5, <2>2, <3>1, <4>1 DEF IInv, Isolated
        <5> QED BY <1>6, <5>1, Running
      <4>3. pt[e][va].perm = "w" /\ va \in {"buf", "stack"}
        BY <1>5, <2>2, <3>1, <4>2, PageNames DEF IInv, Kinds, Kind
      <4>4. fk'[e].pc = "self" /\ fk'[e].i = i BY <1>9, <1>10, <4>3
      <4> QED BY <1>2, <1>10, <3>1, <4>2, <4>4
    <3>2. CASE ~(x = c /\ y = va)
      <4>1. pt[x][y].f = pt[z][y].f BY <1>11, <2>2, <2>4, <3>2
      <4>2. fk[z].pc = "self" /\ fk[z].child = x /\ Vas[fk[z].i] = y
        BY <2>2, <4>1 DEF IInv, Isolated
      <4> QED BY <1>6, <1>10, <4>2
    <3> QED BY <3>1, <3>2
  <2> QED BY <2>3, <2>4
<1>25. \A x \in Envs, y \in VA : Alive(x) => At(x, y)' = At(x, y)
  <2>1. \A x \in Envs, y \in VA : Alive(x) => pt[x][y].f # 0 /\ x # c
    BY <1>12 DEF IInv, Living, LiveOk, Alive
  <2> QED BY <1>21, <2>1
<1> QED
  BY <1>13, <1>14, <1>15, <1>16, <1>17, <1>18, <1>19, <1>20, <1>22, <1>23, <1>24, <1>25
     DEF IInv

LEMMA ForkSelfKeeps ==
    ASSUME IInv, NEW e \in Envs, ForkSelf(e)
    PROVE  /\ IInv'
           /\ \A x \in Envs, y \in VA : pt[x][y].f # 0 => At(x, y)' = At(x, y)
<1>1. PICK i \in 1 .. 4 : i = fk[e].i BY DEF IInv, Children, ForkSelf
<1>2. PICK va \in VA : va = Vas[i] BY PageOrder
<1>3. PICK c \in Envs : c = fk[e].child BY Fields DEF IInv
<1>4. /\ st[e] = "run" /\ flt[e].pc = "no" /\ fk[e].pc = "self"
      /\ va \in {"buf", "stack"} /\ i \in {2, 4} /\ upcall[e]
  <2>1. CopyOk(e) /\ HandleOk(e) BY DEF IInv, Copies, Handled
  <2>2. va \in {"buf", "stack"} BY <1>1, <1>2, <2>1 DEF ForkSelf, CopyOk
  <2> QED BY <1>2, <2>1, <2>2, PageOrder DEF ForkSelf, Forks, Runs, HandleOk
<1>5. /\ st' = st /\ mem' = mem /\ upcall' = upcall /\ flt' = flt /\ srv' = srv
      /\ pt' = [pt EXCEPT ![e][va].perm = "cow"]
      /\ fk' = ForkNext(e)
  BY <1>1, <1>2 DEF ForkSelf
<1>6. /\ pt'[e][va].f = pt[e][va].f /\ pt'[e][va].perm = "cow"
      /\ \A x \in Envs, y \in VA : x # e \/ y # va => pt'[x][y] = pt[x][y]
      /\ \A x \in Envs \ {e} : pt'[x] = pt[x]
  BY <1>5 DEF IInv, Typed, Page
<1>7. /\ fk' \in [Envs -> ForkState]
      /\ \A x \in Envs \ {e} : fk'[x] = fk[x]
      /\ fk'[e].child = c /\ fk'[e].seen = fk[e].seen
      /\ \/ i = 4 /\ fk'[e].pc = "xstack" /\ fk'[e].i = 4
         \/ i = 2 /\ fk'[e].pc = "pte" /\ fk'[e].i = 3
  <2>1. fk[e] \in ForkState BY DEF IInv, Typed
  <2>2. CASE i = 4
    <3>1. fk' = [fk EXCEPT ![e].pc = "xstack"]
      BY <1>1, <1>5, <2>2, PageNames DEF ForkNext
    <3>2. [fk[e] EXCEPT !.pc = "xstack"] \in ForkState BY <2>1 DEF ForkState
    <3>3. fk' \in [Envs -> ForkState] BY <3>1, <3>2 DEF IInv, Typed
    <3>4. \A x \in Envs \ {e} : fk'[x] = fk[x] BY <3>1 DEF IInv, Typed
    <3>5. /\ fk'[e].pc = "xstack" /\ fk'[e].child = fk[e].child /\ fk'[e].i = fk[e].i
          /\ fk'[e].seen = fk[e].seen
      BY <2>1, <3>1 DEF IInv, Typed, ForkState
    <3> QED BY <1>1, <1>3, <2>2, <3>3, <3>4, <3>5
  <2>3. CASE i = 2
    <3>1. fk' = [fk EXCEPT ![e].pc = "pte", ![e].i = 3]
      BY <1>1, <1>5, <2>3, PageNames DEF ForkNext
    <3>2. [fk[e] EXCEPT !.pc = "pte", !.i = 3] \in ForkState
      <4>1. PICK k \in 0 .. 4 : k = 3 OBVIOUS
      <4>2. [fk[e] EXCEPT !.pc = "pte", !.i = k] \in ForkState BY <2>1 DEF ForkState
      <4> QED BY <4>1, <4>2
    <3>3. fk' \in [Envs -> ForkState] BY <3>1, <3>2 DEF IInv, Typed
    <3>4. \A x \in Envs \ {e} : fk'[x] = fk[x] BY <3>1 DEF IInv, Typed
    <3>5. /\ fk'[e].pc = "pte" /\ fk'[e].child = fk[e].child /\ fk'[e].i = 3
          /\ fk'[e].seen = fk[e].seen
      BY <2>1, <3>1 DEF IInv, Typed, ForkState
    <3> QED BY <1>3, <2>3, <3>3, <3>4, <3>5
  <2> QED BY <1>4, <2>2, <2>3
<1>8. /\ c # e /\ \A x \in Envs : fk[x].pc # "no" => fk[x].child # e
      /\ srv.pc = "serve" => srv.client # e
  BY <1>3, <1>4, Child, Running
<1>9. Typed'
  <2>1. pt' \in [Envs -> [VA -> Page]]
    <3>1. pt[e][va] \in Page BY DEF IInv, Typed
    <3>2. [pt[e][va] EXCEPT !.perm = "cow"] \in Page BY <3>1 DEF Page, Perms
    <3> QED BY <1>5, <3>2 DEF IInv, Typed
  <2> QED BY <1>5, <1>7, <2>1 DEF IInv, Typed
<1>10. Kinds'
  <2>1. pt[e][va].f # 0 /\ "cow" \in Kind(va) BY <1>4, Running DEF Kind
  <2> QED BY <1>6, <2>1 DEF IInv, Kinds
<1>11. Living'
  <2> SUFFICES ASSUME NEW x \in Envs PROVE LiveOk(x)' BY DEF Living
  <2>1. LiveOk(x) BY DEF IInv, Living
  <2>2. CASE x = e
    <3>1. \A y \in VA : pt'[e][y].f # 0 BY <1>4, <1>6, Running
    <3> QED BY <1>4, <1>5, <1>7, <2>1, <2>2, <3>1 DEF LiveOk, Alive
  <2>3. CASE x # e BY <1>5, <1>6, <1>7, <2>1, <2>3 DEF LiveOk, Alive
  <2> QED BY <2>2, <2>3
<1>12. SomeAlive' BY <1>5 DEF IInv, SomeAlive, Alive
<1>13. Handled'
  <2> SUFFICES ASSUME NEW x \in Envs PROVE HandleOk(x)' BY DEF Handled
  <2>1. HandleOk(x) BY DEF IInv, Handled
  <2>2. CASE x = e BY <1>4, <1>5, <1>7, <2>2 DEF HandleOk
  <2>3. CASE x # e BY <1>5, <1>6, <1>7, <2>1, <2>3 DEF HandleOk, Alive
  <2> QED BY <2>2, <2>3
<1>14. Children' BY <1>1, <1>3, <1>4, <1>5, <1>7 DEF IInv, Children
<1>15. Serving'
  <2>1. srv.client \in Envs /\ "buf" \in VA BY Fields, PageNames DEF IInv
  <2> QED BY <1>5, <1>6, <1>8, <2>1 DEF IInv, Serving
<1>16. OneShared' BY <1>4, <1>6, PageNames DEF IInv, OneShared
<1>17. \A x \in Envs, y \in VA : pt'[x][y].f = pt[x][y].f /\ At(x, y)' = At(x, y)
  BY <1>5, <1>6 DEF At
<1>18. Copies'
  <2>1. CopyOk(e)'
    <3>1. CopyOk(e) BY DEF IInv, Copies
    <3>2. \A j \in 1 .. 4 : Given(e, j)' <=> Given(e, j)
      BY <1>1, <1>4, <1>7 DEF Given
    <3>3. \A j \in 1 .. 4 : pt'[c][Vas[j]].f = pt[c][Vas[j]].f
                            /\ pt'[e][Vas[j]].f = pt[e][Vas[j]].f
      BY <1>17, PageOrder
    <3>4. /\ \A j \in 1 .. 4 : pt'[c][Vas[j]].f # 0 <=> Given(e, j)'
          /\ \A j \in 1 .. 3 : Given(e, j)' => pt'[c][Vas[j]].f = pt'[e][Vas[j]].f
      <4>1. /\ \A j \in 1 .. 4 : pt[c][Vas[j]].f # 0 <=> Given(e, j)
            /\ \A j \in 1 .. 3 : Given(e, j) => pt[c][Vas[j]].f = pt[e][Vas[j]].f
        BY <1>3, <1>4, <3>1 DEF CopyOk
      <4>2. \A j \in 1 .. 3 : j \in 1 .. 4 OBVIOUS
      <4> QED BY <3>2, <3>3, <4>1, <4>2
    <3>5. "stack" \in VA BY PageNames
    <3>6. /\ Given(e, 4)' => At(c, "stack")' \in fk'[e].seen
          /\ At(e, "stack")' \in fk'[e].seen
      BY <1>3, <1>4, <1>7, <1>17, <3>1, <3>2, <3>5 DEF CopyOk
    <3>7. (At(fk[e].child, "stack") = At(c, "stack"))' BY <1>7 DEF At
    <3> QED BY <1>7, <3>4, <3>6, <3>7 DEF CopyOk
  <2>2. ASSUME NEW x \in Envs \ {e} PROVE CopyOk(x)'
    <3>1. PICK d \in Envs : d = fk[x].child BY Fields DEF IInv
    <3>2. fk[x].pc # "no" => d # e /\ pt'[d] = pt[d] BY <1>6, <1>8, <3>1
    <3> QED BY <1>6, <1>7, <1>17, <3>1, <3>2, CopyStays, PageNames
  <2> QED BY <2>1, <2>2 DEF Copies
<1>19. Faulting'
  <2> SUFFICES ASSUME NEW x \in Envs PROVE FaultOk(x)' BY DEF Faulting
  <2>1. FaultOk(x) BY DEF IInv, Faulting
  <2>2. CASE flt[x].pc = "no" BY <1>5, <2>2 DEF FaultOk
  <2>3. CASE flt[x].pc # "no"
    <3>1. x # e BY <1>4, <2>3
    <3>2. \A z \in Envs : flt[x].pc \in {"copy", "map"} =>
              pt'[z][flt[x].va].f # flt[x].tmp
      <4>1. PICK y \in VA : y = flt[x].va BY Fields DEF IInv
      <4> QED BY <1>17, <2>1, <4>1 DEF FaultOk
    <3> QED BY <1>5, <1>6, <1>7, <1>17, <3>1, <3>2, FaultStays
  <2> QED BY <2>2, <2>3
<1>20. Isolated'
  <2> SUFFICES ASSUME NEW z \in Envs, NEW y \in VA, st[z] # "nomem",
                      pt'[z][y].f # 0, pt'[z][y].perm = "w", NEW x \in Envs \ {z}
               PROVE  /\ pt'[x][y].f = pt'[z][y].f =>
                            fk'[z].pc = "self" /\ fk'[z].child = x /\ Vas[fk'[z].i] = y
                      /\ flt[x].va = y => flt[x].tmp # pt'[z][y].f
    BY <1>5 DEF Isolated
  <2>1. pt'[z][y] = pt[z][y] /\ (z # e \/ y # va) BY <1>6
  <2>2. /\ pt[x][y].f = pt[z][y].f =>
              fk[z].pc = "self" /\ fk[z].child = x /\ Vas[fk[z].i] = y
        /\ flt[x].va = y => flt[x].tmp # pt[z][y].f
    BY <2>1 DEF IInv, Isolated
  <2>3. z = e => pt[x][y].f # pt[z][y].f BY <1>1, <1>2, <2>1, <2>2
  <2> QED BY <1>7, <1>17, <2>1, <2>2, <2>3
<1> QED
  BY <1>9, <1>10, <1>11, <1>12, <1>13, <1>14, <1>15, <1>16, <1>17, <1>18, <1>19, <1>20
     DEF IInv

\* An environment stops to wait, or panics.
LEMMA StopKeeps ==
    ASSUME IInv, NEW e \in Envs, st[e] = "run", flt[e].pc = "no", fk[e].pc = "no",
           NEW s \in {"wait", "panic", "nomem"}, st' = [st EXCEPT ![e] = s],
           pt' = pt, mem' = mem, upcall' = upcall, fk' = fk, flt' = flt,
           srv' \in Request, Serving'
    PROVE  IInv'
<1>1. st'[e] = s /\ \A x \in Envs \ {e} : st'[x] = st[x] BY DEF IInv, Typed
<1>2. Typed' BY DEF IInv, Typed
<1>3. Kinds' /\ OneShared' /\ Isolated' BY DEF IInv, Kinds, OneShared, Isolated
<1>4. Living' BY <1>1 DEF IInv, Living, LiveOk, Alive
<1>5. SomeAlive' BY <1>1 DEF SomeAlive, Alive
<1>6. Handled' BY <1>1 DEF IInv, Handled, HandleOk, Alive
<1>7. Children'
  <2>1. \A x \in Envs : fk[x].pc # "no" => fk[x].child # e BY Running
  <2>2. \A x \in Envs : fk[x].child \in Envs BY Fields DEF IInv
  <2> QED BY <1>1, <2>1, <2>2 DEF IInv, Children
<1>8. Copies' BY DEF IInv, Copies, CopyOk, Given, At
<1>9. Faulting' BY DEF IInv, Faulting, FaultOk, At
<1> QED BY <1>2, <1>3, <1>4, <1>5, <1>6, <1>7, <1>8, <1>9 DEF IInv

LEMMA FsipcKeeps ==
    ASSUME IInv, NEW e \in Envs, fsipc(e)
    PROVE  IInv'
<1>1. /\ st[e] = "run" /\ flt[e].pc = "no" /\ fk[e].pc = "no"
      /\ srv.pc = "recv" /\ pt[e]["buf"].perm = "w"
      /\ srv' = [f |-> pt[e]["buf"].f, client |-> e, pc |-> "serve"]
      /\ st' = [st EXCEPT ![e] = "wait"]
      /\ pt' = pt /\ mem' = mem /\ upcall' = upcall /\ fk' = fk /\ flt' = flt
  BY DEF fsipc, Idle, Runs
<1>2. srv' \in Request BY <1>1, Running, PageNames DEF Request
<1>3. Serving' BY <1>1 DEF Serving, IInv, Typed
<1> QED BY <1>1, <1>2, <1>3, StopKeeps

LEMMA SyncPanicsKeeps ==
    ASSUME IInv, NEW e \in Envs, SyncPanics(e)
    PROVE  IInv'
<1>1. /\ st[e] = "run" /\ flt[e].pc = "no" /\ fk[e].pc = "no" /\ srv.pc = "recv"
      /\ st' = [st EXCEPT ![e] = "panic"]
      /\ pt' = pt /\ mem' = mem /\ upcall' = upcall /\ fk' = fk /\ flt' = flt /\ srv' = srv
  BY DEF SyncPanics, Idle, Runs
<1>2. srv' \in Request /\ Serving' BY <1>1 DEF Serving, IInv, Typed
<1> QED BY <1>1, <1>2, StopKeeps

LEMMA ForkNoHandlerKeeps ==
    ASSUME IInv, NEW e \in Envs, ForkNoHandler(e)
    PROVE  IInv'
<1>1. /\ st[e] = "run" /\ flt[e].pc = "no" /\ fk[e].pc = "no"
      /\ st' = [st EXCEPT ![e] = "nomem"]
      /\ pt' = pt /\ mem' = mem /\ upcall' = upcall /\ fk' = fk /\ flt' = flt /\ srv' = srv
  BY DEF ForkNoHandler, Idle, Runs
<1>2. srv' \in Request /\ Serving'
  <2>1. srv.pc = "serve" => st[srv.client] = "wait" BY DEF IInv, Serving
  <2>2. srv.pc = "serve" => st'[srv.client] = "wait" BY <1>1, <2>1 DEF IInv, Typed
  <2> QED BY <1>1, <2>2 DEF IInv, Typed, Serving
<1> QED BY <1>1, <1>2, StopKeeps

\* pgfault() panics: the fault and the fork it came in are over.
LEMMA FaultNoMemKeeps ==
    ASSUME IInv, NEW e \in Envs, FaultNoMem(e)
    PROVE  IInv'
<1>1. /\ st[e] = "run" /\ flt[e].pc = "alloc"
      /\ st' = [st EXCEPT ![e] = "nomem"]
      /\ fk' = [fk EXCEPT ![e] = NotForking] /\ flt' = [flt EXCEPT ![e] = NoFault]
      /\ pt' = pt /\ mem' = mem /\ upcall' = upcall /\ srv' = srv
  BY DEF FaultNoMem
<1>2. /\ st'[e] = "nomem" /\ \A x \in Envs \ {e} : st'[x] = st[x]
      /\ fk'[e].pc = "no" /\ fk'[e].seen = {} /\ \A x \in Envs \ {e} : fk'[x] = fk[x]
      /\ flt'[e].pc = "no" /\ flt'[e].tmp = 0 /\ \A x \in Envs \ {e} : flt'[x] = flt[x]
  BY <1>1 DEF IInv, Typed, NotForking, NoFault
<1>3. Typed'
  <2>1. NotForking \in ForkState
    BY CowForkAssumption DEF NotForking, ForkState, Perms
  <2>2. NoFault \in FaultState BY PageNames DEF NoFault, FaultState
  <2> QED BY <1>1, <2>1, <2>2 DEF IInv, Typed
<1>4. Kinds' /\ OneShared' BY <1>1 DEF IInv, Kinds, OneShared
<1>5. Living'
  <2> SUFFICES ASSUME NEW x \in Envs PROVE LiveOk(x)' BY DEF Living
  <2>1. LiveOk(x) BY DEF IInv, Living
  <2>2. CASE x = e BY <1>1, <1>2, <2>1, <2>2 DEF LiveOk, Alive
  <2>3. CASE x # e BY <1>1, <1>2, <2>1, <2>3 DEF LiveOk, Alive
  <2> QED BY <2>2, <2>3
<1>6. SomeAlive' BY <1>2 DEF SomeAlive, Alive
<1>7. Handled'
  <2> SUFFICES ASSUME NEW x \in Envs PROVE HandleOk(x)' BY DEF Handled
  <2>1. HandleOk(x) BY DEF IInv, Handled
  <2>2. CASE x = e BY <1>1, <1>2, <2>1, <2>2 DEF HandleOk, Alive
  <2>3. CASE x # e BY <1>1, <1>2, <2>1, <2>3 DEF HandleOk, Alive
  <2> QED BY <2>2, <2>3
<1>8. Children'
  <2>1. \A x \in Envs : fk[x].pc # "no" => fk[x].child # e BY <1>1 DEF IInv, Children
  <2>2. \A x \in Envs : fk[x].child \in Envs BY Fields DEF IInv
  <2>3. \A x \in Envs : fk'[x].pc # "no" => x # e /\ fk'[x] = fk[x] BY <1>2
  <2> QED BY <1>2, <2>1, <2>2, <2>3 DEF IInv, Children
<1>9. Copies'
  <2>1. CopyOk(e)' BY <1>2 DEF CopyOk
  <2>2. ASSUME NEW x \in Envs \ {e} PROVE CopyOk(x)'
    <3>1. CopyOk(x) BY DEF IInv, Copies
    <3>2. fk'[x] = fk[x] /\ pt' = pt /\ mem' = mem BY <1>1, <1>2
    <3>3. \A j : Given(x, j)' <=> Given(x, j) BY <3>2 DEF Given
    <3>4. \A f \in {x, fk[x].child} : At(f, "stack")' = At(f, "stack") BY <3>2 DEF At
    <3> QED BY <3>1, <3>2, <3>3, <3>4 DEF CopyOk
  <2> QED BY <2>1, <2>2 DEF Copies
<1>10. Faulting'
  <2>1. FaultOk(e)' BY <1>2 DEF FaultOk
  <2>2. ASSUME NEW x \in Envs \ {e} PROVE FaultOk(x)'
    <3>1. FaultOk(x) BY DEF IInv, Faulting
    <3>2. flt[x].pc \in {"copy", "map", "unmap"} => flt[x].tmp # 0
      BY <3>1 DEF FaultOk
    <3>3. \A z \in Envs : flt'[z] = flt[z] \/ flt'[z].tmp = 0 BY <1>2
    <3> QED BY <1>1, <1>2, <3>1, <3>2, <3>3 DEF FaultOk, At
  <2> QED BY <2>1, <2>2 DEF Faulting
<1>11. Serving'
  <2>1. srv.pc = "serve" => srv.client # e BY <1>1 DEF IInv, Serving
  <2>2. srv.client \in Envs BY Fields DEF IInv
  <2> QED BY <1>1, <1>2, <2>1, <2>2 DEF IInv, Serving
<1>12. Isolated'
  <2> SUFFICES ASSUME NEW z \in Envs, NEW y \in VA, st'[z] # "nomem",
                      pt[z][y].f # 0, pt[z][y].perm = "w", NEW x \in Envs \ {z}
               PROVE  /\ pt[x][y].f = pt[z][y].f =>
                            fk'[z].pc = "self" /\ fk'[z].child = x /\ Vas[fk'[z].i] = y
                      /\ flt'[x].va = y => flt'[x].tmp # pt[z][y].f
    BY <1>1 DEF Isolated
  <2>2. z # e /\ st[z] # "nomem" BY <1>2
  <2>1. /\ pt[x][y].f = pt[z][y].f =>
              fk[z].pc = "self" /\ fk[z].child = x /\ Vas[fk[z].i] = y
        /\ flt[x].va = y => flt[x].tmp # pt[z][y].f
    BY <2>2 DEF IInv, Isolated
  <2> QED BY <1>2, <2>1, <2>2
<1> QED
  BY <1>3, <1>4, <1>5, <1>6, <1>7, <1>8, <1>9, <1>10, <1>11, <1>12 DEF IInv

LEMMA ReplyKeeps ==
    ASSUME IInv, NEW v \in Values, Reply(v)
    PROVE  /\ IInv'
           /\ \A x \in Envs, y \in VA :
                 pt[x][y].f # 0 /\ (x # srv.client \/ y # "buf") => At(x, y)' = At(x, y)
           /\ At(srv.client, "buf")' = v
<1>1. PICK c \in Envs : c = srv.client BY Fields DEF IInv
<1>2. /\ st[c] = "wait" /\ Alive(c) /\ fk[c].pc = "no" /\ flt[c].pc = "no"
      /\ pt[c]["buf"].f = srv.f /\ pt[c]["buf"].perm = "w"
  BY <1>1 DEF Reply, IInv, Serving, Living, LiveOk, Alive
<1>3. "buf" \in VA /\ srv.f \in Frames
  <2>1. "buf" \in VA BY PageNames
  <2>2. pt[c]["buf"].f # 0 BY <1>2, <2>1 DEF IInv, Living, LiveOk
  <2> QED BY <1>2, <2>1, <2>2, Fields DEF IInv
<1>4. /\ pt' = pt /\ upcall' = upcall /\ fk' = fk /\ flt' = flt
      /\ mem' = [mem EXCEPT !["buf"][srv.f] = v]
      /\ st' = [st EXCEPT ![c] = "run"] /\ srv' = [srv EXCEPT !.pc = "unmap"]
  BY <1>1 DEF Reply
<1>5. /\ st'[c] = "run" /\ \A x \in Envs \ {c} : st'[x] = st[x]
      /\ \A y \in VA, f \in Frames :
             mem'[y][f] = IF y = "buf" /\ f = srv.f THEN v ELSE mem[y][f]
  BY <1>4 DEF IInv, Typed
<1>6. /\ \A x \in Envs \ {c} : pt[x]["buf"].f # srv.f
      /\ \A x \in Envs : flt[x].va = "buf" => flt[x].tmp # srv.f
  <2>1. \A x \in Envs \ {c} : pt[x]["buf"].f # srv.f
                              /\ (flt[x].va = "buf" => flt[x].tmp # srv.f)
    BY <1>2, <1>3 DEF IInv, Isolated, Frames
  <2>2. flt[c].tmp = 0 /\ srv.f # 0
    BY <1>2, <1>3 DEF IInv, Living, LiveOk, Frames
  <2> QED BY <2>1, <2>2
<1>7. \A x \in Envs, y \in VA :
          pt[x][y].f # 0 /\ (x # c \/ y # "buf") => At(x, y)' = At(x, y)
  <2>1. \A x \in Envs, y \in VA : pt[x][y].f # 0 => pt[x][y].f \in Frames
    BY Fields DEF IInv
  <2> QED BY <1>4, <1>5, <1>6, <2>1 DEF At
<1>8. At(srv.client, "buf")' = v
  BY <1>1, <1>2, <1>3, <1>4, <1>5 DEF At, IInv, Typed, Request
<1>9. \A x \in Envs : fk[x].pc # "no" => fk[x].child # c
  BY <1>2 DEF IInv, Children
<1>10. Typed'
  <2>1. mem' \in [VA -> [Frames -> Values]] BY <1>3, <1>4 DEF IInv, Typed
  <2>2. srv' \in Request
    <3>1. srv \in Request BY DEF IInv, Typed
    <3> QED BY <1>4, <3>1 DEF Request
  <2> QED BY <1>4, <2>1, <2>2 DEF IInv, Typed
<1>11. Kinds' /\ OneShared' /\ Isolated'
  BY <1>2, <1>4, <1>5 DEF IInv, Kinds, OneShared, Isolated
<1>12. Living' BY <1>2, <1>4, <1>5 DEF IInv, Living, LiveOk, Alive
<1>13. SomeAlive' BY <1>5 DEF SomeAlive, Alive
<1>14. Handled' BY <1>2, <1>4, <1>5 DEF IInv, Handled, HandleOk, Alive
<1>15. Children'
  <2>1. \A x \in Envs : fk[x].child \in Envs BY Fields DEF IInv
  <2> QED BY <1>4, <1>5, <1>9, <2>1 DEF IInv, Children
<1>16. Serving'
  <2>1. srv'.pc = "unmap"
    <3>1. srv \in Request BY DEF IInv, Typed
    <3> QED BY <1>4, <3>1 DEF Request
  <2> QED BY <2>1 DEF Serving
<1>17. Copies'
  <2> SUFFICES ASSUME NEW x \in Envs PROVE CopyOk(x)' BY DEF Copies
  <2>1. PICK d \in Envs : d = fk[x].child BY Fields DEF IInv
  <2>2. "stack" \in VA /\ "stack" # "buf" BY PageNames
  <2> QED BY <1>4, <1>7, <2>1, <2>2, CopyStays
<1>18. Faulting'
  <2> SUFFICES ASSUME NEW x \in Envs PROVE FaultOk(x)' BY DEF Faulting
  <2>1. FaultOk(x) BY DEF IInv, Faulting
  <2>2. CASE flt[x].pc = "no" BY <1>4, <2>2 DEF FaultOk
  <2>3. CASE flt[x].pc # "no"
    <3>1. x # c BY <1>2, <2>3
    <3>2. \A z \in Envs : flt[x].pc \in {"copy", "map"} =>
              pt'[z][flt[x].va].f # flt[x].tmp
      BY <1>4, <2>1 DEF FaultOk
    <3>3. \A y \in VA, f \in Frames : flt[x].va = y /\ flt[x].tmp = f =>
              mem'[y][f] = mem[y][f]
      BY <1>5, <1>6
    <3>4. \A y \in VA : pt[x][y].f # 0 /\ flt[x].va = y => At(x, y)' = At(x, y)
      BY <1>7, <3>1
    <3>5. flt' = flt /\ pt' = pt /\ fk' = fk BY <1>4
    <3> QED BY <3>2, <3>3, <3>4, <3>5, FaultStays
  <2> QED BY <2>2, <2>3
<1> QED
  BY <1>1, <1>7, <1>8, <1>10, <1>11, <1>12, <1>13, <1>14, <1>15, <1>16, <1>17, <1>18
     DEF IInv

LEMMA UnmapKeeps ==
    ASSUME IInv, Unmap
    PROVE  /\ IInv'
           /\ \A x \in Envs, y \in VA : pt[x][y].f # 0 => At(x, y)' = At(x, y)
<1>1. /\ st' = st /\ pt' = pt /\ upcall' = upcall /\ fk' = fk /\ flt' = flt
      /\ srv' = NoRequest /\ mem' = Cleared
  BY DEF Unmap
<1>2. /\ mem' \in [VA -> [Frames -> Values]]
      /\ \A x \in Envs, y \in VA : pt[x][y].f # 0 => mem'[y][pt[x][y].f] = mem[y][pt[x][y].f]
      /\ \A x \in Envs :
             flt[x].tmp # 0 => mem'[flt[x].va][flt[x].tmp] = mem[flt[x].va][flt[x].tmp]
  <2>1. pt' \in [Envs -> [VA -> Page]] /\ flt' \in [Envs -> FaultState]
    BY <1>1 DEF IInv, Typed
  <2> QED BY <1>1, <2>1, ClearedKeeps DEF IInv
<1>3. \A x \in Envs, y \in VA : pt[x][y].f # 0 => At(x, y)' = At(x, y)
  BY <1>1, <1>2 DEF At
<1>4. NoRequest \in Request /\ NoRequest.pc = "recv"
  BY CowForkAssumption DEF NoRequest, Request
<1>5. Typed' BY <1>1, <1>2, <1>4 DEF IInv, Typed
<1>6. Kinds' /\ OneShared' /\ Isolated' /\ Children' /\ SomeAlive'
  BY <1>1 DEF IInv, Kinds, OneShared, Isolated, Children, SomeAlive, Alive
<1>7. Living' BY <1>1 DEF IInv, Living, LiveOk, Alive
<1>8. Handled' BY <1>1 DEF IInv, Handled, HandleOk, Alive
<1>9. Serving' BY <1>1, <1>4 DEF Serving
<1>10. Copies' BY <1>1, <1>3, CopiesStay
<1>11. Faulting'
  <2> SUFFICES ASSUME NEW x \in Envs PROVE FaultOk(x)' BY DEF Faulting
  <2>1. FaultOk(x) BY DEF IInv, Faulting
  <2>2. \A z \in Envs : flt[x].pc \in {"copy", "map"} =>
            pt'[z][flt[x].va].f # flt[x].tmp
    BY <1>1, <2>1 DEF FaultOk
  <2>3. \A y \in VA, f \in Frames : flt[x].va = y /\ flt[x].tmp = f =>
            mem'[y][f] = mem[y][f]
    BY <1>2 DEF Frames
  <2>4. \A y \in VA : pt[x][y].f # 0 /\ flt[x].va = y => At(x, y)' = At(x, y)
    BY <1>3
  <2>5. flt' = flt /\ pt' = pt /\ fk' = fk BY <1>1
  <2> QED BY <2>2, <2>3, <2>4, <2>5, FaultStays
<1> QED BY <1>3, <1>5, <1>6, <1>7, <1>8, <1>9, <1>10, <1>11 DEF IInv

LEMMA ExitKeeps ==
    ASSUME IInv, NEW e \in Envs, Exit(e)
    PROVE  /\ IInv'
           /\ \A x \in Envs \ {e}, y \in VA : pt[x][y].f # 0 => At(x, y)' = At(x, y)
<1>1. /\ st[e] = "run" /\ flt[e].pc = "no" /\ fk[e].pc = "no"
      /\ \E x \in Envs \ {e} : st[x] = "run"
      /\ st' = [st EXCEPT ![e] = "free"] /\ pt' = [pt EXCEPT ![e] = Empty]
      /\ upcall' = [upcall EXCEPT ![e] = FALSE]
      /\ fk' = fk /\ flt' = flt /\ srv' = srv /\ mem' = Cleared
  BY DEF Exit, Idle, Runs
<1>2. /\ st'[e] = "free" /\ \A x \in Envs \ {e} : st'[x] = st[x]
      /\ pt'[e] = Empty /\ \A x \in Envs \ {e} : pt'[x] = pt[x]
      /\ \A x \in Envs \ {e} : upcall'[x] = upcall[x]
  BY <1>1 DEF IInv, Typed
<1>3. \A y \in VA : pt'[e][y] = Unmapped /\ pt'[e][y].f = 0 /\ pt'[e][y].perm = "r"
  <2>1. Unmapped.f = 0 /\ Unmapped.perm = "r" BY DEF Unmapped
  <2> QED BY <1>2, <2>1 DEF Empty
<1>4. /\ \A x \in Envs : fk[x].pc # "no" => fk[x].child # e
      /\ srv.pc = "serve" => srv.client # e
  BY <1>1, Running
<1>5. /\ pt' \in [Envs -> [VA -> Page]] /\ mem' \in [VA -> [Frames -> Values]]
      /\ \A x \in Envs, y \in VA : pt'[x][y].f # 0 => mem'[y][pt'[x][y].f] = mem[y][pt'[x][y].f]
      /\ \A x \in Envs :
             flt[x].tmp # 0 => mem'[flt[x].va][flt[x].tmp] = mem[flt[x].va][flt[x].tmp]
  <2>1. Empty \in [VA -> Page] BY DEF Empty, Unmapped, Page, Perms
  <2>2. pt' \in [Envs -> [VA -> Page]] /\ flt' \in [Envs -> FaultState]
    BY <1>1, <2>1 DEF IInv, Typed
  <2> QED BY <1>1, <2>2, ClearedKeeps DEF IInv
<1>6. \A x \in Envs \ {e}, y \in VA : pt[x][y].f # 0 => At(x, y)' = At(x, y)
  BY <1>2, <1>5 DEF At
<1>7. Typed' BY <1>1, <1>5 DEF IInv, Typed
<1>8. Kinds' BY <1>2, <1>3 DEF IInv, Kinds
<1>9. OneShared'
  <2>1. \A x \in Envs : pt'[x]["share"].f # 0 => pt'[x] = pt[x]
    BY <1>2, <1>3, PageNames
  <2> QED BY <2>1 DEF IInv, OneShared
<1>10. Living'
  <2> SUFFICES ASSUME NEW x \in Envs PROVE LiveOk(x)' BY DEF Living
  <2>1. LiveOk(x) BY DEF IInv, Living
  <2>2. CASE x = e BY <1>1, <1>2, <1>3, <2>1, <2>2 DEF LiveOk, Alive
  <2>3. CASE x # e BY <1>1, <1>2, <2>1, <2>3 DEF LiveOk, Alive
  <2> QED BY <2>2, <2>3
<1>11. SomeAlive' BY <1>1, <1>2 DEF SomeAlive, Alive
<1>12. Handled'
  <2> SUFFICES ASSUME NEW x \in Envs PROVE HandleOk(x)' BY DEF Handled
  <2>1. HandleOk(x) BY DEF IInv, Handled
  <2>2. CASE x = e BY <1>1, <1>2, <2>2 DEF HandleOk, Alive
  <2>3. CASE x # e
    <3>1. PICK d \in Envs : d = fk[x].child BY Fields DEF IInv
    <3>2. fk[x].pc # "no" /\ upcall[d] => upcall'[d] BY <1>2, <1>4, <3>1
    <3> QED BY <1>1, <1>2, <2>1, <2>3, <3>1, <3>2 DEF HandleOk, Alive
  <2> QED BY <2>2, <2>3
<1>13. Children'
  <2>1. \A x \in Envs : fk[x].child \in Envs BY Fields DEF IInv
  <2> QED BY <1>1, <1>2, <1>4, <2>1 DEF IInv, Children
<1>14. Serving' BY <1>1, <1>2, <1>4, Fields DEF IInv, Serving
<1>15. Copies'
  <2> SUFFICES ASSUME NEW x \in Envs PROVE CopyOk(x)' BY DEF Copies
  <2>1. CASE fk[x].pc = "no" BY <1>1, <2>1 DEF CopyOk
  <2>2. CASE fk[x].pc # "no"
    <3>1. PICK d \in Envs : d = fk[x].child BY Fields DEF IInv
    <3>2. x # e /\ d # e /\ "stack" \in VA BY <1>1, <1>4, <2>2, <3>1, PageNames
    <3> QED BY <1>1, <1>2, <1>6, <3>1, <3>2, CopyStays
  <2> QED BY <2>1, <2>2
<1>16. Faulting'
  <2> SUFFICES ASSUME NEW x \in Envs PROVE FaultOk(x)' BY DEF Faulting
  <2>1. FaultOk(x) BY DEF IInv, Faulting
  <2>2. CASE flt[x].pc = "no" BY <1>1, <2>2 DEF FaultOk
  <2>3. CASE flt[x].pc # "no"
    <3>1. x # e BY <1>1, <2>3
    <3>2. \A z \in Envs : flt[x].pc \in {"copy", "map"} =>
              pt'[z][flt[x].va].f # flt[x].tmp
      <4>1. PICK y \in VA : y = flt[x].va BY Fields DEF IInv
      <4> QED BY <1>2, <1>3, <2>1, <4>1 DEF FaultOk
    <3>3. \A y \in VA, f \in Frames : flt[x].va = y /\ flt[x].tmp = f =>
              mem'[y][f] = mem[y][f]
      BY <1>5 DEF Frames
    <3>4. \A y \in VA : pt[x][y].f # 0 /\ flt[x].va = y => At(x, y)' = At(x, y)
      BY <1>6, <3>1
    <3>5. flt' = flt /\ pt'[x] = pt[x] /\ fk' = fk BY <1>1, <1>2, <3>1
    <3> QED BY <3>2, <3>3, <3>4, <3>5, FaultStays
  <2> QED BY <2>2, <2>3
<1>17. Isolated'
  <2>1. fk' = fk /\ flt' = flt BY <1>1
  <2> SUFFICES ASSUME NEW z \in Envs, NEW y \in VA, st'[z] # "nomem",
                      pt'[z][y].f # 0, pt'[z][y].perm = "w", NEW x \in Envs \ {z}
               PROVE  /\ pt'[x][y].f = pt'[z][y].f =>
                            fk[z].pc = "self" /\ fk[z].child = x /\ Vas[fk[z].i] = y
                      /\ flt[x].va = y => flt[x].tmp # pt'[z][y].f
    BY <2>1 DEF Isolated
  <2>2. pt'[z] = pt[z] BY <1>2, <1>3
  <2>3. pt'[x][y].f = pt'[z][y].f => pt'[x] = pt[x] BY <1>2, <1>3
  <2>4. pt[z][y].f # 0 BY <2>2
  <2>5. st[z] # "nomem" BY <1>2, <1>3, <2>2, <2>4
  <2> QED BY <2>2, <2>3, <2>5 DEF IInv, Isolated
<1> QED
  BY <1>6, <1>7, <1>8, <1>9, <1>10, <1>11, <1>12, <1>13, <1>14, <1>15, <1>16, <1>17
     DEF IInv

-----------------------------------------------------------------------------
(* The invariant, and what follows from it.                                *)

LEMMA NextIInv == IInv /\ [Next]_vars => IInv'
<1> SUFFICES ASSUME IInv, [Next]_vars PROVE IInv' OBVIOUS
<1>1. ASSUME NEW e \in Envs, NEW va \in VA, NEW v \in Values, Write(e, va, v) PROVE IInv'
  BY <1>1, WriteKeeps
<1>2. ASSUME NEW e \in Envs, NEW va \in VA, Fault(e, va) PROVE IInv'
  BY <1>2, FaultKeeps
<1>3. ASSUME NEW e \in Envs, pgfault(e) PROVE IInv'
  BY <1>3, FaultAllocKeeps, FaultNoMemKeeps, FaultCopyKeeps, FaultMapKeeps, FaultUnmapKeeps
     DEF pgfault
<1>4. ASSUME NEW e \in Envs, fork(e) PROVE IInv'
  <2>1. CASE \E c \in Envs : ForkBegin(e, c) BY <2>1, ForkBeginKeeps
  <2>2. CASE ForkNoHandler(e) \/ ForkNoEnv(e) \/ ForkPte(e) \/ ForkNoMem(e)
    BY <2>2, ForkNoHandlerKeeps, ForkNoEnvKeeps, ForkPteKeeps, ForkNoMemKeeps
  <2>3. CASE ForkChild(e) \/ ForkSelf(e) BY <2>3, ForkChildKeeps, ForkSelfKeeps
  <2>4. CASE ForkUpcall(e) \/ ForkStatus(e) BY <2>4, ForkUpcallKeeps, ForkStatusKeeps
  <2> QED BY <1>4, <2>1, <2>2, <2>3, <2>4 DEF fork
<1>5. ASSUME NEW e \in Envs, fsipc(e) \/ SyncPanics(e) \/ Exit(e) PROVE IInv'
  BY <1>5, FsipcKeeps, SyncPanicsKeeps, ExitKeeps
<1>6. ASSUME NEW v \in Values, Reply(v) PROVE IInv'
  BY <1>6, ReplyKeeps
<1>7. CASE Unmap BY <1>7, UnmapKeeps
<1>8. CASE UNCHANGED vars
  <2>1. /\ st' = st /\ pt' = pt /\ mem' = mem /\ upcall' = upcall /\ fk' = fk /\ flt' = flt
        /\ srv' = srv
    BY <1>8 DEF vars
  <2>2. Typed' /\ Kinds' /\ SomeAlive' BY <2>1 DEF IInv, Typed, Kinds, SomeAlive, Alive
  <2>3. Children' /\ Serving' /\ OneShared' /\ Isolated'
    BY <2>1 DEF IInv, Children, Serving, OneShared, Isolated
  <2>4. Living' /\ Handled'
    <3>1. \A x \in Envs : LiveOk(x)' <=> LiveOk(x) BY <2>1 DEF LiveOk, Alive
    <3>2. \A x \in Envs : HandleOk(x)' <=> HandleOk(x) BY <2>1 DEF HandleOk, Alive
    <3> QED BY <3>1, <3>2 DEF IInv, Living, Handled
  <2>5. Copies' /\ Faulting'
    <3>1. \A x \in Envs : CopyOk(x)' <=> CopyOk(x) BY <2>1 DEF CopyOk, Given, At
    <3>2. \A x \in Envs : FaultOk(x)' <=> FaultOk(x) BY <2>1 DEF FaultOk, At
    <3> QED BY <3>1, <3>2 DEF IInv, Copies, Faulting
  <2> QED BY <2>2, <2>3, <2>4, <2>5 DEF IInv
<1> QED BY <1>1, <1>2, <1>3, <1>4, <1>5, <1>6, <1>7, <1>8 DEF Next

LEMMA SpecIInv == Spec => []IInv
<1> QED BY InitIInv, NextIInv, PTL DEF Spec

\* Frames, permissions and the places in fork() and pgfault() stay in their
\* types.
THEOREM TypeCorrect == Spec => []TypeOK
<1>1. IInv => TypeOK
  BY Fields, PageNames DEF IInv, Typed, TypeOK
<1> QED BY <1>1, SpecIInv, PTL

\* A page that an environment writes without a fault is seen by no other one:
\* duppage() takes PTE_W away in time, and pgfault() leaves its new page to
\* nobody else.
THEOREM PagesAreIsolated == Spec => []Isolated
<1>1. IInv => Isolated BY DEF IInv
<1> QED BY <1>1, SpecIInv, PTL

\* page_fault_handler() destroys no environment for a write to its own memory:
\* fork() sets the upcall before the first page is copy-on-write.
THEOREM FaultsFindAHandler == Spec => []FaultsAreHandled
<1>1. IInv => FaultsAreHandled BY DEF IInv, Living, LiveOk, FaultsAreHandled
<1> QED BY <1>1, SpecIInv, PTL

-----------------------------------------------------------------------------
(* fork() implements ForkMemory.                                           *)

SeenBy == [e \in Envs |-> fk[e].seen]

\* What the environments that live see.
LEMMA ViewIs ==
    IInv => /\ View = [e \in Envs |-> IF Alive(e) THEN [va \in Private |-> At(e, va)]
                                                  ELSE NotBorn]
            /\ \A e \in Envs : View[e] # NotBorn <=> Alive(e)
            /\ \A e \in Envs : Alive(e) => View[e] = [va \in Private |-> At(e, va)]
            /\ \A e \in Envs : Alive(e) => Shared = At(e, "share")
<1> SUFFICES ASSUME IInv
             PROVE  /\ View = [e \in Envs |-> IF Alive(e) THEN [va \in Private |-> At(e, va)]
                                                          ELSE NotBorn]
                    /\ \A e \in Envs : View[e] # NotBorn <=> Alive(e)
                    /\ \A e \in Envs : Alive(e) => View[e] = [va \in Private |-> At(e, va)]
                    /\ \A e \in Envs : Alive(e) => Shared = At(e, "share")
  OBVIOUS
<1>1. View = [e \in Envs |-> IF Alive(e) THEN [va \in Private |-> At(e, va)] ELSE NotBorn]
  BY DEF View, Alive
<1>2. ASSUME NEW e \in Envs, Alive(e)
      PROVE  [va \in Private |-> At(e, va)] \in [Private -> Values]
  <2>1. ASSUME NEW va \in Private PROVE At(e, va) \in Values
    <3>1. va \in VA BY DEF Private
    <3>2. pt[e][va].f \in Frames BY <1>2, <3>1, Fields DEF IInv, Living, LiveOk
    <3> QED BY <3>1, <3>2 DEF At, IInv, Typed
  <2> QED BY <2>1
<1>3. \A e \in Envs : View[e] # NotBorn <=> Alive(e)
  BY <1>1, <1>2, NotBornIsNoMemory
<1>4. ASSUME NEW e \in Envs, Alive(e) PROVE Shared = At(e, "share")
  <2>1. "share" \in VA /\ pt[e]["share"].f # 0
    BY <1>4, PageNames DEF IInv, Living, LiveOk
  <2>2. PICK x \in Envs : x = CHOOSE z \in Envs : pt[z]["share"].f # 0
    BY <2>1
  <2>3. pt[x]["share"].f # 0 BY <2>1, <2>2
  <2>4. pt[x]["share"].f = pt[e]["share"].f BY <2>1, <2>3 DEF IInv, OneShared
  <2>5. Shared = At(x, "share") BY <2>2 DEF Shared
  <2> QED BY <2>4, <2>5 DEF At
<1> QED BY <1>1, <1>3, <1>4

LEMMA ViewIsNext ==
    IInv' => (/\ View = [e \in Envs |-> IF Alive(e) THEN [va \in Private |-> At(e, va)]
                                                    ELSE NotBorn]
              /\ \A e \in Envs : View[e] # NotBorn <=> Alive(e)
              /\ \A e \in Envs : Alive(e) => View[e] = [va \in Private |-> At(e, va)]
              /\ \A e \in Envs : Alive(e) => Shared = At(e, "share"))'
BY ViewIs, PTL

\* A step after which everybody lives and sees as before.
LEMMA Unseen ==
    ASSUME IInv, IInv', \A x \in Envs : Alive(x)' <=> Alive(x),
           \A x \in Envs, y \in VA : Alive(x) => At(x, y)' = At(x, y),
           \A x \in Envs : fk'[x].seen = fk[x].seen
    PROVE  View' = View /\ Shared' = Shared /\ SeenBy' = SeenBy
<1>1. SeenBy' = SeenBy BY DEF SeenBy
<1>2. \A x \in Envs, y \in Private : Alive(x) => At(x, y)' = At(x, y)
  BY DEF Private
<1>3. View' = View BY <1>2, ViewIs, ViewIsNext
<1>4. Shared' = Shared
  <2>1. PICK e \in Envs : Alive(e) BY DEF IInv, SomeAlive
  <2>2. Alive(e)' /\ At(e, "share")' = At(e, "share") BY <2>1, PageNames
  <2> QED BY <2>1, <2>2, ViewIs, ViewIsNext
<1> QED BY <1>1, <1>3, <1>4

\* One environment's page changes, and nothing else that anybody sees.
LEMMA WriteSeen ==
    ASSUME IInv, IInv', NEW e \in Envs, NEW va \in Private, NEW v \in Values,
           Alive(e), At(e, va)' = v,
           \A x \in Envs : Alive(x)' <=> Alive(x),
           \A x \in Envs, y \in VA : Alive(x) /\ (x # e \/ y # va) => At(x, y)' = At(x, y)
    PROVE  View' = [View EXCEPT ![e][va] = v] /\ Shared' = Shared
<1>1. View'[e] = [View[e] EXCEPT ![va] = v]
  <2>1. View[e] = [y \in Private |-> At(e, y)] BY ViewIs
  <2>2. View'[e] = [y \in Private |-> At(e, y)'] BY ViewIsNext
  <2>3. \A y \in Private : At(e, y)' = IF y = va THEN v ELSE At(e, y)
    BY DEF Private
  <2> QED BY <2>1, <2>2, <2>3
<1>2. \A x \in Envs \ {e} : View'[x] = View[x]
  <2> SUFFICES ASSUME NEW x \in Envs \ {e} PROVE View'[x] = View[x] OBVIOUS
  <2>1. \A y \in Private : Alive(x) => At(x, y)' = At(x, y) BY DEF Private
  <2> QED BY <2>1, ViewIs, ViewIsNext
<1>3. View' = [View EXCEPT ![e][va] = v]
  <2>1. View' = [x \in Envs |-> View'[x]] BY ViewIsNext
  <2>2. View = [x \in Envs |-> View[x]] BY ViewIs
  <2> QED BY <1>1, <1>2, <2>1, <2>2
<1>4. Shared' = Shared
  <2>1. "share" \in VA /\ va # "share" BY PageNames
  <2>2. Alive(e)' /\ At(e, "share")' = At(e, "share") BY <2>1
  <2> QED BY <2>2, ViewIs, ViewIsNext
<1> QED BY <1>3, <1>4

LEMMA WriteRefines ==
    ASSUME IInv, IInv', NEW e \in Envs, NEW va \in VA, NEW v \in Values, Write(e, va, v)
    PROVE  Memory!Next
<1>1. /\ Alive(e) /\ At(e, va)' = v /\ st' = st
      /\ \A x \in Envs, y \in VA :
             Alive(x) /\ (x # e \/ y # va) /\ (y # "share" \/ va # "share")
                 => At(x, y)' = At(x, y)
  BY WriteKeeps DEF Write
<1>2. \A x \in Envs : Alive(x)' <=> Alive(x) BY <1>1 DEF Alive
<1>3. CASE va = "share"
  <2>1. \A x \in Envs, y \in Private : Alive(x) => At(x, y)' = At(x, y)
    BY <1>1, <1>3, PageNames
  <2>2. View' = View BY <1>2, <2>1, ViewIs, ViewIsNext
  <2>3. Shared' = v BY <1>1, <1>2, <1>3, ViewIsNext
  <2>4. fk' = fk BY <1>3 DEF Write, Seen
  <2>5. Memory!WriteShared(v) BY <2>2, <2>3, <2>4 DEF Memory!WriteShared
  <2> QED BY <2>5 DEF Memory!Next
<1>4. CASE va # "share"
  <2>1. va \in Private BY <1>4 DEF Private
  <2>2. View' = [View EXCEPT ![e][va] = v] /\ Shared' = Shared
    BY <1>1, <1>2, <1>4, <2>1, WriteSeen
  <2>3. View[e] # NotBorn BY <1>1, ViewIs
  <2>4. SeenBy' = IF va = "stack" /\ SeenBy[e] # {}
                    THEN [SeenBy EXCEPT ![e] = @ \cup {v}] ELSE SeenBy
    <3>1. SeenBy[e] # {} <=> fk[e].pc # "no" BY DEF SeenBy, IInv, Living, LiveOk
    <3>2. CASE va = "stack" /\ fk[e].pc # "no"
      <4>1. fk' = [fk EXCEPT ![e].seen = @ \cup {v}] BY <3>2 DEF Write, Seen
      <4>2. fk'[e].seen = fk[e].seen \cup {v} /\ \A x \in Envs \ {e} : fk'[x] = fk[x]
        <5>1. fk[e] \in ForkState BY DEF IInv, Typed
        <5> QED BY <4>1, <5>1 DEF IInv, Typed, ForkState
      <4> QED BY <3>1, <3>2, <4>2 DEF SeenBy
    <3>3. CASE ~(va = "stack" /\ fk[e].pc # "no")
      <4>1. fk' = fk BY <3>3 DEF Write, Seen
      <4> QED BY <3>1, <3>3, <4>1 DEF SeenBy
    <3> QED BY <3>2, <3>3
  <2>5. Memory!Write(e, va, v) BY <2>2, <2>3, <2>4 DEF Memory!Write, SeenBy
  <2> QED BY <2>1, <2>5 DEF Memory!Next
<1> QED BY <1>3, <1>4

LEMMA ReplyRefines ==
    ASSUME IInv, IInv', NEW v \in Values, Reply(v)
    PROVE  Memory!Next
<1>1. PICK c \in Envs : c = srv.client BY Fields DEF IInv
<1>2. st[c] = "wait" /\ Alive(c) BY <1>1 DEF Reply, IInv, Serving, Alive
<1>3. st' = [st EXCEPT ![c] = "run"] /\ fk' = fk /\ pt' = pt BY <1>1 DEF Reply
<1>4. \A x \in Envs : Alive(x)' <=> Alive(x) BY <1>2, <1>3 DEF Alive, IInv, Typed
<1>5. /\ (mem["buf"][pt[c]["buf"].f])' = v
      /\ \A x \in Envs, y \in VA :
             pt[x][y].f # 0 /\ (x # c \/ y # "buf") => At(x, y)' = At(x, y)
  <2>1. srv'.client = c
    <3>1. srv \in Request BY DEF IInv, Typed
    <3> QED BY <1>1, <3>1 DEF Reply, Request
  <2> QED BY <1>1, <2>1, ReplyKeeps DEF At
<1>6. "buf" \in Private /\ At(c, "buf")' = v BY <1>5, PageNames DEF At
<1>7. \A x \in Envs, y \in VA : Alive(x) /\ (x # c \/ y # "buf") => At(x, y)' = At(x, y)
  BY <1>5 DEF IInv, Living, LiveOk
<1>8. View' = [View EXCEPT ![c]["buf"] = v] /\ Shared' = Shared
  BY <1>2, <1>4, <1>6, <1>7, WriteSeen
<1>9. View[c] # NotBorn BY <1>2, ViewIs
<1>10. Memory!Write(c, "buf", v) BY <1>3, <1>8, <1>9 DEF Memory!Write
<1> QED BY <1>6, <1>10 DEF Memory!Next

LEMMA ForkBeginRefines ==
    ASSUME IInv, IInv', NEW e \in Envs, NEW c \in Envs, ForkBegin(e, c)
    PROVE  Memory!Next
<1>1. /\ st[e] = "run" /\ st[c] = "free" /\ st' = [st EXCEPT ![c] = "embryo"]
      /\ pt' = pt /\ mem' = mem
      /\ fk' = [fk EXCEPT ![e] = [pc |-> "pte", child |-> c, i |-> 1, pte |-> "r",
                                  seen |-> {At(e, "stack")}]]
  BY DEF ForkBegin, Idle, Runs
<1>2. \A x \in Envs : Alive(x)' <=> Alive(x) BY <1>1 DEF Alive, IInv, Typed
<1>3. \A x \in Envs, y \in VA : At(x, y)' = At(x, y) BY <1>1 DEF At
<1>4. View' = View /\ Shared' = Shared
  <2>1. View' = View BY <1>2, <1>3, ViewIs, ViewIsNext, PageNames
  <2>2. Alive(e) /\ "share" \in VA BY <1>1, PageNames DEF Alive
  <2> QED BY <1>2, <1>3, <2>1, <2>2, ViewIs, ViewIsNext
<1>5. View[e] # NotBorn /\ View[e]["stack"] = At(e, "stack")
  <2>1. Alive(e) /\ "stack" \in Private BY <1>1, PageNames DEF Alive
  <2> QED BY <2>1, ViewIs
<1>6. fk'[e].seen = {At(e, "stack")} /\ \A x \in Envs \ {e} : fk'[x] = fk[x]
  BY <1>1 DEF IInv, Typed
<1>7. SeenBy' = [SeenBy EXCEPT ![e] = {View[e]["stack"]}] BY <1>5, <1>6 DEF SeenBy
<1>8. Memory!Begin(e) BY <1>4, <1>5, <1>7 DEF Memory!Begin, SeenBy
<1> QED BY <1>8 DEF Memory!Next

LEMMA ForkNoMemRefines ==
    ASSUME IInv, IInv', NEW e \in Envs, ForkNoMem(e)
    PROVE  Memory!Next
<1>1. st' = st /\ pt' = pt /\ mem' = mem /\ fk' = [fk EXCEPT ![e] = NotForking]
  BY DEF ForkNoMem
<1>2. View' = View /\ Shared' = Shared
  BY <1>1 DEF View, Shared, At
<1>3. fk'[e].seen = {} /\ \A x \in Envs \ {e} : fk'[x] = fk[x]
  BY <1>1 DEF IInv, Typed, NotForking
<1>4. SeenBy' = [SeenBy EXCEPT ![e] = {}] BY <1>3 DEF SeenBy
<1>5. Memory!Fail(e) BY <1>2, <1>4 DEF Memory!Fail, SeenBy
<1> QED BY <1>5 DEF Memory!Next

LEMMA FaultNoMemRefines ==
    ASSUME IInv, IInv', NEW e \in Envs, FaultNoMem(e)
    PROVE  Memory!Next
<1>1. /\ pt' = pt /\ mem' = mem /\ fk' = [fk EXCEPT ![e] = NotForking]
      /\ st[e] = "run" /\ st' = [st EXCEPT ![e] = "nomem"]
  BY DEF FaultNoMem
<1>2. \A x \in Envs : Alive(x)' <=> Alive(x) BY <1>1 DEF Alive, IInv, Typed
<1>3. View' = View /\ Shared' = Shared
  <2>1. View' = [x \in Envs |-> IF Alive(x)' THEN [va \in Private |-> At(x, va)'] ELSE NotBorn]
    BY DEF View, Alive
  <2>2. View = [x \in Envs |-> IF Alive(x) THEN [va \in Private |-> At(x, va)] ELSE NotBorn]
    BY DEF View, Alive
  <2>3. \A x \in Envs, va \in VA : At(x, va)' = At(x, va) BY <1>1 DEF At
  <2>4. View' = View BY <1>2, <2>1, <2>2, <2>3 DEF Private
  <2>5. Shared' = Shared BY <1>1 DEF Shared, At
  <2> QED BY <2>4, <2>5
<1>4. fk'[e].seen = {} /\ \A x \in Envs \ {e} : fk'[x] = fk[x]
  BY <1>1 DEF IInv, Typed, NotForking
<1>5. SeenBy' = [SeenBy EXCEPT ![e] = {}] BY <1>4 DEF SeenBy
<1>6. Memory!Fail(e) BY <1>3, <1>5 DEF Memory!Fail, SeenBy
<1> QED BY <1>6 DEF Memory!Next

\* The child is born with its parent's text and data, and with a stack its
\* parent had.
LEMMA ForkStatusRefines ==
    ASSUME IInv, IInv', NEW e \in Envs, ForkStatus(e)
    PROVE  Memory!Next
<1>1. PICK c \in Envs : c = fk[e].child BY Fields DEF IInv
<1>2. /\ st[e] = "run" /\ fk[e].pc = "status" /\ pt' = pt /\ mem' = mem
      /\ st' = [st EXCEPT ![c] = "run"] /\ fk' = [fk EXCEPT ![e] = NotForking]
  BY <1>1 DEF ForkStatus, Forks, Runs
<1>3. c # e /\ st[c] = "embryo" BY <1>1, <1>2, Child
<1>4. /\ Alive(c)' /\ ~Alive(c) /\ Alive(e)
      /\ \A x \in Envs \ {c} : Alive(x)' <=> Alive(x)
  BY <1>2, <1>3 DEF Alive, IInv, Typed
<1>5. \A x \in Envs, y \in VA : At(x, y)' = At(x, y) BY <1>2 DEF At
<1>6. PICK v : v = At(c, "stack") OBVIOUS
<1>7. /\ v \in SeenBy[e] /\ v \in Values
      /\ \A y \in Private : At(c, y) = IF y = "stack" THEN v ELSE At(e, y)
  <2>1. CopyOk(e) /\ Given(e, 1) /\ Given(e, 2) /\ Given(e, 4)
    BY <1>2 DEF IInv, Copies, Given
  <2>2. v \in fk[e].seen BY <1>1, <1>2, <1>6, <2>1 DEF CopyOk
  <2>3. pt[c]["text"].f = pt[e]["text"].f /\ pt[c]["buf"].f = pt[e]["buf"].f
    <3>1. 1 \in 1 .. 3 /\ 2 \in 1 .. 3 OBVIOUS
    <3> QED BY <1>1, <1>2, <2>1, <3>1, PageNames DEF CopyOk
  <2>4. \A y \in Private : y = "text" \/ y = "buf" \/ y = "stack" BY PageNames
  <2> QED BY <1>6, <2>2, <2>3, <2>4, Fields DEF SeenBy, IInv, At
<1>8. View' = [View EXCEPT ![c] = [View[e] EXCEPT !["stack"] = v]]
  <2>1. View' = [x \in Envs |-> View'[x]] BY ViewIsNext
  <2>2. View = [x \in Envs |-> View[x]] BY ViewIs
  <2>3. View'[c] = [y \in Private |-> At(c, y)'] BY <1>4, ViewIsNext
  <2>4. View[e] = [y \in Private |-> At(e, y)] BY <1>4, ViewIs
  <2>5. View'[c] = [View[e] EXCEPT !["stack"] = v]
    BY <1>5, <1>7, <2>3, <2>4 DEF Private
  <2>6. \A x \in Envs \ {c} : View'[x] = View[x]
    BY <1>4, <1>5, ViewIs, ViewIsNext, PageNames
  <2> QED BY <2>1, <2>2, <2>5, <2>6
<1>9. Shared' = Shared
  <2>1. Alive(e)' /\ "share" \in VA BY <1>3, <1>4, PageNames
  <2> QED BY <1>4, <1>5, <2>1, ViewIs, ViewIsNext
<1>10. SeenBy' = [SeenBy EXCEPT ![e] = {}]
  <2>1. fk'[e].seen = {} /\ \A x \in Envs \ {e} : fk'[x] = fk[x]
    BY <1>2 DEF IInv, Typed, NotForking
  <2> QED BY <2>1 DEF SeenBy
<1>11. View[e] # NotBorn /\ View[c] = NotBorn BY <1>4, ViewIs
<1>12. Memory!Birth(e, c, v)
  BY <1>7, <1>8, <1>9, <1>10, <1>11 DEF Memory!Birth, SeenBy
<1> QED BY <1>7, <1>12 DEF Memory!Next

LEMMA ExitRefines ==
    ASSUME IInv, IInv', NEW e \in Envs, Exit(e)
    PROVE  Memory!Next
<1>1. /\ st[e] = "run" /\ fk[e].pc = "no" /\ fk' = fk
      /\ st' = [st EXCEPT ![e] = "free"]
  BY DEF Exit, Idle, Runs
<1>2. PICK x \in Envs \ {e} : Alive(x) BY DEF Exit, Alive
<1>3. ~Alive(e)' /\ \A z \in Envs \ {e} : Alive(z)' <=> Alive(z)
  BY <1>1 DEF Alive, IInv, Typed
<1>4. \A z \in Envs \ {e}, y \in VA : Alive(z) => At(z, y)' = At(z, y)
  BY ExitKeeps DEF IInv, Living, LiveOk
<1>5. View' = [View EXCEPT ![e] = NotBorn]
  <2>1. View' = [z \in Envs |-> View'[z]] BY ViewIsNext
  <2>2. View = [z \in Envs |-> View[z]] BY ViewIs
  <2>3. View'[e] = NotBorn BY <1>3, ViewIsNext
  <2>4. \A z \in Envs \ {e} : View'[z] = View[z]
    BY <1>3, <1>4, ViewIs, ViewIsNext, PageNames
  <2> QED BY <2>1, <2>2, <2>3, <2>4
<1>6. Shared' = Shared
  <2>1. Alive(x)' /\ At(x, "share")' = At(x, "share") BY <1>2, <1>3, <1>4, PageNames
  <2> QED BY <1>2, <2>1, ViewIs, ViewIsNext
<1>7. SeenBy' = [SeenBy EXCEPT ![e] = {}]
  BY <1>1 DEF SeenBy, IInv, Living, LiveOk
<1>8. Memory!Exit(e) BY <1>5, <1>6, <1>7 DEF Memory!Exit, SeenBy
<1> QED BY <1>8 DEF Memory!Next

\* The other steps change what nobody sees.
LEMMA OthersRefine ==
    ASSUME IInv, IInv', NEW e \in Envs,
           \/ \E va \in VA : Fault(e, va)
           \/ FaultAlloc(e) \/ FaultCopy(e) \/ FaultMap(e) \/ FaultUnmap(e)
           \/ ForkNoHandler(e) \/ ForkNoEnv(e) \/ ForkPte(e) \/ ForkChild(e) \/ ForkSelf(e)
           \/ ForkUpcall(e) \/ fsipc(e) \/ SyncPanics(e)
    PROVE  View' = View /\ Shared' = Shared /\ SeenBy' = SeenBy
<1>1. \A x \in Envs, y \in VA : Alive(x) => pt[x][y].f # 0
  BY DEF IInv, Living, LiveOk
<1>2. CASE \/ \E va \in VA : Fault(e, va)
           \/ FaultAlloc(e) \/ FaultUnmap(e) \/ ForkNoEnv(e)
  <2>1. st' = st /\ pt' = pt /\ mem' = mem /\ fk' = fk
    <3>1. ASSUME NEW va \in VA, Fault(e, va)
          PROVE  st' = st /\ pt' = pt /\ mem' = mem /\ fk' = fk
      <4>1. upcall[e]
        BY <3>1, Running DEF Fault, Idle, Forks, Runs, IInv, Handled, HandleOk
      <4> QED BY <3>1, <4>1 DEF Fault
    <3> QED BY <1>2, <3>1 DEF FaultAlloc, FaultUnmap, ForkNoEnv
  <2> QED BY <2>1 DEF View, Shared, SeenBy, At
<1>3. CASE FaultCopy(e) \/ ForkSelf(e)
  <2>1. \A x \in Envs, y \in VA : Alive(x) => At(x, y)' = At(x, y)
    BY <1>1, <1>3, FaultCopyKeeps, ForkSelfKeeps
  <2>2. st' = st BY <1>3 DEF FaultCopy, ForkSelf
  <2>3. \A x \in Envs : fk'[x].seen = fk[x].seen
    <3>1. CASE FaultCopy(e) BY <3>1 DEF FaultCopy
    <3>2. CASE ForkSelf(e) BY <3>2 DEF ForkSelf, ForkNext, IInv, Typed, ForkState
    <3> QED BY <1>3, <3>1, <3>2
  <2> QED BY <2>1, <2>2, <2>3, Unseen DEF Alive
<1>4. CASE FaultMap(e)
  <2>1. \A x \in Envs, y \in VA : pt'[x][y].f # 0 => At(x, y)' = At(x, y)
    BY <1>4, FaultMapKeeps
  <2>2. st' = st /\ fk' = fk BY <1>4 DEF FaultMap
  <2>3. (\A x \in Envs, y \in VA : Alive(x) => pt[x][y].f # 0)'
    BY DEF IInv, Living, LiveOk
  <2>4. \A x \in Envs, y \in VA : Alive(x) => At(x, y)' = At(x, y)
    BY <2>1, <2>2, <2>3 DEF Alive
  <2> QED BY <2>2, <2>4, Unseen DEF Alive
<1>5. CASE ForkPte(e) \/ ForkUpcall(e)
  <2>1. st' = st /\ pt' = pt /\ mem' = mem BY <1>5 DEF ForkPte, ForkUpcall
  <2>2. \A x \in Envs : fk'[x].seen = fk[x].seen
    <3>1. CASE ForkPte(e)
      <4>1. CASE fk' = ForkNext(e) BY <4>1 DEF ForkNext, IInv, Typed, ForkState
      <4>2. CASE fk' # ForkNext(e)
        <5>1. PICK pte : fk' = [fk EXCEPT ![e].pte = pte, ![e].pc = "child"]
          BY <3>1, <4>2 DEF ForkPte
        <5> QED BY <5>1 DEF IInv, Typed, ForkState
      <4> QED BY <4>1, <4>2
    <3>2. CASE ForkUpcall(e)
      BY <3>2 DEF ForkUpcall, IInv, Typed, ForkState
    <3> QED BY <1>5, <3>1, <3>2
  <2> QED BY <2>1, <2>2, Unseen DEF Alive, At
<1>6. CASE ForkChild(e)
  <2>1. \A x \in Envs, y \in VA : Alive(x) => At(x, y)' = At(x, y)
    BY <1>6, ForkChildKeeps
  <2>2. st' = st BY <1>6 DEF ForkChild
  <2>3. \A x \in Envs : fk'[x].seen = fk[x].seen
    BY <1>6 DEF ForkChild, ForkNext, IInv, Typed, ForkState
  <2> QED BY <2>1, <2>2, <2>3, Unseen DEF Alive
<1>7. CASE fsipc(e) \/ SyncPanics(e) \/ ForkNoHandler(e)
  <2>1. /\ pt' = pt /\ mem' = mem /\ fk' = fk
        /\ \A x \in Envs : Alive(x)' <=> Alive(x)
    BY <1>7 DEF fsipc, SyncPanics, ForkNoHandler, Idle, Runs, Alive, IInv, Typed
  <2> QED BY <2>1, Unseen DEF At
<1> QED BY <1>2, <1>3, <1>4, <1>5, <1>6, <1>7

LEMMA InitRefines == Init => Memory!Init
<1> SUFFICES ASSUME Init PROVE Memory!Init OBVIOUS
<1>1. IInv BY InitIInv
<1>2. /\ st = [e \in Envs |-> IF e = First THEN "run" ELSE "free"]
      /\ mem = [va \in VA |-> [f \in Frames |-> Zero]]
      /\ fk = [e \in Envs |-> NotForking]
  BY DEF Init
<1>3. First \in Envs /\ Zero \in Values BY CowForkAssumption
<1>4. \A e \in Envs : Alive(e) <=> e = First BY <1>2, <1>3 DEF Alive
<1>5. \A y \in VA : At(First, y) = Zero
  BY <1>1, <1>2, <1>3, <1>4, Fields DEF At, IInv, Living, LiveOk
<1>6. PICK m \in [Private -> Values] : m = [y \in Private |-> Zero] BY <1>3
<1>7. View = [x \in Envs |-> IF x = First THEN m ELSE NotBorn]
  <2>1. View = [x \in Envs |-> View[x]] BY <1>1, ViewIs
  <2>2. \A x \in Envs : View[x] # NotBorn <=> x = First BY <1>1, <1>4, ViewIs
  <2>3. View[First] = m
    BY <1>1, <1>3, <1>4, <1>5, <1>6, ViewIs DEF Private
  <2> QED BY <2>1, <2>2, <2>3
<1>8. Shared = Zero BY <1>1, <1>3, <1>4, <1>5, ViewIs, PageNames
<1>9. SeenBy = [x \in Envs |-> {}] BY <1>2 DEF SeenBy, NotForking
<1> QED BY <1>3, <1>7, <1>8, <1>9 DEF Memory!Init, SeenBy

LEMMA NextRefines ==
    ASSUME IInv, IInv', [Next]_vars
    PROVE  [Memory!Next]_Memory!vars
<1>1. CASE \E e \in Envs, va \in VA, v \in Values : Write(e, va, v)
  BY <1>1, WriteRefines
<1>2. CASE \E v \in Values : Reply(v) BY <1>2, ReplyRefines
<1>3. CASE \E e \in Envs : \/ \E c \in Envs : ForkBegin(e, c)
                           \/ FaultNoMem(e) \/ ForkNoMem(e) \/ ForkStatus(e) \/ Exit(e)
  BY <1>3, ForkBeginRefines, FaultNoMemRefines, ForkNoMemRefines, ForkStatusRefines,
     ExitRefines
<1>4. CASE \E e \in Envs :
              \/ \E va \in VA : Fault(e, va)
              \/ FaultAlloc(e) \/ FaultCopy(e) \/ FaultMap(e) \/ FaultUnmap(e)
              \/ ForkNoHandler(e) \/ ForkNoEnv(e) \/ ForkPte(e) \/ ForkChild(e)
              \/ ForkSelf(e) \/ ForkUpcall(e) \/ fsipc(e) \/ SyncPanics(e)
  <2>1. View' = View /\ Shared' = Shared /\ SeenBy' = SeenBy BY <1>4, OthersRefine
  <2> QED BY <2>1 DEF Memory!vars, SeenBy
<1>5. CASE Unmap
  <2>1. \A x \in Envs, y \in VA : Alive(x) => At(x, y)' = At(x, y)
    BY <1>5, UnmapKeeps DEF IInv, Living, LiveOk
  <2>2. st' = st /\ fk' = fk BY <1>5 DEF Unmap
  <2>3. View' = View /\ Shared' = Shared /\ SeenBy' = SeenBy
    BY <2>1, <2>2, Unseen DEF Alive
  <2> QED BY <2>3 DEF Memory!vars, SeenBy
<1>6. CASE UNCHANGED vars
  BY <1>6 DEF vars, Memory!vars, View, Shared, At
<1> QED BY <1>1, <1>2, <1>3, <1>4, <1>5, <1>6 DEF Next, fork, pgfault

\* fork() gives the child the parent's memory and a stack the parent had, and
\* each of them a memory of its own from then on.
THEOREM Refinement == Spec => ImplementsForkMemory
<1>1. IInv /\ IInv' /\ [Next]_vars => [Memory!Next]_Memory!vars
  BY NextRefines
<1> QED
  BY <1>1, InitRefines, SpecIInv, NextIInv, PTL
     DEF Spec, ImplementsForkMemory, Memory!Spec
=============================================================================
