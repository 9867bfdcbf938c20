--------------------------- MODULE EnvSchedProofs ---------------------------
(***************************************************************************)
(* TLAPS proofs about EnvSched: for any number of CPUs, slots, boot        *)
(* environments and generations, user programs that keep the discipline of *)
(* lib/ (Lapses = {}) never bring an environment onto two CPUs, never have *)
(* its slot freed under a CPU, and never corrupt the free list.            *)
(***************************************************************************)
EXTENDS EnvSched, TLAPS, SequenceTheorems

-----------------------------------------------------------------------------
(* The inductive invariant.                                                *)

\* fl lists the FREE slots of st, each once.
ExactList(st, fl) ==
    /\ \A e \in Envs : st[e] = "FREE" <=> \E i \in DOMAIN fl : fl[i] = e
    /\ \A i, j \in DOMAIN fl : fl[i] = fl[j] => i = j

\* A CPU that is not in the course of running an environment has none.
UnboundIsIdle ==
    \A c \in CPUs :
        pc[c] \in {"boot", "halted", "wake", "idle"} =>
            curenv[c] = NULL /\ cr3[c] = NULL

\* An environment on a CPU has run since env_alloc(): lib/ does not start it.
BoundHasRun == \A c \in CPUs : pc[c] \in OnEnv => env_runs[curenv[c]]

\* Only an environment that ran and is blocked in sys_ipc_recv() receives;
\* in particular no free slot does.
RecvingHasRun ==
    \A e \in Envs :
        env_ipc_recving[e] => env_status[e] = "NOT_RUNNABLE" /\ env_runs[e]

IInv ==
    /\ TypeOK
    /\ KernelExclusive
    /\ FreeListExact
    /\ OneCPU
    /\ BoundIsRunning
    /\ RunningIsBound
    /\ Cr3Current
    /\ UnboundIsIdle
    /\ BoundHasRun
    /\ RecvingHasRun

-----------------------------------------------------------------------------
(***************************************************************************)
(* What a handler on CPU c has to leave behind for the scheduler: st, rn,  *)
(* rec, fl, cur and pd are env_status, env_runs, env_ipc_recving,          *)
(* env_free_list, curenv and %cr3 at the time it leaves the kernel.        *)
(***************************************************************************)
Others(c) == {d \in CPUs \ {c} : pc[d] \in OnEnv}

Ready(c, st, rn, rec, fl, cur, pd) ==
    /\ st \in [Envs -> Statuses]
    /\ rn \in [Envs -> BOOLEAN]
    /\ rec \in [Envs -> BOOLEAN]
    /\ fl \in Seq(Envs)
    /\ ExactList(st, fl)
    /\ cur \in Envs \cup {NULL}
    /\ cur # NULL => st[cur] # "RUNNABLE"
    /\ cur # NULL /\ st[cur] = "RUNNING" =>
          rn[cur] /\ \A d \in Others(c) : curenv[d] # cur
    /\ pd # NULL => pd = cur /\ st[pd] # "FREE"
    /\ \A d \in Others(c) : /\ st[curenv[d]] \in {"RUNNING", "DYING"}
                            /\ rn[curenv[d]]
    /\ \A e \in Envs : st[e] \in {"RUNNING", "DYING"} =>
          \/ e = cur /\ st[e] = "RUNNING"
          \/ \E d \in Others(c) : curenv[d] = e
    /\ \A e \in Envs : rec[e] => st[e] = "NOT_RUNNABLE" /\ rn[e]

Holds(c) == pc[c] \in {"kernel", "idle"}

IdsTyped ==
    /\ env_gen \in [Envs -> 0 .. MaxGen]
    /\ env_parent_id \in [Envs -> EnvIds]

-----------------------------------------------------------------------------

LEMMA NullNotEnv == NULL \notin Envs /\ NULL \notin CPUs
BY ConstantsAssumption DEF NULL, Envs, CPUs

\* Switching to a slot that sched_yield() may choose keeps the invariant.
LEMMA EnvRunKeeps ==
    ASSUME IInv, NEW c \in CPUs, Holds(c),
           NEW st, NEW rn, NEW cur, NEW pd, NEW e \in Envs,
           Ready(c, st, rn, env_ipc_recving', env_free_list', cur, pd),
           Eligible(st, cur, e),
           EnvRun(c, st, rn, cur, pd, e),
           IdsTyped'
    PROVE  IInv'
<1> USE NullNotEnv
<1> DEFINE ns == IF cur = e THEN st ELSE [Descheduled(st, cur) EXCEPT ![e] = "RUNNING"]
<1>t. /\ st \in [Envs -> Statuses]
      /\ rn \in [Envs -> BOOLEAN]
      /\ curenv \in [CPUs -> Envs \cup {NULL}]
      /\ cr3 \in [CPUs -> Envs \cup {NULL}]
      /\ pc \in [CPUs -> Locations]
      /\ cur \in Envs \cup {NULL}
      /\ pd \in Envs \cup {NULL}
  BY DEF IInv, TypeOK, Ready
<1>1. /\ env_status' = ns
      /\ env_runs' = IF cur = e THEN rn ELSE [rn EXCEPT ![e] = TRUE]
      /\ curenv' = [curenv EXCEPT ![c] = e]
      /\ cr3' = [cr3 EXCEPT ![c] = pd]
      /\ kernel_lock' = NULL
      /\ pc' = [pc EXCEPT ![c] = "leave"]
  BY DEF EnvRun
<1>2. /\ ns \in [Envs -> Statuses]
      /\ ns[e] = "RUNNING"
      /\ \A x \in Envs : x # e /\ x # cur => ns[x] = st[x]
      /\ cur \in Envs /\ cur # e => ns[cur] = IF st[cur] = "RUNNING" THEN "RUNNABLE" ELSE st[cur]
  BY <1>t DEF Descheduled, Eligible, Statuses, Ready
<1>3. st[e] \in {"RUNNABLE", "RUNNING"} /\ (st[e] = "RUNNING" => e = cur)
  BY DEF Eligible, Ready
<1>4. \A d \in Others(c) : curenv[d] \in Envs /\ curenv[d] # e
  BY <1>3, <1>t DEF Ready, Others, IInv, BoundIsRunning
<1>5. \A d \in Others(c) : curenv[d] # cur \/ st[cur] # "RUNNING"
  BY <1>4 DEF Ready
<1>6. \A d \in Others(c) : ns[curenv[d]] = st[curenv[d]]
  BY <1>2, <1>4, <1>5
<1>7. \A d \in CPUs : d # c => /\ pc'[d] = pc[d]
                               /\ curenv'[d] = curenv[d]
                               /\ cr3'[d] = cr3[d]
  BY <1>1, <1>t
<1>8. pc'[c] = "leave" /\ curenv'[c] = e
  BY <1>1, <1>t
<1>9. \A d \in CPUs : d # c /\ pc[d] \in OnEnv => d \in Others(c)
  BY DEF Others
<1>10. \A d \in CPUs : d # c => pc[d] \notin {"kernel", "idle", "monitor"}
  BY DEF IInv, KernelExclusive, Holds
<1>a. TypeOK'
  BY <1>1, <1>2, <1>t DEF TypeOK, IdsTyped, Ready, Locations
<1>b. KernelExclusive'
  BY <1>1, <1>7, <1>8, <1>10 DEF KernelExclusive
<1>c. FreeListExact'
  <2>1. \A x \in Envs : ns[x] = "FREE" <=> st[x] = "FREE"
    BY <1>2, <1>3, <1>t
  <2> QED BY <2>1, <1>1 DEF FreeListExact, ExactList, Ready
<1>d. OneCPU'
  BY <1>4, <1>7, <1>8, <1>9 DEF OneCPU, IInv
<1>e. BoundIsRunning'
  <2> SUFFICES ASSUME NEW d \in CPUs, pc'[d] \in OnEnv
               PROVE curenv'[d] # NULL /\ env_status'[curenv'[d]] \in {"RUNNING", "DYING"}
    BY DEF BoundIsRunning
  <2>1. CASE d = c BY <2>1, <1>8, <1>1, <1>2
  <2>2. CASE d # c
    <3>1. d \in Others(c) BY <2>2, <1>7, <1>9
    <3> QED BY <3>1, <2>2, <1>1, <1>4, <1>6, <1>7 DEF Ready
  <2> QED BY <2>1, <2>2
<1>f. RunningIsBound'
  <2> SUFFICES ASSUME NEW x \in Envs, ns[x] \in {"RUNNING", "DYING"}
               PROVE \E d \in CPUs : pc'[d] \in OnEnv /\ curenv'[d] = x
    BY <1>1 DEF RunningIsBound
  <2>1. CASE x = e BY <2>1, <1>8 DEF OnEnv
  <2>2. CASE x # e
    <3>1. st[x] \in {"RUNNING", "DYING"} /\ ~(x = cur /\ st[x] = "RUNNING")
      BY <2>2, <1>2
    <3>2. PICK d \in Others(c) : curenv[d] = x
      BY <3>1 DEF Ready
    <3> QED BY <3>2, <1>7 DEF Others
  <2> QED BY <2>1, <2>2
<1>g. Cr3Current'
  <2> SUFFICES ASSUME NEW d \in CPUs, pc'[d] # "leave", cr3'[d] # NULL
               PROVE cr3'[d] = curenv'[d] /\ env_status'[cr3'[d]] # "FREE"
    BY DEF Cr3Current
  <2>1. d # c BY <1>8
  <2>2. pc[d] # "leave" /\ cr3[d] # NULL /\ cr3[d] = curenv[d]
    BY <2>1, <1>7 DEF IInv, Cr3Current
  <2>3. pc[d] \in Locations BY <1>t
  <2>4. pc[d] \in OnEnv
    BY <2>2, <2>3, <2>1, <1>10 DEF IInv, UnboundIsIdle, OnEnv, Locations
  <2>5. d \in Others(c) BY <2>4, <2>1, <1>9
  <2> QED BY <2>1, <2>2, <2>5, <1>1, <1>6, <1>7 DEF Ready
<1>h. UnboundIsIdle'
  BY <1>7, <1>8 DEF IInv, UnboundIsIdle
<1>i. BoundHasRun'
  <2> SUFFICES ASSUME NEW d \in CPUs, pc'[d] \in OnEnv
               PROVE env_runs'[curenv'[d]]
    BY DEF BoundHasRun
  <2>1. CASE d = c BY <2>1, <1>8, <1>1, <1>t, <1>3 DEF Ready
  <2>2. CASE d # c
    <3>1. d \in Others(c) BY <2>2, <1>7, <1>9
    <3> QED BY <3>1, <2>2, <1>1, <1>4, <1>7, <1>t DEF Ready
  <2> QED BY <2>1, <2>2
<1>j. RecvingHasRun'
  <2> SUFFICES ASSUME NEW x \in Envs, env_ipc_recving'[x]
               PROVE ns[x] = "NOT_RUNNABLE" /\ env_runs'[x]
    BY <1>1 DEF RecvingHasRun
  <2>1. st[x] = "NOT_RUNNABLE" /\ rn[x] BY DEF Ready
  <2>2. x # e BY <2>1, <1>3
  <2> QED BY <2>1, <2>2, <1>1, <1>2, <1>t
<1> QED BY <1>a, <1>b, <1>c, <1>d, <1>e, <1>f, <1>g, <1>h, <1>i, <1>j DEF IInv

\* Halting the CPU, or stopping in the monitor, keeps the invariant when
\* sched_yield() found nothing to run.
LEMMA SchedHaltKeeps ==
    ASSUME IInv, NEW c \in CPUs, Holds(c),
           NEW st, NEW rn, NEW cur, NEW pd,
           Ready(c, st, rn, env_ipc_recving', env_free_list', cur, pd),
           \A e \in Envs : ~Eligible(st, cur, e),
           SchedHalt(c, st, rn, cur, pd),
           IdsTyped'
    PROVE  IInv'
<1> USE NullNotEnv
<1>t. /\ st \in [Envs -> Statuses]
      /\ rn \in [Envs -> BOOLEAN]
      /\ curenv \in [CPUs -> Envs \cup {NULL}]
      /\ cr3 \in [CPUs -> Envs \cup {NULL}]
      /\ pc \in [CPUs -> Locations]
      /\ cur \in Envs \cup {NULL}
      /\ pd \in Envs \cup {NULL}
  BY DEF IInv, TypeOK, Ready
<1>1. env_status' = st /\ env_runs' = rn
  BY DEF SchedHalt
<1>2. /\ curenv' = [curenv EXCEPT ![c] = curenv'[c]]
      /\ cr3' = [cr3 EXCEPT ![c] = cr3'[c]]
      /\ pc' = [pc EXCEPT ![c] = pc'[c]]
  BY <1>t DEF SchedHalt
<1>3. \/ /\ pc'[c] = "halted" /\ kernel_lock' = NULL
         /\ curenv'[c] = NULL /\ cr3'[c] = NULL
      \/ /\ pc'[c] = "monitor" /\ kernel_lock' = c
         /\ curenv'[c] = cur /\ cr3'[c] = pd
  BY <1>t DEF SchedHalt
<1>4. \A d \in Others(c) : curenv[d] \in Envs
  BY <1>t DEF Others, IInv, BoundIsRunning
<1>5. \A d \in CPUs : d # c => /\ pc'[d] = pc[d]
                               /\ curenv'[d] = curenv[d]
                               /\ cr3'[d] = cr3[d]
  BY <1>2, <1>t
<1>6. \A d \in CPUs : d # c /\ pc[d] \in OnEnv => d \in Others(c)
  BY DEF Others
<1>7. \A d \in CPUs : d # c => pc[d] \notin {"kernel", "idle", "monitor"}
  BY DEF IInv, KernelExclusive, Holds
<1>a. TypeOK'
  <2>1. /\ curenv'[c] \in Envs \cup {NULL} /\ cr3'[c] \in Envs \cup {NULL}
        /\ pc'[c] \in Locations /\ kernel_lock' \in CPUs \cup {NULL}
    BY <1>3, <1>t DEF Locations
  <2>2. /\ curenv' \in [CPUs -> Envs \cup {NULL}]
        /\ cr3' \in [CPUs -> Envs \cup {NULL}]
        /\ pc' \in [CPUs -> Locations]
    BY <2>1, <1>2, <1>t
  <2> QED BY <2>1, <2>2, <1>1, <1>t DEF TypeOK, IdsTyped, Ready
<1>b. KernelExclusive'
  BY <1>3, <1>5, <1>7 DEF KernelExclusive
<1>c. FreeListExact'
  BY <1>1 DEF FreeListExact, ExactList, Ready
<1>d. OneCPU'
  BY <1>3, <1>5 DEF OneCPU, IInv, OnEnv
<1>e. BoundIsRunning'
  <2> SUFFICES ASSUME NEW d \in CPUs, pc'[d] \in OnEnv
               PROVE curenv'[d] # NULL /\ st[curenv'[d]] \in {"RUNNING", "DYING"}
    BY <1>1 DEF BoundIsRunning
  <2>1. d # c BY <1>3 DEF OnEnv
  <2>2. d \in Others(c) BY <2>1, <1>5, <1>6
  <2> QED BY <2>1, <2>2, <1>4, <1>5 DEF Ready
<1>f. RunningIsBound'
  <2> SUFFICES ASSUME NEW x \in Envs, st[x] \in {"RUNNING", "DYING"}
               PROVE \E d \in CPUs : pc'[d] \in OnEnv /\ curenv'[d] = x
    BY <1>1 DEF RunningIsBound
  <2>1. ~(x = cur /\ st[x] = "RUNNING") BY DEF Eligible
  <2>2. PICK d \in Others(c) : curenv[d] = x BY <2>1 DEF Ready
  <2> QED BY <2>2, <1>5 DEF Others
<1>g. Cr3Current'
  <2> SUFFICES ASSUME NEW d \in CPUs, pc'[d] # "leave", cr3'[d] # NULL
               PROVE cr3'[d] = curenv'[d] /\ st[cr3'[d]] # "FREE"
    BY <1>1 DEF Cr3Current
  <2>1. CASE d = c BY <2>1, <1>3 DEF Ready
  <2>2. CASE d # c
    <3>1. pc[d] # "leave" /\ cr3[d] # NULL /\ cr3[d] = curenv[d]
      BY <2>2, <1>5 DEF IInv, Cr3Current
    <3>2. pc[d] \in Locations BY <1>t
    <3>3. pc[d] \in OnEnv
      BY <3>1, <3>2, <2>2, <1>7 DEF IInv, UnboundIsIdle, OnEnv, Locations
    <3>4. d \in Others(c) BY <3>3, <2>2, <1>6
    <3> QED BY <2>2, <3>1, <3>4, <1>5 DEF Ready
  <2> QED BY <2>1, <2>2
<1>h. UnboundIsIdle'
  BY <1>3, <1>5 DEF IInv, UnboundIsIdle
<1>i. BoundHasRun'
  <2> SUFFICES ASSUME NEW d \in CPUs, pc'[d] \in OnEnv
               PROVE rn[curenv'[d]]
    BY <1>1 DEF BoundHasRun
  <2>1. d # c BY <1>3 DEF OnEnv
  <2>2. d \in Others(c) BY <2>1, <1>5, <1>6
  <2> QED BY <2>1, <2>2, <1>5 DEF Ready
<1>j. RecvingHasRun'
  BY <1>1 DEF RecvingHasRun, Ready
<1> QED BY <1>a, <1>b, <1>c, <1>d, <1>e, <1>f, <1>g, <1>h, <1>i, <1>j DEF IInv

\* sched_yield() looks at slots of envs[] only, and at every one of them.
LEMMA CandidateInEnvs ==
    ASSUME NEW cur \in Envs \cup {NULL}
    PROVE  /\ \A k \in 1 .. NENV : Candidate(cur, k) \in Envs
           /\ \A e \in Envs : \E k \in 1 .. NENV : Candidate(cur, k) = e
<1>1. cur \in Int /\ cur >= -1 /\ cur < NENV /\ NENV \in Nat \ {0}
  BY ConstantsAssumption DEF Envs, NULL
<1>2. ASSUME NEW k \in 1 .. NENV PROVE Candidate(cur, k) \in Envs
  BY <1>1 DEF Candidate, Envs
<1>3. ASSUME NEW e \in Envs PROVE \E k \in 1 .. NENV : Candidate(cur, k) = e
  <2>1. e \in Int /\ 0 <= e /\ e < NENV BY <1>1 DEF Envs
  <2>2. CASE e > cur
    <3>1. e - cur \in 1 .. NENV /\ (cur + (e - cur)) % NENV = e
      BY <2>1, <2>2, <1>1
    <3> QED BY <3>1 DEF Candidate
  <2>3. CASE e <= cur
    <3>1. e - cur + NENV \in 1 .. NENV BY <2>1, <2>3, <1>1
    <3>2. cur + (e - cur + NENV) = e + NENV BY <2>1, <1>1
    <3>3. (e + NENV) % NENV = e BY <2>1, <1>1
    <3> QED BY <3>1, <3>2, <3>3 DEF Candidate
  <2> QED BY <2>1, <2>2, <2>3, <1>1
<1> QED BY <1>2, <1>3

LEMMA SchedYieldKeeps ==
    ASSUME IInv, NEW c \in CPUs, Holds(c),
           NEW st, NEW rn, NEW cur, NEW pd,
           Ready(c, st, rn, env_ipc_recving', env_free_list', cur, pd),
           SchedYield(c, st, rn, cur, pd),
           IdsTyped'
    PROVE  IInv'
<1>1. cur \in Envs \cup {NULL} BY DEF Ready
<1>2. CASE \E k \in 1 .. NENV : /\ Eligible(st, cur, Candidate(cur, k))
                                /\ EnvRun(c, st, rn, cur, pd, Candidate(cur, k))
  <2>1. PICK k \in 1 .. NENV : /\ Eligible(st, cur, Candidate(cur, k))
                               /\ EnvRun(c, st, rn, cur, pd, Candidate(cur, k))
    BY <1>2
  <2>2. Candidate(cur, k) \in Envs BY <1>1, CandidateInEnvs
  <2> QED BY <2>1, <2>2, EnvRunKeeps
<1>3. CASE /\ \A k \in 1 .. NENV : ~Eligible(st, cur, Candidate(cur, k))
           /\ SchedHalt(c, st, rn, cur, pd)
  <2>1. \A e \in Envs : ~Eligible(st, cur, e)
    BY <1>1, <1>3, CandidateInEnvs
  <2> QED BY <2>1, <1>3, SchedHaltKeeps
<1> QED BY <1>2, <1>3 DEF SchedYield

LEMMA TrapReturnKeeps ==
    ASSUME IInv, NEW c \in CPUs, pc[c] = "kernel",
           NEW st, NEW rn,
           Ready(c, st, rn, env_ipc_recving', env_free_list', curenv[c], cr3[c]),
           TrapReturn(c, st, rn),
           IdsTyped'
    PROVE  IInv'
<1>1. Holds(c) BY DEF Holds
<1>2. CASE st[curenv[c]] = "RUNNING"
  <2>1. EnvRun(c, st, rn, curenv[c], cr3[c], curenv[c])
    BY <1>2 DEF TrapReturn
  <2>2. curenv[c] \in Envs
    BY DEF IInv, BoundIsRunning, TypeOK, OnEnv
  <2> QED BY <1>1, <1>2, <2>1, <2>2, EnvRunKeeps DEF Eligible
<1>3. CASE st[curenv[c]] # "RUNNING"
  BY <1>1, <1>3, SchedYieldKeeps DEF TrapReturn
<1> QED BY <1>2, <1>3

-----------------------------------------------------------------------------
(* The free list.                                                          *)

\* env_free() of a slot in use puts it on the list once.
LEMMA PushExact ==
    ASSUME NEW st \in [Envs -> Statuses], NEW fl \in Seq(Envs), NEW e \in Envs,
           ExactList(st, fl), st[e] # "FREE"
    PROVE  /\ <<e>> \o fl \in Seq(Envs)
           /\ ExactList(Freed(st, e), <<e>> \o fl)
<1> DEFINE nl == <<e>> \o fl
<1>1. /\ nl \in Seq(Envs)
      /\ Len(nl) = Len(fl) + 1
      /\ Len(fl) \in Nat
      /\ nl[1] = e
      /\ \A i \in 1 .. Len(fl) : nl[i + 1] = fl[i]
  OBVIOUS
<1>2. DOMAIN nl = 1 .. Len(fl) + 1 /\ DOMAIN fl = 1 .. Len(fl)
  BY <1>1
<1>3. \A i \in 1 .. Len(fl) + 1 : i = 1 \/ (i - 1 \in 1 .. Len(fl) /\ nl[i] = fl[i - 1])
  <2> TAKE i \in 1 .. Len(fl) + 1
  <2>1. CASE i # 1
    <3>1. i - 1 \in 1 .. Len(fl) /\ (i - 1) + 1 = i BY <2>1, <1>1
    <3> QED BY <3>1, <1>1
  <2> QED BY <2>1
<1>4. \A i \in 1 .. Len(fl) : i + 1 \in 1 .. Len(fl) + 1 /\ nl[i + 1] = fl[i]
  BY <1>1
<1>5. 1 \in 1 .. Len(fl) + 1 BY <1>1
<1>6. \A i \in 1 .. Len(fl) : fl[i] # e
  BY <1>2 DEF ExactList
<1>7. ASSUME NEW x \in Envs
      PROVE Freed(st, e)[x] = "FREE" <=> \E i \in DOMAIN nl : nl[i] = x
  <2>1. CASE x = e BY <2>1, <1>1, <1>2, <1>5 DEF Freed
  <2>2. CASE x # e
    <3>1. Freed(st, e)[x] = st[x] BY <2>2 DEF Freed
    <3>2. ASSUME st[x] = "FREE" PROVE \E i \in DOMAIN nl : nl[i] = x
      <4>1. PICK i \in 1 .. Len(fl) : fl[i] = x BY <3>2, <1>2 DEF ExactList
      <4> QED BY <4>1, <1>2, <1>4
    <3>3. ASSUME NEW i \in DOMAIN nl, nl[i] = x PROVE st[x] = "FREE"
      <4>1. i # 1 BY <3>3, <2>2, <1>1
      <4> QED BY <4>1, <3>3, <1>2, <1>3 DEF ExactList
    <3> QED BY <3>1, <3>2, <3>3
  <2> QED BY <2>1, <2>2
<1>8. ASSUME NEW i \in DOMAIN nl, NEW j \in DOMAIN nl, nl[i] = nl[j]
      PROVE i = j
  <2>1. CASE i = 1 /\ j # 1 BY <2>1, <1>8, <1>1, <1>2, <1>3, <1>6
  <2>2. CASE i # 1 /\ j = 1 BY <2>2, <1>8, <1>1, <1>2, <1>3, <1>6
  <2>3. CASE i # 1 /\ j # 1
    <3>1. i - 1 = j - 1 BY <2>3, <1>8, <1>2, <1>3 DEF ExactList
    <3> QED BY <3>1, <1>2, <1>1
  <2> QED BY <2>1, <2>2, <2>3
<1> QED BY <1>1, <1>7, <1>8 DEF ExactList

\* env_alloc() takes a FREE slot and leaves the others on the list.
LEMMA PopExact ==
    ASSUME NEW st \in [Envs -> Statuses], NEW fl \in Seq(Envs),
           NEW s \in Statuses \ {"FREE"},
           ExactList(st, fl), fl # <<>>
    PROVE  /\ Head(fl) \in Envs
           /\ st[Head(fl)] = "FREE"
           /\ Tail(fl) \in Seq(Envs)
           /\ ExactList([st EXCEPT ![Head(fl)] = s], Tail(fl))
<1> DEFINE e == Head(fl)
           tl == Tail(fl)
<1>1. /\ e \in Envs /\ tl \in Seq(Envs)
      /\ Len(fl) \in Nat /\ Len(fl) >= 1
      /\ Len(tl) = Len(fl) - 1
      /\ e = fl[1]
      /\ \A i \in 1 .. Len(fl) - 1 : tl[i] = fl[i + 1]
  OBVIOUS
<1>2. DOMAIN tl = 1 .. Len(fl) - 1 /\ DOMAIN fl = 1 .. Len(fl)
  BY <1>1
<1>3. 1 \in DOMAIN fl BY <1>1, <1>2
<1>4. st[e] = "FREE" BY <1>1, <1>3 DEF ExactList
<1>5. \A i \in 1 .. Len(fl) - 1 : i + 1 \in DOMAIN fl /\ tl[i] = fl[i + 1] /\ i + 1 # 1
  BY <1>1, <1>2
<1>6. \A i \in 1 .. Len(fl) - 1 : tl[i] # e
  BY <1>5, <1>3, <1>1 DEF ExactList
<1>7. ASSUME NEW x \in Envs
      PROVE [st EXCEPT ![e] = s][x] = "FREE" <=> \E i \in DOMAIN tl : tl[i] = x
  <2>1. CASE x = e BY <2>1, <1>2, <1>6
  <2>2. CASE x # e
    <3>1. ASSUME st[x] = "FREE" PROVE \E i \in DOMAIN tl : tl[i] = x
      <4>1. PICK i \in DOMAIN fl : fl[i] = x BY <3>1 DEF ExactList
      <4>2. i # 1 BY <4>1, <2>2, <1>1
      <4>3. i - 1 \in 1 .. Len(fl) - 1 /\ (i - 1) + 1 = i BY <4>2, <1>1, <1>2
      <4>4. tl[i - 1] = x BY <4>1, <4>3, <1>1
      <4> QED BY <4>3, <4>4, <1>2
    <3>2. ASSUME NEW i \in DOMAIN tl, tl[i] = x PROVE st[x] = "FREE"
      BY <3>2, <1>2, <1>5 DEF ExactList
    <3> QED BY <2>2, <3>1, <3>2
  <2> QED BY <2>1, <2>2
<1>8. ASSUME NEW i \in DOMAIN tl, NEW j \in DOMAIN tl, tl[i] = tl[j]
      PROVE i = j
  <2>1. i + 1 = j + 1 BY <1>8, <1>2, <1>5 DEF ExactList
  <2> QED BY <2>1, <1>2, <1>1
<1> QED BY <1>1, <1>4, <1>7, <1>8 DEF ExactList

-----------------------------------------------------------------------------
(* What a handler starts from.                                             *)

\* The environment CPU c traps from is its own: no other CPU is bound to it.
LEMMA CurrentIsOwn ==
    ASSUME IInv, NEW c \in CPUs, pc[c] = "kernel"
    PROVE  /\ curenv[c] \in Envs
           /\ env_status[curenv[c]] \in {"RUNNING", "DYING"}
           /\ env_runs[curenv[c]]
           /\ ~env_ipc_recving[curenv[c]]
           /\ cr3[c] \in {NULL, curenv[c]}
           /\ \A d \in Others(c) : curenv[d] # curenv[c]
<1>1. pc[c] \in OnEnv BY DEF OnEnv
<1>2. /\ curenv[c] \in Envs
      /\ env_status[curenv[c]] \in {"RUNNING", "DYING"}
      /\ env_runs[curenv[c]]
  BY <1>1 DEF IInv, TypeOK, BoundIsRunning, BoundHasRun
<1>3. ~env_ipc_recving[curenv[c]] BY <1>2 DEF IInv, RecvingHasRun
<1>4. cr3[c] \in {NULL, curenv[c]} BY DEF IInv, Cr3Current
<1>5. \A d \in Others(c) : curenv[d] # curenv[c]
  BY <1>1 DEF IInv, OneCPU, Others
<1> QED BY <1>2, <1>3, <1>4, <1>5

\* The other CPUs, the free list and the receivers, whatever c does.
LEMMA OthersNow ==
    ASSUME IInv, NEW c \in CPUs, Holds(c)
    PROVE  /\ env_status \in [Envs -> Statuses]
           /\ env_runs \in [Envs -> BOOLEAN]
           /\ env_ipc_recving \in [Envs -> BOOLEAN]
           /\ env_free_list \in Seq(Envs)
           /\ ExactList(env_status, env_free_list)
           /\ \A d \in Others(c) : /\ curenv[d] \in Envs
                                   /\ env_status[curenv[d]] \in {"RUNNING", "DYING"}
                                   /\ env_runs[curenv[d]]
           /\ \A e \in Envs : env_status[e] \in {"RUNNING", "DYING"} =>
                 \/ e = curenv[c] /\ pc[c] = "kernel"
                 \/ \E d \in Others(c) : curenv[d] = e
           /\ \A e \in Envs : env_ipc_recving[e] =>
                 env_status[e] = "NOT_RUNNABLE" /\ env_runs[e]
           /\ IdsTyped
<1>1. ExactList(env_status, env_free_list)
  BY DEF IInv, FreeListExact, ExactList
<1>2. ASSUME NEW d \in Others(c)
      PROVE /\ curenv[d] \in Envs
            /\ env_status[curenv[d]] \in {"RUNNING", "DYING"}
            /\ env_runs[curenv[d]]
  BY DEF Others, IInv, TypeOK, BoundIsRunning, BoundHasRun
<1>3. ASSUME NEW e \in Envs, env_status[e] \in {"RUNNING", "DYING"}
      PROVE \/ e = curenv[c] /\ pc[c] = "kernel"
            \/ \E d \in Others(c) : curenv[d] = e
  <2>1. PICK d \in CPUs : pc[d] \in OnEnv /\ curenv[d] = e
    BY <1>3 DEF IInv, RunningIsBound
  <2>2. CASE d = c BY <2>1, <2>2 DEF Holds, OnEnv
  <2>3. CASE d # c BY <2>1, <2>3 DEF Others
  <2> QED BY <2>2, <2>3
<1> QED BY <1>1, <1>2, <1>3 DEF IInv, TypeOK, RecvingHasRun, IdsTyped

\* A handler that changes nothing is ready to leave.
LEMMA ReadyNow ==
    ASSUME IInv, NEW c \in CPUs, pc[c] = "idle" \/ Handler(c)
    PROVE  Ready(c, env_status, env_runs, env_ipc_recving, env_free_list,
                 curenv[c], cr3[c])
<1> USE NullNotEnv
<1>1. Holds(c) BY DEF Holds, Handler
<1>2. CASE pc[c] = "idle"
  <2>1. curenv[c] = NULL /\ cr3[c] = NULL BY <1>2 DEF IInv, UnboundIsIdle
  <2> QED BY <2>1, <1>1, <1>2, OthersNow DEF Ready
<1>3. CASE Handler(c)
  <2>1. pc[c] = "kernel" /\ env_status[curenv[c]] = "RUNNING"
    BY <1>3, CurrentIsOwn DEF Handler
  <2> QED BY <2>1, <1>1, CurrentIsOwn, OthersNow DEF Ready
<1> QED BY <1>2, <1>3

-----------------------------------------------------------------------------
(* The handlers.                                                           *)

LEMMA FreeDyingKeeps ==
    ASSUME IInv, NEW c \in CPUs, FreeDying(c)
    PROVE  IInv'
<1> USE NullNotEnv
<1> DEFINE e == curenv[c]
           st == Freed(env_status, e)
<1>1. pc[c] = "kernel" /\ Holds(c) /\ env_status[e] = "DYING"
  BY DEF FreeDying, Holds
<1>2. e \in Envs /\ \A d \in Others(c) : curenv[d] # e
  BY <1>1, CurrentIsOwn
<1>3. env_free_list' = <<e>> \o env_free_list /\ env_ipc_recving' = env_ipc_recving
  BY DEF FreeDying, EnvFree
<1>4. env_free_list' \in Seq(Envs) /\ ExactList(st, env_free_list')
  BY <1>1, <1>2, <1>3, PushExact, OthersNow
<1>5. st \in [Envs -> Statuses] /\ st[e] = "FREE"
      /\ \A x \in Envs : x # e => st[x] = env_status[x]
  BY <1>1, <1>2, OthersNow DEF Freed, Statuses
<1> HIDE DEF st
<1>6. Ready(c, st, env_runs, env_ipc_recving', env_free_list', NULL, NULL)
  <2>1. env_runs \in [Envs -> BOOLEAN] /\ env_ipc_recving' \in [Envs -> BOOLEAN]
    BY <1>1, <1>3, OthersNow
  <2>2. \A d \in Others(c) : st[curenv[d]] \in {"RUNNING", "DYING"} /\ env_runs[curenv[d]]
    BY <1>1, <1>2, <1>5, OthersNow
  <2>3. ASSUME NEW x \in Envs, st[x] \in {"RUNNING", "DYING"}
        PROVE  \E d \in Others(c) : curenv[d] = x
    <3>1. x # e BY <2>3, <1>5
    <3>2. env_status[x] \in {"RUNNING", "DYING"} BY <2>3, <3>1, <1>5
    <3> QED BY <3>1, <3>2, <1>1, OthersNow
  <2>4. ASSUME NEW x \in Envs, env_ipc_recving'[x]
        PROVE  st[x] = "NOT_RUNNABLE" /\ env_runs[x]
    <3>1. env_status[x] = "NOT_RUNNABLE" /\ env_runs[x] BY <2>4, <1>1, <1>3, OthersNow
    <3>2. x # e BY <3>1, <1>1
    <3> QED BY <3>1, <3>2, <1>5
  <2> QED BY <1>4, <1>5, <2>1, <2>2, <2>3, <2>4 DEF Ready
<1>7. IdsTyped' BY <1>1, OthersNow DEF IdsTyped, FreeDying, idVars
<1> QED BY <1>1, <1>6, <1>7, SchedYieldKeeps DEF FreeDying, st

\* Leaving with nothing changed, through the end of trap() or sched_yield().
LEMMA UnchangedKeeps ==
    ASSUME IInv, NEW c \in CPUs, OtherTrap(c) \/ Preempt(c) \/ IdleYield(c)
    PROVE  IInv'
<1>1. Holds(c) /\ (pc[c] = "idle" \/ Handler(c))
  BY DEF OtherTrap, Preempt, IdleYield, Holds, Handler
<1>2. env_ipc_recving' = env_ipc_recving /\ env_free_list' = env_free_list
  BY DEF OtherTrap, Preempt, IdleYield
<1>3. IdsTyped'
  BY <1>1, OthersNow DEF OtherTrap, Preempt, IdleYield, IdsTyped, idVars
<1>4. Ready(c, env_status, env_runs, env_ipc_recving', env_free_list', curenv[c], cr3[c])
  BY <1>1, <1>2, ReadyNow
<1>5. CASE OtherTrap(c)
  BY <1>5, <1>3, <1>4, TrapReturnKeeps DEF OtherTrap, Handler
<1>6. CASE Preempt(c) \/ IdleYield(c)
  BY <1>6, <1>1, <1>3, <1>4, SchedYieldKeeps DEF Preempt, IdleYield
<1> QED BY <1>5, <1>6

\* env_destroy() on an environment that nobody else destroys or waits for.
LEMMA EnvDestroyKeeps ==
    ASSUME IInv, NEW c \in CPUs, Handler(c), NEW e \in Envs,
           env_status[e] # "FREE",
           e # curenv[c] => env_status[e] # "DYING" /\ ~env_ipc_recving[e],
           EnvDestroy(c, e),
           UNCHANGED <<idVars, env_ipc_recving>>
    PROVE  IInv'
<1> USE NullNotEnv
<1>1. pc[c] = "kernel" /\ Holds(c) /\ env_status[curenv[c]] = "RUNNING" /\ curenv[c] \in Envs
  BY CurrentIsOwn DEF Handler, Holds
<1>2. IdsTyped' BY <1>1, OthersNow DEF IdsTyped, idVars
<1>3. CASE env_status[e] = "RUNNING" /\ curenv[c] # e
  <2> DEFINE st == [env_status EXCEPT ![e] = "DYING"]
  <2>1. env_free_list' = env_free_list /\ env_ipc_recving' = env_ipc_recving
        /\ TrapReturn(c, st, env_runs)
    BY <1>3 DEF EnvDestroy
  <2>2. st \in [Envs -> Statuses] /\ st[e] = "DYING"
        /\ \A x \in Envs : x # e => st[x] = env_status[x]
    BY <1>1, OthersNow DEF Statuses
  <2>3. ExactList(st, env_free_list)
    BY <1>1, <1>3, <2>2, OthersNow DEF ExactList
  <2>4. PICK d \in Others(c) : curenv[d] = e
    BY <1>1, <1>3, OthersNow
  <2>5. Ready(c, st, env_runs, env_ipc_recving', env_free_list', curenv[c], cr3[c])
    BY <1>1, <1>3, <2>1, <2>2, <2>3, <2>4, OthersNow, CurrentIsOwn DEF Ready
  <2> QED BY <1>1, <1>2, <2>1, <2>5, TrapReturnKeeps
<1>4. CASE ~(env_status[e] = "RUNNING" /\ curenv[c] # e)
  <2> DEFINE st == Freed(env_status, e)
  <2>1. env_free_list' = <<e>> \o env_free_list /\ env_ipc_recving' = env_ipc_recving
    BY <1>4 DEF EnvDestroy, EnvFree
  <2>2. env_free_list' \in Seq(Envs) /\ ExactList(st, env_free_list')
    BY <1>1, <2>1, PushExact, OthersNow
  <2>3. st \in [Envs -> Statuses] /\ st[e] = "FREE"
        /\ \A x \in Envs : x # e => st[x] = env_status[x]
    BY <1>1, OthersNow DEF Freed, Statuses
  <2>4. \A d \in Others(c) : curenv[d] # e
    BY <1>1, <1>4, OthersNow, CurrentIsOwn
  <2>5. ~env_ipc_recving[e] BY <1>1, CurrentIsOwn
  <2>8. \A x \in Envs : env_ipc_recving[x] => st[x] = "NOT_RUNNABLE" /\ env_runs[x]
    BY <1>1, <2>3, <2>5, OthersNow
  <2>9. \A d \in Others(c) : st[curenv[d]] \in {"RUNNING", "DYING"}
    BY <1>1, <2>3, <2>4, OthersNow
  <2>10. \A x \in Envs : st[x] \in {"RUNNING", "DYING"} =>
            /\ x # e
            /\ \/ x = curenv[c] /\ st[x] = "RUNNING"
               \/ \E d \in Others(c) : curenv[d] = x
    BY <1>1, <2>3, OthersNow
  <2>6. CASE curenv[c] = e
    <3>1. SchedYield(c, st, env_runs, NULL, NULL) BY <1>4, <2>6 DEF EnvDestroy
    <3>2. Ready(c, st, env_runs, env_ipc_recving', env_free_list', NULL, NULL)
      <4> HIDE DEF st
      <4> QED BY <1>1, <2>1, <2>2, <2>3, <2>6, <2>8, <2>9, <2>10, OthersNow DEF Ready
    <3> QED BY <1>1, <1>2, <3>1, <3>2, SchedYieldKeeps
  <2>7. CASE curenv[c] # e
    <3>1. TrapReturn(c, st, env_runs) BY <1>4, <2>7 DEF EnvDestroy
    <3>2. Ready(c, st, env_runs, env_ipc_recving', env_free_list', curenv[c], cr3[c])
      <4> HIDE DEF st
      <4> QED BY <1>1, <2>1, <2>2, <2>3, <2>7, <2>8, <2>9, <2>10, OthersNow, CurrentIsOwn DEF Ready
    <3> QED BY <1>1, <1>2, <3>1, <3>2, TrapReturnKeeps
  <2> QED BY <2>6, <2>7
<1> QED BY <1>3, <1>4

\* envid2env() yields the caller or a slot that is in use.
LEMMA EnvidNamesLive ==
    ASSUME IInv, NEW c \in CPUs, Handler(c), NEW id \in EnvIds, NEW chk \in BOOLEAN,
           envid2env(c, id, chk) # NULL
    PROVE  /\ envid2env(c, id, chk) \in Envs
           /\ env_status[envid2env(c, id, chk)] # "FREE"
<1>1. curenv[c] \in Envs /\ env_status[curenv[c]] # "FREE"
  BY CurrentIsOwn DEF Handler
<1>2. id[1] \in Envs BY DEF EnvIds
<1>3. envid2env(c, id, chk) = curenv[c] \/ envid2env(c, id, chk) = id[1]
  BY DEF envid2env
<1>4. CASE envid2env(c, id, chk) = curenv[c] BY <1>1, <1>4
<1>5. CASE envid2env(c, id, chk) # curenv[c]
  <2>1. env_status[id[1]] # "FREE" BY <1>5 DEF envid2env
  <2> QED BY <1>2, <1>3, <1>5, <2>1
<1> QED BY <1>4, <1>5

LEMMA ExoforkKeeps ==
    ASSUME IInv, NEW c \in CPUs, sys_exofork(c)
    PROVE  IInv'
<1> USE NullNotEnv
<1> DEFINE e == Head(env_free_list)
           st == [env_status EXCEPT ![e] = "NOT_RUNNABLE"]
           rn == [env_runs EXCEPT ![e] = FALSE]
<1>1. pc[c] = "kernel" /\ Holds(c) /\ Handler(c)
      /\ env_status[curenv[c]] = "RUNNING" /\ curenv[c] \in Envs
  BY CurrentIsOwn DEF sys_exofork, Handler, Holds
<1>2. /\ e \in Envs /\ env_status[e] = "FREE"
      /\ env_free_list' \in Seq(Envs)
      /\ ExactList(st, env_free_list')
  <2>1. env_free_list # <<>> /\ env_free_list' = Tail(env_free_list)
    BY DEF sys_exofork
  <2> QED BY <2>1, <1>1, PopExact, OthersNow DEF Statuses
<1>3. env_ipc_recving' = env_ipc_recving /\ TrapReturn(c, st, rn)
  BY DEF sys_exofork
<1>4. /\ st \in [Envs -> Statuses] /\ st[e] = "NOT_RUNNABLE"
      /\ rn \in [Envs -> BOOLEAN]
      /\ \A x \in Envs : x # e => st[x] = env_status[x] /\ rn[x] = env_runs[x]
  BY <1>1, <1>2, OthersNow DEF Statuses
<1>5. \A d \in Others(c) : curenv[d] # e BY <1>1, <1>2, OthersNow
<1>6. curenv[c] # e /\ ~env_ipc_recving[e] BY <1>1, <1>2, OthersNow
<1>7. Ready(c, st, rn, env_ipc_recving', env_free_list', curenv[c], cr3[c])
  <2> HIDE DEF st, rn
  <2>1. \A d \in Others(c) : st[curenv[d]] \in {"RUNNING", "DYING"} /\ rn[curenv[d]]
    BY <1>1, <1>4, <1>5, OthersNow
  <2>2. \A x \in Envs : st[x] \in {"RUNNING", "DYING"} =>
           \/ x = curenv[c] /\ st[x] = "RUNNING"
           \/ \E d \in Others(c) : curenv[d] = x
    BY <1>1, <1>4, OthersNow
  <2>3. \A x \in Envs : env_ipc_recving[x] => st[x] = "NOT_RUNNABLE" /\ rn[x]
    BY <1>1, <1>4, <1>6, OthersNow
  <2> QED BY <1>1, <1>2, <1>3, <1>4, <1>6, <2>1, <2>2, <2>3, OthersNow, CurrentIsOwn DEF Ready
<1>8. IdsTyped'
  <2>1. IdsTyped BY <1>1, OthersNow
  <2>2. \A g \in 0 .. MaxGen : NextGen(g) \in 0 .. MaxGen
    BY ConstantsAssumption DEF NextGen
  <2>3. env_id(curenv[c]) \in EnvIds BY <1>1, <2>1 DEF env_id, EnvIds, IdsTyped
  <2> QED BY <1>2, <2>1, <2>2, <2>3 DEF sys_exofork, IdsTyped
<1> QED BY <1>1, <1>3, <1>7, <1>8, TrapReturnKeeps

\* Starting an environment that waits after sys_exofork().
LEMMA StartKeeps ==
    ASSUME IInv, NEW c \in CPUs, Handler(c), NEW e \in Envs,
           e # curenv[c], env_status[e] = "NOT_RUNNABLE", ~env_runs[e],
           NEW s \in {"RUNNABLE", "NOT_RUNNABLE"},
           TrapReturn(c, [env_status EXCEPT ![e] = s], env_runs),
           UNCHANGED <<idVars, env_ipc_recving, env_free_list>>
    PROVE  IInv'
<1> USE NullNotEnv
<1> DEFINE st == [env_status EXCEPT ![e] = s]
<1>1. pc[c] = "kernel" /\ Holds(c) /\ env_status[curenv[c]] = "RUNNING" /\ curenv[c] \in Envs
  BY CurrentIsOwn DEF Handler, Holds
<1>2. IdsTyped' BY <1>1, OthersNow DEF IdsTyped, idVars
<1>3. /\ st \in [Envs -> Statuses] /\ st[e] = s
      /\ \A x \in Envs : x # e => st[x] = env_status[x]
  BY <1>1, OthersNow DEF Statuses
<1>4. ExactList(st, env_free_list) BY <1>1, <1>3, OthersNow DEF ExactList
<1>5. ~env_ipc_recving[e] /\ \A d \in Others(c) : curenv[d] # e BY <1>1, OthersNow
<1>6. Ready(c, st, env_runs, env_ipc_recving', env_free_list', curenv[c], cr3[c])
  BY <1>1, <1>3, <1>4, <1>5, OthersNow, CurrentIsOwn DEF Ready
<1> QED BY <1>1, <1>2, <1>6, TrapReturnKeeps

LEMMA ResumeFailureKeeps ==
    ASSUME IInv, NEW c \in CPUs, NEW id \in EnvIds, Lapses = {}, ResumeFailure(c, id)
    PROVE  IInv'
<1> USE NullNotEnv
<1> DEFINE e == envid2env(c, id, TRUE)
           st == Freed(env_status, e)
<1>1. pc[c] = "kernel" /\ Holds(c) /\ Handler(c)
      /\ env_status[curenv[c]] = "RUNNING" /\ curenv[c] \in Envs
  BY CurrentIsOwn DEF ResumeFailure, Handler, Holds
<1>2. e \in Envs /\ env_status[e] # "FREE"
  BY <1>1, EnvidNamesLive DEF ResumeFailure
<1>3. e # curenv[c] => env_status[e] = "NOT_RUNNABLE" /\ ~env_runs[e]
  BY DEF ResumeFailure, MayStart, Unstarted
<1>4. env_free_list' = <<e>> \o env_free_list /\ env_ipc_recving' = env_ipc_recving
  BY DEF ResumeFailure, EnvFree
<1>5. env_free_list' \in Seq(Envs) /\ ExactList(st, env_free_list')
  BY <1>1, <1>2, <1>4, PushExact, OthersNow
<1>6. st \in [Envs -> Statuses] /\ st[e] = "FREE"
      /\ \A x \in Envs : x # e => st[x] = env_status[x]
  BY <1>1, <1>2, OthersNow DEF Freed, Statuses
<1>7. ~env_ipc_recving[e] /\ \A d \in Others(c) : curenv[d] # e
  <2> HIDE DEF e
  <2> QED BY <1>1, <1>2, <1>3, OthersNow, CurrentIsOwn
<1>8. IdsTyped' BY <1>1, OthersNow DEF IdsTyped, idVars, ResumeFailure
<1>11. \A x \in Envs : env_ipc_recving[x] => st[x] = "NOT_RUNNABLE" /\ env_runs[x]
  BY <1>1, <1>6, <1>7, OthersNow
<1>12. \A d \in Others(c) : st[curenv[d]] \in {"RUNNING", "DYING"}
  BY <1>1, <1>6, <1>7, OthersNow
<1>9. CASE e = curenv[c]
  <2>1. SchedYield(c, st, env_runs, e, NULL) BY <1>9 DEF ResumeFailure
  <2>2. Ready(c, st, env_runs, env_ipc_recving', env_free_list', e, NULL)
    <3> HIDE DEF e, st
    <3> QED BY <1>1, <1>2, <1>4, <1>5, <1>6, <1>9, <1>11, <1>12, OthersNow DEF Ready
  <2> QED BY <1>1, <1>8, <2>1, <2>2, SchedYieldKeeps
<1>10. CASE e # curenv[c]
  <2>1. TrapReturn(c, st, env_runs) BY <1>10 DEF ResumeFailure
  <2>2. Ready(c, st, env_runs, env_ipc_recving', env_free_list', curenv[c], cr3[c])
    <3> HIDE DEF e, st
    <3> QED BY <1>1, <1>2, <1>4, <1>5, <1>6, <1>10, <1>11, <1>12, OthersNow, CurrentIsOwn DEF Ready
  <2> QED BY <1>1, <1>8, <2>1, <2>2, TrapReturnKeeps
<1> QED BY <1>9, <1>10

LEMMA RecvKeeps ==
    ASSUME IInv, NEW c \in CPUs, sys_ipc_recv(c)
    PROVE  IInv'
<1> USE NullNotEnv
<1> DEFINE e == curenv[c]
           st == [env_status EXCEPT ![e] = "NOT_RUNNABLE"]
<1>1. pc[c] = "kernel" /\ Holds(c) /\ env_status[e] = "RUNNING" /\ e \in Envs
  BY CurrentIsOwn DEF sys_ipc_recv, Handler, Holds
<1>2. IdsTyped' BY <1>1, OthersNow DEF IdsTyped, idVars, sys_ipc_recv
<1>3. /\ env_free_list' = env_free_list
      /\ env_ipc_recving' = [env_ipc_recving EXCEPT ![e] = TRUE]
      /\ SchedYield(c, st, env_runs, e, cr3[c])
  BY DEF sys_ipc_recv
<1>4. /\ st \in [Envs -> Statuses] /\ st[e] = "NOT_RUNNABLE"
      /\ \A x \in Envs : x # e => st[x] = env_status[x]
  BY <1>1, OthersNow DEF Statuses
<1>5. ExactList(st, env_free_list) BY <1>1, <1>4, OthersNow DEF ExactList
<1>6. \A d \in Others(c) : curenv[d] # e BY <1>1, CurrentIsOwn
<1>7. \A d \in Others(c) : st[curenv[d]] \in {"RUNNING", "DYING"}
  BY <1>1, <1>4, <1>6, OthersNow
<1>8. Ready(c, st, env_runs, env_ipc_recving', env_free_list', e, cr3[c])
  <2> HIDE DEF st
  <2> QED BY <1>1, <1>3, <1>4, <1>5, <1>7, OthersNow, CurrentIsOwn DEF Ready
<1> QED BY <1>1, <1>2, <1>3, <1>8, SchedYieldKeeps

LEMMA TrySendKeeps ==
    ASSUME IInv, NEW c \in CPUs, NEW id \in EnvIds, sys_ipc_try_send(c, id)
    PROVE  IInv'
<1> USE NullNotEnv
<1> DEFINE e == envid2env(c, id, FALSE)
           st == [env_status EXCEPT ![e] = "RUNNABLE"]
<1>1. pc[c] = "kernel" /\ Holds(c) /\ Handler(c)
      /\ env_status[curenv[c]] = "RUNNING" /\ curenv[c] \in Envs
  BY CurrentIsOwn DEF sys_ipc_try_send, Handler, Holds
<1>2. e \in Envs /\ env_status[e] # "FREE"
  BY <1>1, EnvidNamesLive DEF sys_ipc_try_send
<1>3. /\ env_free_list' = env_free_list
      /\ env_ipc_recving[e]
      /\ env_ipc_recving' = [env_ipc_recving EXCEPT ![e] = FALSE]
      /\ TrapReturn(c, st, env_runs)
      /\ UNCHANGED idVars
  BY DEF sys_ipc_try_send
<1> HIDE DEF e
<1>4. IdsTyped' BY <1>1, <1>3, OthersNow DEF IdsTyped, idVars
<1>5. env_status[e] = "NOT_RUNNABLE" BY <1>1, <1>2, <1>3, OthersNow
<1>6. /\ st \in [Envs -> Statuses] /\ st[e] = "RUNNABLE"
      /\ \A x \in Envs : x # e => st[x] = env_status[x]
  BY <1>1, <1>2, OthersNow DEF Statuses
<1>7. ExactList(st, env_free_list) BY <1>1, <1>2, <1>6, OthersNow DEF ExactList
<1>8. \A d \in Others(c) : curenv[d] # e BY <1>1, <1>5, OthersNow
<1>9. Ready(c, st, env_runs, env_ipc_recving', env_free_list', curenv[c], cr3[c])
  <2>1. e # curenv[c] BY <1>1, <1>5
  <2> HIDE DEF st
  <2> QED BY <1>1, <1>2, <1>3, <1>5, <1>6, <1>7, <1>8, <2>1, OthersNow, CurrentIsOwn DEF Ready
<1> QED BY <1>1, <1>3, <1>4, <1>9, TrapReturnKeeps

\* System calls that name an environment with permission to change it.
LEMMA ManageKeeps ==
    ASSUME IInv, NEW c \in CPUs, NEW id \in EnvIds, Lapses = {},
           \/ sys_env_destroy(c, id)
           \/ \E s \in {"RUNNABLE", "NOT_RUNNABLE"} : sys_env_set_status(c, id, s)
           \/ sys_env_resume(c, id)
    PROVE  IInv'
<1> DEFINE e == envid2env(c, id, TRUE)
<1>1. Handler(c) /\ e # NULL /\ pc[c] = "kernel"
  BY DEF sys_env_destroy, sys_env_set_status, sys_env_resume, Handler
<1>2. e \in Envs /\ env_status[e] # "FREE" BY <1>1, EnvidNamesLive
<1>3. env_status[curenv[c]] = "RUNNING" /\ curenv[c] \in Envs
  BY <1>1, CurrentIsOwn DEF Handler
<1>4. CASE sys_env_destroy(c, id)
  <2>1. EnvDestroy(c, e) /\ UNCHANGED <<idVars, env_ipc_recving>>
        /\ (e # curenv[c] => env_status[e] # "DYING" /\ ~env_ipc_recving[e])
    BY <1>4 DEF sys_env_destroy, MayDestroy
  <2> HIDE DEF e
  <2> QED BY <1>1, <1>2, <2>1, EnvDestroyKeeps
<1>5. CASE \E s \in {"RUNNABLE", "NOT_RUNNABLE"} : sys_env_set_status(c, id, s)
  <2>1. PICK s \in {"RUNNABLE", "NOT_RUNNABLE"} : sys_env_set_status(c, id, s)
    BY <1>5
  <2>2. /\ env_status[e] = "NOT_RUNNABLE" /\ ~env_runs[e]
        /\ TrapReturn(c, [env_status EXCEPT ![e] = s], env_runs)
        /\ UNCHANGED <<idVars, env_ipc_recving, env_free_list>>
    BY <2>1 DEF sys_env_set_status, MayStart, Unstarted
  <2> HIDE DEF e
  <2> QED BY <1>1, <1>2, <1>3, <2>2, StartKeeps
<1>6. CASE sys_env_resume(c, id)
  <2>1. /\ e # curenv[c] => env_status[e] = "NOT_RUNNABLE" /\ ~env_runs[e]
        /\ TrapReturn(c, [env_status EXCEPT ![e] =
                             IF e = curenv[c] THEN "RUNNING" ELSE "RUNNABLE"], env_runs)
        /\ UNCHANGED <<idVars, env_ipc_recving, env_free_list>>
    BY <1>6 DEF sys_env_resume, MayStart, Unstarted
  <2> HIDE DEF e
  <2>2. CASE e = curenv[c]
    <3>1. env_status = [env_status EXCEPT ![e] = "RUNNING"]
      BY <1>3, <2>2 DEF IInv, TypeOK
    <3>2. OtherTrap(c) BY <1>1, <2>1, <2>2, <3>1 DEF OtherTrap
    <3> QED BY <3>2, UnchangedKeeps
  <2>3. CASE e # curenv[c]
    BY <1>1, <1>2, <2>1, <2>3, StartKeeps
  <2> QED BY <2>2, <2>3
<1> QED BY <1>4, <1>5, <1>6

LEMMA FaultKeeps ==
    ASSUME IInv, NEW c \in CPUs, Fault(c)
    PROVE  IInv'
<1>1. Handler(c) /\ pc[c] = "kernel" BY DEF Fault, Handler
<1>2. env_status[curenv[c]] # "FREE" /\ curenv[c] \in Envs BY <1>1, CurrentIsOwn
<1> QED BY <1>1, <1>2, EnvDestroyKeeps DEF Fault

\* Steps outside the lock, and taking it, touch only the CPU's own location.
LEMMA OutsideKeeps ==
    ASSUME IInv, NEW c \in CPUs,
           Trap(c) \/ Interrupt(c) \/ lock_kernel(c) \/ Leave(c) \/ Monitor(c)
    PROVE  IInv'
<1> USE NullNotEnv
<1>t. pc \in [CPUs -> Locations] /\ cr3 \in [CPUs -> Envs \cup {NULL}]
      /\ curenv \in [CPUs -> Envs \cup {NULL}]
  BY DEF IInv, TypeOK
<1>1. CASE Trap(c)
  BY <1>1, <1>t DEF Trap, IInv, TypeOK, Locations, KernelExclusive, FreeListExact, OneCPU,
     BoundIsRunning, RunningIsBound, Cr3Current, UnboundIsIdle, BoundHasRun,
     RecvingHasRun, OnEnv, unlockedVars, idVars
<1>2. CASE Interrupt(c)
  BY <1>2, <1>t DEF Interrupt, IInv, TypeOK, Locations, KernelExclusive, FreeListExact, OneCPU,
     BoundIsRunning, RunningIsBound, Cr3Current, UnboundIsIdle, BoundHasRun,
     RecvingHasRun, OnEnv, unlockedVars, idVars
<1>3. CASE lock_kernel(c)
  <2>1. /\ \/ pc[c] = "trap" /\ pc'[c] = "kernel"
           \/ pc[c] \in {"wake", "boot"} /\ pc'[c] = "idle"
        /\ pc' \in [CPUs -> Locations]
        /\ \A d \in CPUs : d # c => pc'[d] = pc[d]
        /\ kernel_lock = NULL /\ kernel_lock' = c
    BY <1>3, <1>t DEF lock_kernel, Locations
  <2>2. UNCHANGED <<env_status, env_runs, env_gen, env_parent_id, env_ipc_recving,
                    env_free_list, curenv, cr3>>
    BY <1>3 DEF lock_kernel, unlockedVars, idVars
  <2>3. TypeOK' BY <2>1, <2>2 DEF IInv, TypeOK
  <2>4. KernelExclusive' BY <2>1 DEF IInv, KernelExclusive
  <2>5. \A d \in CPUs : pc'[d] \in OnEnv <=> pc[d] \in OnEnv BY <2>1 DEF OnEnv
  <2>6. FreeListExact' /\ OneCPU' /\ BoundIsRunning' /\ RunningIsBound'
        /\ BoundHasRun' /\ RecvingHasRun'
    BY <2>2, <2>5 DEF IInv, FreeListExact, OneCPU, BoundIsRunning, RunningIsBound,
       BoundHasRun, RecvingHasRun
  <2>7. Cr3Current' /\ UnboundIsIdle'
    BY <2>1, <2>2 DEF IInv, Cr3Current, UnboundIsIdle
  <2> QED BY <2>3, <2>4, <2>6, <2>7 DEF IInv
<1>4. CASE Leave(c)
  <2>1. /\ pc[c] = "leave" /\ pc'[c] = "user" /\ cr3'[c] = curenv[c]
        /\ pc' \in [CPUs -> Locations]
        /\ cr3' \in [CPUs -> Envs \cup {NULL}]
        /\ \A d \in CPUs : d # c => pc'[d] = pc[d] /\ cr3'[d] = cr3[d]
    BY <1>4, <1>t DEF Leave, Locations
  <2>2. UNCHANGED <<env_status, env_runs, env_gen, env_parent_id, env_ipc_recving,
                    env_free_list, curenv, kernel_lock>>
    BY <1>4 DEF Leave, unlockedVars, idVars
  <2>3. TypeOK' BY <2>1, <2>2 DEF IInv, TypeOK
  <2>4. KernelExclusive' BY <2>1, <2>2 DEF IInv, KernelExclusive
  <2>5. \A d \in CPUs : pc'[d] \in OnEnv <=> pc[d] \in OnEnv BY <2>1 DEF OnEnv
  <2>6. FreeListExact' /\ OneCPU' /\ BoundIsRunning' /\ RunningIsBound'
        /\ BoundHasRun' /\ RecvingHasRun'
    BY <2>2, <2>5 DEF IInv, FreeListExact, OneCPU, BoundIsRunning, RunningIsBound,
       BoundHasRun, RecvingHasRun
  <2>7. Cr3Current'
    BY <2>1, <2>2 DEF IInv, Cr3Current, BoundIsRunning, OnEnv
  <2>8. UnboundIsIdle' BY <2>1, <2>2 DEF IInv, UnboundIsIdle
  <2> QED BY <2>3, <2>4, <2>6, <2>7, <2>8 DEF IInv
<1>5. CASE Monitor(c)
  BY <1>5 DEF Monitor, vars, IInv, TypeOK, KernelExclusive, FreeListExact, OneCPU,
     BoundIsRunning, RunningIsBound, Cr3Current, UnboundIsIdle, BoundHasRun,
     RecvingHasRun
<1> QED BY <1>1, <1>2, <1>3, <1>4, <1>5

-----------------------------------------------------------------------------

LEMMA InitIInv == Init => IInv
<1> SUFFICES ASSUME Init PROVE IInv
  OBVIOUS
<1> USE ConstantsAssumption, NullNotEnv
<1> DEFINE fl == [i \in 1 .. NENV - NBoot |-> NBoot + i - 1]
<1>1. NENV - NBoot \in Nat /\ NBoot \in Nat /\ NBoot >= 1 OBVIOUS
<1>2. \A i \in 1 .. NENV - NBoot : NBoot + i - 1 \in Envs /\ NBoot + i - 1 >= NBoot
  BY <1>1 DEF Envs
<1>3. fl \in Seq(Envs) /\ DOMAIN fl = 1 .. NENV - NBoot
  BY <1>1, <1>2
<1>4. FreeListExact
  <2>1. ASSUME NEW e \in Envs
        PROVE env_status[e] = "FREE" <=> \E i \in DOMAIN fl : fl[i] = e
    <3>1. CASE e < NBoot BY <3>1, <1>1, <1>2, <1>3 DEF Init, Envs
    <3>2. CASE e >= NBoot
      <4>1. e - NBoot + 1 \in 1 .. NENV - NBoot /\ NBoot + (e - NBoot + 1) - 1 = e
        BY <3>2, <1>1 DEF Envs
      <4>2. fl[e - NBoot + 1] = e BY <4>1
      <4>3. env_status[e] = "FREE" BY <3>2, <1>1 DEF Init, Envs
      <4> QED BY <4>1, <4>2, <4>3, <1>3
    <3> QED BY <3>1, <3>2, <1>1 DEF Envs
  <2>2. \A i, j \in DOMAIN fl : fl[i] = fl[j] => i = j BY <1>1, <1>3
  <2> QED BY <2>1, <2>2 DEF FreeListExact, Init
<1>5. NoId \in EnvIds BY DEF NoId, EnvIds, Envs
<1>6. TypeOK
  BY <1>1, <1>3, <1>5 DEF Init, TypeOK, Statuses, Locations, CPUs
<1>7. 0 \in CPUs BY DEF CPUs
<1> QED
  BY <1>4, <1>6, <1>7 DEF Init, IInv, KernelExclusive, OneCPU, BoundIsRunning,
     RunningIsBound, Cr3Current, UnboundIsIdle, BoundHasRun, RecvingHasRun, OnEnv

LEMMA NextIInv ==
    ASSUME Lapses = {}, IInv, [Next]_vars
    PROVE  IInv'
<1>1. CASE UNCHANGED vars
  BY <1>1 DEF vars, IInv, TypeOK, KernelExclusive, FreeListExact, OneCPU,
     BoundIsRunning, RunningIsBound, Cr3Current, UnboundIsIdle, BoundHasRun,
     RecvingHasRun
<1>2. CASE Next
  <2>1. PICK c \in CPUs : Step(c) BY <1>2 DEF Next
  <2>2. CASE UserTrap(c)
    <3>1. CASE FreeDying(c) BY <3>1, FreeDyingKeeps
    <3>2. CASE OtherTrap(c) \/ Preempt(c) BY <3>2, UnchangedKeeps
    <3>3. CASE Fault(c) BY <3>3, FaultKeeps
    <3>4. CASE sys_exofork(c) BY <3>4, ExoforkKeeps
    <3>5. CASE sys_ipc_recv(c) BY <3>5, RecvKeeps
    <3>6. CASE \E id \in EnvIds :
                  \/ sys_env_destroy(c, id)
                  \/ \E status \in {"RUNNABLE", "NOT_RUNNABLE"} :
                        sys_env_set_status(c, id, status)
                  \/ sys_env_resume(c, id)
      BY <3>6, ManageKeeps
    <3>7. CASE \E id \in EnvIds : ResumeFailure(c, id) BY <3>7, ResumeFailureKeeps
    <3>8. CASE \E id \in EnvIds : sys_ipc_try_send(c, id) BY <3>8, TrySendKeeps
    <3> QED BY <2>2, <3>1, <3>2, <3>3, <3>4, <3>5, <3>6, <3>7, <3>8 DEF UserTrap
  <2>3. CASE IdleYield(c) BY <2>3, UnchangedKeeps
  <2>4. CASE Trap(c) \/ Interrupt(c) \/ lock_kernel(c) \/ Leave(c) \/ Monitor(c)
    BY <2>4, OutsideKeeps
  <2> QED BY <2>1, <2>2, <2>3, <2>4 DEF Step
<1> QED BY <1>1, <1>2

-----------------------------------------------------------------------------
(* Environments that are dying.                                            *)

\* e is not set to anything but FREE once it is DYING: st is env_status as a
\* handler leaves it.
Doomed(st) ==
    \A e \in Envs : env_status[e] = "DYING" => st[e] \in {"DYING", "FREE"}

\* The scheduler does not touch an environment that is neither RUNNABLE nor
\* RUNNING.
LEMMA SchedulerSkips ==
    ASSUME NEW c \in CPUs, NEW st \in [Envs -> Statuses], NEW rn,
           NEW cur \in Envs \cup {NULL}, NEW pd, NEW x \in Envs,
           st[x] \in {"DYING", "FREE"},
           SchedYield(c, st, rn, cur, pd)
    PROVE  env_status'[x] = st[x]
<1> USE NullNotEnv
<1>1. CASE SchedHalt(c, st, rn, cur, pd)
  BY <1>1 DEF SchedHalt
<1>2. ASSUME NEW e, Eligible(st, cur, e), EnvRun(c, st, rn, cur, pd, e)
      PROVE  env_status'[x] = st[x]
  <2>1. e # x
    BY <1>2 DEF Eligible
  <2>2. Descheduled(st, cur) \in [Envs -> Statuses] /\ Descheduled(st, cur)[x] = st[x]
    BY DEF Descheduled, Statuses
  <2> QED BY <1>2, <2>1, <2>2 DEF EnvRun
<1> QED BY <1>1, <1>2 DEF SchedYield

LEMMA TrapReturnSkips ==
    ASSUME NEW c \in CPUs, NEW st \in [Envs -> Statuses], NEW rn, NEW x \in Envs,
           curenv[c] \in Envs, st[x] \in {"DYING", "FREE"},
           TrapReturn(c, st, rn)
    PROVE  env_status'[x] = st[x]
<1>1. CASE st[curenv[c]] = "RUNNING"
  BY <1>1 DEF TrapReturn, EnvRun
<1>2. CASE st[curenv[c]] # "RUNNING"
  BY <1>2, SchedulerSkips DEF TrapReturn
<1> QED BY <1>1, <1>2

\* What a handler leaves Doomed stays so.
LEMMA LeaveDoomed ==
    ASSUME NEW c \in CPUs, NEW st \in [Envs -> Statuses], NEW rn,
           NEW cur \in Envs \cup {NULL}, NEW pd, Doomed(st),
           \/ SchedYield(c, st, rn, cur, pd)
           \/ curenv[c] \in Envs /\ TrapReturn(c, st, rn)
    PROVE  \A x \in Envs : env_status[x] = "DYING" => env_status'[x] \in {"DYING", "FREE"}
BY SchedulerSkips, TrapReturnSkips DEF Doomed

\* env_destroy() sets DYING or FREE.
LEMMA DestroyDoomed ==
    ASSUME IInv, NEW c \in CPUs, curenv[c] \in Envs, NEW e \in Envs, EnvDestroy(c, e)
    PROVE  \A x \in Envs : env_status[x] = "DYING" => env_status'[x] \in {"DYING", "FREE"}
<1> USE NullNotEnv
<1> DEFINE dying == [env_status EXCEPT ![e] = "DYING"]
           freed == Freed(env_status, e)
<1>1. /\ dying \in [Envs -> Statuses] /\ Doomed(dying)
      /\ freed \in [Envs -> Statuses] /\ Doomed(freed)
  BY DEF IInv, TypeOK, Freed, Doomed, Statuses
<1>2. \/ TrapReturn(c, dying, env_runs)
      \/ SchedYield(c, freed, env_runs, NULL, NULL)
      \/ TrapReturn(c, freed, env_runs)
  BY DEF EnvDestroy
<1> HIDE DEF dying, freed
<1>3. CASE TrapReturn(c, dying, env_runs)
  BY <1>1, <1>3, LeaveDoomed
<1>4. CASE SchedYield(c, freed, env_runs, NULL, NULL)
  BY <1>1, <1>4, LeaveDoomed
<1>5. CASE TrapReturn(c, freed, env_runs)
  BY <1>1, <1>5, LeaveDoomed
<1> QED BY <1>2, <1>3, <1>4, <1>5

\* Every way through trap() leaves a DYING environment DYING or free.
LEMMA TrapDoomed ==
    ASSUME Lapses = {}, IInv, NEW c \in CPUs, UserTrap(c)
    PROVE  \A x \in Envs : env_status[x] = "DYING" => env_status'[x] \in {"DYING", "FREE"}
<1> USE NullNotEnv
<1> DEFINE Goal == \A x \in Envs : env_status[x] = "DYING" => env_status'[x] \in {"DYING", "FREE"}
<1>t. /\ env_status \in [Envs -> Statuses] /\ cr3[c] \in Envs \cup {NULL}
      /\ Doomed(env_status)
  BY DEF IInv, TypeOK, Doomed
<1>0. pc[c] = "kernel"
  BY DEF UserTrap, FreeDying, OtherTrap, Preempt, Fault, sys_exofork, sys_ipc_recv,
     sys_env_destroy, sys_env_set_status, sys_env_resume, ResumeFailure, sys_ipc_try_send,
     Handler
<1>c. curenv[c] \in Envs /\ (Handler(c) => env_status[curenv[c]] = "RUNNING")
  BY <1>0, CurrentIsOwn DEF Handler
\* A handler that sets the status of one environment which is not DYING.
<1>a. ASSUME NEW e \in Envs, env_status[e] # "DYING", NEW s \in Statuses, NEW rn,
             NEW pd,
             \/ TrapReturn(c, [env_status EXCEPT ![e] = s], rn)
             \/ SchedYield(c, [env_status EXCEPT ![e] = s], rn, curenv[c], pd)
      PROVE  Goal
  <2> DEFINE st == [env_status EXCEPT ![e] = s]
  <2>1. st \in [Envs -> Statuses] /\ Doomed(st)
    BY <1>a, <1>t DEF Doomed
  <2>2. TrapReturn(c, st, rn) \/ SchedYield(c, st, rn, curenv[c], pd)
    BY <1>a
  <2> HIDE DEF st
  <2> QED BY <1>c, <2>1, <2>2, LeaveDoomed
\* A handler that frees an environment.
<1>b. ASSUME NEW e \in Envs, NEW cur \in Envs \cup {NULL},
             \/ TrapReturn(c, Freed(env_status, e), env_runs)
             \/ SchedYield(c, Freed(env_status, e), env_runs, cur, NULL)
      PROVE  Goal
  <2>1. Freed(env_status, e) \in [Envs -> Statuses] /\ Doomed(Freed(env_status, e))
    BY <1>t DEF Doomed, Freed, Statuses
  <2> QED BY <1>b, <1>c, <2>1, LeaveDoomed
<1>1. CASE FreeDying(c)
  BY <1>1, <1>b, <1>c DEF FreeDying
<1>2. CASE OtherTrap(c) \/ Preempt(c)
  BY <1>2, <1>c, <1>t, LeaveDoomed DEF OtherTrap, Preempt
<1>3. CASE Fault(c)
  BY <1>3, <1>c, DestroyDoomed DEF Fault
<1>4. CASE sys_exofork(c)
  <2> DEFINE e == Head(env_free_list)
  <2>1. e \in Envs /\ env_status[e] = "FREE"
    <3>1. env_free_list \in Seq(Envs) /\ env_free_list # <<>> /\ FreeListExact
      BY <1>4 DEF sys_exofork, IInv, TypeOK
    <3>2. 1 \in DOMAIN env_free_list /\ e = env_free_list[1] /\ e \in Envs
      BY <3>1
    <3> QED BY <3>1, <3>2 DEF FreeListExact
  <2>2. TrapReturn(c, [env_status EXCEPT ![e] = "NOT_RUNNABLE"], [env_runs EXCEPT ![e] = FALSE])
    BY <1>4 DEF sys_exofork
  <2> HIDE DEF e
  <2> QED BY <1>a, <2>1, <2>2 DEF Statuses
<1>5. CASE sys_ipc_recv(c)
  <2>1. SchedYield(c, [env_status EXCEPT ![curenv[c]] = "NOT_RUNNABLE"], env_runs, curenv[c], cr3[c])
        /\ env_status[curenv[c]] = "RUNNING"
    BY <1>5, <1>c DEF sys_ipc_recv
  <2> QED BY <1>a, <1>c, <2>1 DEF Statuses
<1>6. CASE \E id \in EnvIds : sys_env_destroy(c, id)
  <2>1. PICK id \in EnvIds : sys_env_destroy(c, id)
    BY <1>6
  <2>2. envid2env(c, id, TRUE) \in Envs /\ EnvDestroy(c, envid2env(c, id, TRUE))
    BY <1>0, <2>1, EnvidNamesLive DEF sys_env_destroy
  <2> QED BY <1>c, <2>2, DestroyDoomed
<1>7. CASE \E id \in EnvIds, status \in {"RUNNABLE", "NOT_RUNNABLE"} :
              sys_env_set_status(c, id, status)
  <2>1. PICK id \in EnvIds, status \in {"RUNNABLE", "NOT_RUNNABLE"} :
                sys_env_set_status(c, id, status)
    BY <1>7
  <2> DEFINE e == envid2env(c, id, TRUE)
  <2>2. e \in Envs
    BY <1>0, <2>1, EnvidNamesLive DEF sys_env_set_status
  <2>3. /\ env_status[e] # "DYING"
        /\ TrapReturn(c, [env_status EXCEPT ![e] = status], env_runs)
    BY <2>1 DEF sys_env_set_status, MayStart, Unstarted
  <2> HIDE DEF e
  <2> QED BY <1>a, <2>2, <2>3 DEF Statuses
<1>8. CASE \E id \in EnvIds : sys_env_resume(c, id)
  <2>1. PICK id \in EnvIds : sys_env_resume(c, id)
    BY <1>8
  <2> DEFINE e == envid2env(c, id, TRUE)
             s == IF e = curenv[c] THEN "RUNNING" ELSE "RUNNABLE"
  <2>2. e \in Envs
    BY <1>0, <2>1, EnvidNamesLive DEF sys_env_resume
  <2>3. /\ env_status[e] # "DYING"
        /\ TrapReturn(c, [env_status EXCEPT ![e] = s], env_runs)
    BY <1>c, <2>1 DEF sys_env_resume, MayStart, Unstarted
  <2>4. s \in Statuses
    BY DEF Statuses
  <2> HIDE DEF e, s
  <2> QED BY <1>a, <2>2, <2>3, <2>4
<1>9. CASE \E id \in EnvIds : ResumeFailure(c, id)
  <2>1. PICK id \in EnvIds : ResumeFailure(c, id)
    BY <1>9
  <2> DEFINE e == envid2env(c, id, TRUE)
  <2>2. e \in Envs
    BY <1>0, <2>1, EnvidNamesLive DEF ResumeFailure
  <2>3. \/ TrapReturn(c, Freed(env_status, e), env_runs)
        \/ SchedYield(c, Freed(env_status, e), env_runs, e, NULL)
    BY <2>1 DEF ResumeFailure
  <2> HIDE DEF e
  <2> QED BY <1>b, <2>2, <2>3
<1>10. CASE \E id \in EnvIds : sys_ipc_try_send(c, id)
  <2>1. PICK id \in EnvIds : sys_ipc_try_send(c, id)
    BY <1>10
  <2> DEFINE e == envid2env(c, id, FALSE)
  <2>2. e \in Envs
    BY <1>0, <2>1, EnvidNamesLive DEF sys_ipc_try_send
  <2>3. /\ env_status[e] # "DYING"
        /\ TrapReturn(c, [env_status EXCEPT ![e] = "RUNNABLE"], env_runs)
    BY <2>1, <2>2 DEF sys_ipc_try_send, IInv, RecvingHasRun
  <2> HIDE DEF e
  <2> QED BY <1>a, <2>2, <2>3 DEF Statuses
<1> QED BY <1>1, <1>2, <1>3, <1>4, <1>5, <1>6, <1>7, <1>8, <1>9, <1>10 DEF UserTrap

LEMMA NextDoomed ==
    ASSUME Lapses = {}, IInv, [Next]_vars
    PROVE  \A e \in Envs : env_status[e] = "DYING" => env_status'[e] \in {"DYING", "FREE"}
<1> USE NullNotEnv
<1>1. CASE UNCHANGED vars
  BY <1>1 DEF vars
<1>2. CASE Next
  <2>1. PICK c \in CPUs : Step(c)
    BY <1>2 DEF Next
  <2>2. CASE UserTrap(c)
    BY <2>2, TrapDoomed
  <2>3. CASE IdleYield(c)
    <3>1. /\ env_status \in [Envs -> Statuses] /\ Doomed(env_status)
          /\ curenv[c] \in Envs \cup {NULL}
      BY DEF IInv, TypeOK, Doomed
    <3> QED BY <2>3, <3>1, LeaveDoomed DEF IdleYield
  <2>4. CASE Trap(c) \/ Interrupt(c) \/ lock_kernel(c) \/ Leave(c) \/ Monitor(c)
    BY <2>4 DEF Trap, Interrupt, lock_kernel, Leave, Monitor, unlockedVars, vars
  <2> QED BY <2>1, <2>2, <2>3, <2>4 DEF Step
<1> QED BY <1>1, <1>2

-----------------------------------------------------------------------------

\* The scheduler's safety for programs that keep the discipline of lib/: the
\* types, mutual exclusion in the kernel, an exact free list, no environment
\* on two CPUs, none freed under its CPU, none lost, no freed page directory
\* in %cr3 outside env_run()'s window, messages only for blocked receivers.
THEOREM Safety ==
    ASSUME Lapses = {}
    PROVE  Spec => [](/\ TypeOK /\ KernelExclusive /\ FreeListExact /\ OneCPU
                      /\ BoundIsRunning /\ RunningIsBound /\ Cr3Current
                      /\ RecvingIsBlocked)
<1>1. Init => IInv BY InitIInv
<1>2. IInv /\ [Next]_vars => IInv' BY NextIInv
<1>3. IInv => /\ TypeOK /\ KernelExclusive /\ FreeListExact /\ OneCPU
              /\ BoundIsRunning /\ RunningIsBound /\ Cr3Current
              /\ RecvingIsBlocked
  BY DEF IInv, RecvingHasRun, RecvingIsBlocked
<1> QED BY <1>1, <1>2, <1>3, PTL DEF Spec

\* env_alloc() takes a slot of env_free_list (kern/env.c): none in use is on the
\* list, none that is free is missing, none is there twice.
THEOREM FreeListIsExact == ASSUME Lapses = {} PROVE Spec => []FreeListExact
BY Safety, PTL

\* An environment is RUNNING or DYING exactly as long as a CPU is bound to it
\* (env_run(), env_destroy(), env_free()).
THEOREM RunningIsExact == ASSUME Lapses = {} PROVE Spec => []RunningExact
<1>1. BoundIsRunning /\ RunningIsBound => RunningExact
  BY DEF RunningExact
<1> QED BY <1>1, Safety, PTL

\* sys_ipc_try_send() makes RUNNABLE only what is blocked in sys_ipc_recv().
THEOREM ReceiversAreBlocked == ASSUME Lapses = {} PROVE Spec => []RecvingIsBlocked
BY Safety, PTL

\* Outside the window of env_run() no CPU has a freed page directory loaded.
THEOREM PageDirectoriesLive == ASSUME Lapses = {} PROVE Spec => []Cr3Current
BY Safety, PTL

\* An environment that another CPU destroyed while it ran is freed at its next
\* trap and never runs again: no system call of any other environment brings it
\* back (trap(), env_destroy(), sys_env_set_status(), sys_ipc_try_send()).
THEOREM DyingIsFinal == ASSUME Lapses = {} PROVE Spec => DyingOnlyFreed
<1>1. Init => IInv BY InitIInv
<1>2. IInv /\ [Next]_vars => IInv' BY NextIInv
<1>3. IInv /\ [Next]_vars =>
          [\A e \in Envs : env_status[e] = "DYING"
                              => env_status'[e] \in {"DYING", "FREE"}]_vars
  BY NextDoomed
<1> QED BY <1>1, <1>2, <1>3, PTL DEF Spec, DyingOnlyFreed
=============================================================================
