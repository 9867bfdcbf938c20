-------------------------- MODULE FileServerProofs --------------------------
(***************************************************************************)
(* TLAPS proofs about FileServer: for any number of clients, descriptors,  *)
(* table entries, files and generations, and however ids wrap, descriptors *)
(* and requests reach the file that was opened, and open() returns a       *)
(* descriptor of its own at offset 0.                                      *)
(***************************************************************************)
EXTENDS FileServer, TLAPS

-----------------------------------------------------------------------------
(* The inductive invariant.                                                *)

InCall(c) == pc[c] \in {"send", "sent", "recv", "back"}

\* A client in a call that names a file still has the descriptor, so that the
\* id it put into the request is that of the entry.  The descriptor for which
\* a client waits in open() is not in use.
CallExact ==
    \A c \in Clients : InCall(c) =>
        /\ call[c] \in Call
        /\ call[c].op \in OnFile =>
              /\ fds[c][call[c].fd] = call[c].entry
              /\ opentab[call[c].entry].o_fileid = call[c].gen
        /\ call[c].op = "open" /\ pc[c] # "back" => fds[c][call[c].fd] = None

\* The server works on the call of a client that waits for it.
Serving ==
    srv \in {"serve", "advance", "reply"} =>
        /\ msg.from \in Clients
        /\ pc[msg.from] \in {"sent", "recv"}
        /\ msg.req = call[msg.from]

\* A read or write has moved data, which it does before the end of the file.
Advancing ==
    srv = "advance" => msg.req.op = "io" /\ fdpage[msg.req.entry].offset < MaxOffset

\* The entry that goes with the reply is new and nobody has its page yet.
Granted ==
    srv = "reply" /\ answer # None =>
        /\ msg.req.op = "open"
        /\ ~Shared(answer)
        /\ answer \in backed
        /\ fdpage[answer].id = opentab[answer].o_fileid
        /\ fdpage[answer].offset = 0
        /\ opentab[answer].o_file = msg.req.file

IInv ==
    /\ TypeOK
    /\ FdsExact
    /\ CallExact
    /\ Serving
    /\ Advancing
    /\ Granted
    /\ NewDescriptor

-----------------------------------------------------------------------------
(* Constants and calls.                                                    *)

LEMMA Constants ==
    /\ None \notin Entries /\ None \notin Gens /\ None \notin Files
    /\ 0 \in Gens
    /\ \A g \in Gens : NextGen(g) \in Gens
    /\ Closed \in [Fds -> Entries \cup {None}]
    /\ Closed \in [Fds -> Files \cup {None}]
<1>1. 2 * HalfGens \in Nat \ {0} BY FileServerAssumption
<1>2. \A g \in Gens : NextGen(g) \in Gens
  BY <1>1 DEF Gens, NextGen
<1> QED BY <1>1, <1>2, FileServerAssumption DEF Entries, Gens, Closed

LEMMA OpenCalls ==
    ASSUME NEW x \in Call, x.op = "open"
    PROVE  x.fd \in Fds /\ x.file \in Files
BY DEF Call, OnFile

LEMMA FileCalls ==
    ASSUME NEW x \in Call, x.op \in OnFile
    PROVE  x.fd \in Fds /\ x.entry \in Entries /\ x.gen \in Gens
BY DEF Call, OnFile

\* The descriptor that open() is about to return.
LEMMA BackEntry ==
    ASSUME IInv, NEW c \in Clients, pc[c] = "back", call[c].op = "open",
           fds[c][call[c].fd] # None
    PROVE  call[c].fd \in Fds /\ fds[c][call[c].fd] \in Entries
<1>1. call[c].fd \in Fds BY OpenCalls DEF IInv, CallExact, InCall
<1> QED BY <1>1 DEF IInv, TypeOK

\* The entry that a call names is in use.
LEMMA CallEntry ==
    ASSUME IInv, NEW c \in Clients, InCall(c), call[c].op \in OnFile
    PROVE  call[c].fd \in Fds /\ call[c].entry \in Entries /\ Shared(call[c].entry)
<1>1. call[c].fd \in Fds /\ call[c].entry \in Entries
  BY FileCalls DEF IInv, CallExact
<1> QED BY <1>1 DEF IInv, CallExact, Shared

-----------------------------------------------------------------------------
(* Steps of the clients.                                                   *)

\* A client fills in a request.
LEMMA RequestKeeps ==
    ASSUME IInv, NEW c \in Clients, NEW req \in Call, Request(c, req),
           req.op \in OnFile => /\ fds[c][req.fd] = req.entry
                                /\ opentab[req.entry].o_fileid = req.gen,
           req.op = "open" => fds[c][req.fd] = None
    PROVE  IInv'
<1>1. TypeOK'
  BY DEF IInv, TypeOK, Request, srvVars
<1>2. FdsExact' /\ Granted'
  BY DEF IInv, FdsExact, Granted, Shared, Request, srvVars
<1>3. CallExact'
  BY DEF IInv, TypeOK, CallExact, InCall, Request, Idle, srvVars
<1>4. Serving' /\ Advancing'
  BY DEF IInv, TypeOK, Serving, Advancing, Request, Idle, srvVars
<1>5. NewDescriptor'
  BY DEF IInv, TypeOK, NewDescriptor, Request, Idle, srvVars
<1> QED BY <1>1, <1>2, <1>3, <1>4, <1>5 DEF IInv

LEMMA OpenKeeps ==
    ASSUME IInv, NEW c \in Clients, NEW f \in Files, open(c, f)
    PROVE  IInv'
<1>1. PICK n \in Fds : fd_alloc(c, n) /\ Request(c, [op |-> "open", fd |-> n, file |-> f])
  BY DEF open
<1> DEFINE req == [op |-> "open", fd |-> n, file |-> f]
<1>2. req \in Call BY DEF Call
<1>3. req.op = "open" /\ req.fd = n /\ req.op \notin OnFile BY DEF OnFile
<1> HIDE DEF req
<1>4. fds[c][req.fd] = None BY <1>1, <1>3 DEF fd_alloc
<1>5. Request(c, req) BY <1>1 DEF req
<1> QED BY <1>2, <1>3, <1>4, <1>5, RequestKeeps

LEMMA FileCallKeeps ==
    ASSUME IInv, NEW c \in Clients, NEW n \in Fds, NEW op \in OnFile, FileCall(c, n, op)
    PROVE  IInv'
<1> DEFINE i == fds[c][n]
           req == [op |-> op, fd |-> n, entry |-> i, gen |-> fdpage[i].id]
<1>1. i \in Entries
  BY DEF FileCall, IInv, TypeOK
<1>2. fdpage[i].id \in Gens
  BY <1>1 DEF FileCall, IInv, TypeOK
<1>3. fdpage[i].id = opentab[i].o_fileid
  BY <1>1, Constants DEF IInv, FdsExact
<1>4. req \in Call BY <1>1, <1>2 DEF Call
<1>5. req.op = op /\ req.fd = n /\ req.entry = i /\ req.gen = fdpage[i].id OBVIOUS
<1>6. Request(c, req) BY DEF FileCall
<1>7. req.op # "open" BY DEF OnFile
<1> HIDE DEF req
<1> QED BY <1>3, <1>4, <1>5, <1>6, <1>7, RequestKeeps

LEMMA SyncKeeps ==
    ASSUME IInv, NEW c \in Clients, sync(c)
    PROVE  IInv'
<1> DEFINE req == [op |-> "sync"]
<1>1. req \in Call BY DEF Call
<1>2. req.op \notin OnFile /\ req.op # "open" BY DEF OnFile
<1>3. Request(c, req) BY DEF sync
<1> HIDE DEF req
<1> QED BY <1>1, <1>2, <1>3, RequestKeeps

LEMMA SeekKeeps ==
    ASSUME IInv, NEW c \in Clients, NEW n \in Fds, seek(c, n)
    PROVE  IInv'
<1> DEFINE i == fds[c][n]
<1>1. i \in Entries BY DEF seek, IInv, TypeOK
<1>2. /\ fdpage' \in [Entries -> [id : Gens \cup {None}, offset : 0 .. MaxOffset]]
      /\ \A j \in Entries : /\ fdpage'[j].id = fdpage[j].id
                            /\ fdpage'[j].offset = IF j = i THEN 0 ELSE fdpage[j].offset
  <2>1. fdpage' = [fdpage EXCEPT ![i] = [fdpage[i] EXCEPT !.offset = 0]]
    BY DEF seek
  <2>2. 0 \in 0 .. MaxOffset BY FileServerAssumption
  <2>3. fdpage \in [Entries -> [id : Gens \cup {None}, offset : 0 .. MaxOffset]]
    BY DEF IInv, TypeOK
  <2> HIDE DEF i
  <2> QED BY <1>1, <2>1, <2>2, <2>3
<1>3. UNCHANGED <<opentab, backed, srv, msg, answer, fds, opened, pc, call>>
  BY DEF seek, clientVars
<1>4. TypeOK' BY <1>2, <1>3 DEF IInv, TypeOK
<1>5. FdsExact'
  BY <1>2, <1>3 DEF IInv, TypeOK, FdsExact
<1>6. CallExact' /\ Serving'
  BY <1>3 DEF IInv, CallExact, InCall, Serving
<1>7. Advancing'
  <2> SUFFICES ASSUME srv = "advance"
               PROVE  msg.req.op = "io" /\ fdpage'[msg.req.entry].offset < MaxOffset
    BY <1>3 DEF Advancing
  <2>1. /\ msg.req.op = "io" /\ fdpage[msg.req.entry].offset < MaxOffset
        /\ msg.req \in Call
    BY DEF IInv, Advancing, Serving, CallExact, InCall
  <2>2. msg.req.entry \in Entries BY <2>1, FileCalls DEF OnFile
  <2>3. fdpage[msg.req.entry].offset \in 0 .. MaxOffset BY <2>2 DEF IInv, TypeOK
  <2> QED BY <1>2, <2>1, <2>2, <2>3, FileServerAssumption
<1>8. Granted'
  <2> SUFFICES ASSUME srv = "reply", answer # None PROVE Granted'
    BY <1>3 DEF Granted
  <2>1. answer \in Entries /\ ~Shared(answer) BY DEF IInv, TypeOK, Granted
  <2>2. answer # i BY <2>1 DEF Shared
  <2> QED BY <1>2, <1>3, <2>1, <2>2 DEF IInv, Granted, Shared
<1>9. NewDescriptor'
  <2> SUFFICES ASSUME NEW d \in Clients, pc[d] = "back", call[d].op = "open",
                      fds[d][call[d].fd] # None
               PROVE  /\ fdpage'[fds[d][call[d].fd]].offset = 0
                      /\ \A e \in Clients, m \in Fds :
                            fds[e][m] = fds[d][call[d].fd] => e = d /\ m = call[d].fd
    BY <1>3 DEF NewDescriptor
  <2> QED BY <1>2, BackEntry DEF IInv, NewDescriptor
<1> QED BY <1>4, <1>5, <1>6, <1>7, <1>8, <1>9 DEF IInv

(***************************************************************************)
(* Steps that change descriptors: every descriptor comes from itself or    *)
(* from one of a client that is not in a call.                             *)
(***************************************************************************)
Inherits(e, k) ==
    \E g \in Clients, l \in Fds :
        /\ fds[g][l] = fds'[e][k] /\ opened[g][l] = opened'[e][k]
        /\ (g = e /\ l = k) \/ pc[g] = "run"

LEMMA DescriptorsKeep ==
    ASSUME IInv, UNCHANGED srvVars,
           fds' \in [Clients -> [Fds -> Entries \cup {None}]],
           opened' \in [Clients -> [Fds -> Files \cup {None}]],
           pc' \in [Clients -> {"none", "run", "send", "sent", "recv", "back"}],
           call' \in [Clients -> Call \cup {NoCall}],
           \A e \in Clients, k \in Fds :
              \/ fds'[e][k] = None /\ opened'[e][k] = None
              \/ Inherits(e, k),
           \A e \in Clients :
              InCall(e)' => pc'[e] = pc[e] /\ call'[e] = call[e] /\ fds'[e] = fds[e],
           \A e \in Clients :
              pc[e] \in {"sent", "recv"} => pc'[e] = pc[e] /\ call'[e] = call[e]
    PROVE  IInv'
<1>0. UNCHANGED <<opentab, fdpage, backed, srv, msg, answer>> BY DEF srvVars
<1>1. TypeOK' BY <1>0 DEF IInv, TypeOK
<1>2. FdsExact'
  <2> SUFFICES ASSUME NEW e \in Clients, NEW k \in Fds
               PROVE  /\ fds'[e][k] = None <=> opened'[e][k] = None
                      /\ fds'[e][k] # None =>
                            /\ fds'[e][k] \in backed
                            /\ fdpage[fds'[e][k]].id = opentab[fds'[e][k]].o_fileid
                            /\ opentab[fds'[e][k]].o_file = opened'[e][k]
    BY <1>0 DEF FdsExact
  <2>1. CASE fds'[e][k] = None /\ opened'[e][k] = None BY <2>1
  <2>2. CASE Inherits(e, k)
    <3>1. PICK g \in Clients, l \in Fds :
             fds[g][l] = fds'[e][k] /\ opened[g][l] = opened'[e][k]
      BY <2>2 DEF Inherits
    <3> QED BY <3>1 DEF IInv, FdsExact
  <2> QED BY <2>1, <2>2
<1>3. CallExact' BY <1>0 DEF IInv, CallExact, InCall
<1>4. Serving' BY <1>0 DEF IInv, Serving
<1>5. Advancing' BY <1>0 DEF IInv, Advancing
<1>6. Granted'
  <2> SUFFICES ASSUME srv = "reply", answer # None PROVE ~Shared(answer)'
    BY <1>0 DEF IInv, Granted
  <2>1. ~Shared(answer) BY DEF IInv, Granted
  <2>2. ASSUME NEW e \in Clients, NEW k \in Fds PROVE fds'[e][k] # answer
    <3>1. CASE fds'[e][k] = None BY <3>1
    <3>2. CASE Inherits(e, k)
      <4>1. PICK g \in Clients, l \in Fds : fds[g][l] = fds'[e][k] BY <3>2 DEF Inherits
      <4> QED BY <4>1, <2>1 DEF Shared
    <3> QED BY <3>1, <3>2
  <2> QED BY <1>0, <2>2 DEF Shared
<1>7. NewDescriptor'
  <2> SUFFICES ASSUME NEW d \in Clients, pc'[d] = "back", call'[d].op = "open",
                      fds'[d][call'[d].fd] # None
               PROVE  /\ fdpage[fds'[d][call'[d].fd]].offset = 0
                      /\ \A e \in Clients, m \in Fds :
                            fds'[e][m] = fds'[d][call'[d].fd] => e = d /\ m = call'[d].fd
    BY <1>0 DEF NewDescriptor
  <2>1. pc[d] = "back" /\ call'[d] = call[d] /\ fds'[d] = fds[d] BY DEF InCall
  <2> DEFINE i == fds[d][call[d].fd]
  <2>2. i # None BY <2>1
  <2>3. /\ fdpage[i].offset = 0
        /\ \A e \in Clients, m \in Fds : fds[e][m] = i => e = d /\ m = call[d].fd
    BY <2>1, <2>2 DEF IInv, NewDescriptor
  <2>4. ASSUME NEW e \in Clients, NEW m \in Fds, fds'[e][m] = i
        PROVE  e = d /\ m = call[d].fd
    <3>1. PICK g \in Clients, l \in Fds :
             fds[g][l] = i /\ ((g = e /\ l = m) \/ pc[g] = "run")
      BY <2>2, <2>4 DEF Inherits
    <3>2. g = d /\ l = call[d].fd BY <2>3, <3>1
    <3> QED BY <2>1, <3>1, <3>2
  <2> QED BY <2>1, <2>3, <2>4
<1> QED BY <1>1, <1>2, <1>3, <1>4, <1>5, <1>6, <1>7 DEF IInv

LEMMA DupKeeps ==
    ASSUME IInv, NEW c \in Clients, NEW n \in Fds, NEW m \in Fds, dup(c, n, m)
    PROVE  IInv'
<1>1. /\ fds' \in [Clients -> [Fds -> Entries \cup {None}]]
      /\ opened' \in [Clients -> [Fds -> Files \cup {None}]]
      /\ \A e \in Clients, k \in Fds :
            /\ fds'[e][k] = IF e = c /\ k = m THEN fds[c][n] ELSE fds[e][k]
            /\ opened'[e][k] = IF e = c /\ k = m THEN opened[c][n] ELSE opened[e][k]
      /\ \A e \in Clients : e # c => fds'[e] = fds[e]
  BY DEF dup, IInv, TypeOK
<1>2. pc[c] = "run" /\ UNCHANGED srvVars /\ UNCHANGED <<pc, call>> BY DEF dup, Idle
<1>3. ASSUME NEW e \in Clients, NEW k \in Fds PROVE Inherits(e, k)
  BY <1>1, <1>2 DEF Inherits
<1>4. \A e \in Clients : InCall(e)' => e # c BY <1>2 DEF InCall
<1> QED BY <1>1, <1>2, <1>3, <1>4, DescriptorsKeep DEF IInv, TypeOK

LEMMA ForkKeeps ==
    ASSUME IInv, NEW c \in Clients, NEW d \in Clients, fork(c, d)
    PROVE  IInv'
<1>1. /\ fds' \in [Clients -> [Fds -> Entries \cup {None}]]
      /\ opened' \in [Clients -> [Fds -> Files \cup {None}]]
      /\ pc' \in [Clients -> {"none", "run", "send", "sent", "recv", "back"}]
      /\ \A e \in Clients :
            /\ fds'[e] = IF e = d THEN fds[c] ELSE fds[e]
            /\ opened'[e] = IF e = d THEN opened[c] ELSE opened[e]
            /\ pc'[e] = IF e = d THEN "run" ELSE pc[e]
  BY DEF fork, IInv, TypeOK
<1>2. pc[c] = "run" /\ pc[d] = "none" /\ UNCHANGED srvVars /\ UNCHANGED call
  BY DEF fork, Idle
<1>3. ASSUME NEW e \in Clients, NEW k \in Fds PROVE Inherits(e, k)
  BY <1>1, <1>2 DEF Inherits
<1>4. \A e \in Clients : InCall(e)' => e # d BY <1>1 DEF InCall
<1> QED BY <1>1, <1>2, <1>3, <1>4, DescriptorsKeep DEF IInv, TypeOK

LEMMA ExitKeeps ==
    ASSUME Kill = FALSE, IInv, NEW c \in Clients, env_free(c)
    PROVE  IInv'
<1>1. /\ fds' \in [Clients -> [Fds -> Entries \cup {None}]]
      /\ opened' \in [Clients -> [Fds -> Files \cup {None}]]
      /\ pc' \in [Clients -> {"none", "run", "send", "sent", "recv", "back"}]
      /\ call' \in [Clients -> Call \cup {NoCall}]
      /\ \A e \in Clients :
            /\ fds'[e] = IF e = c THEN Closed ELSE fds[e]
            /\ opened'[e] = IF e = c THEN Closed ELSE opened[e]
            /\ pc'[e] = IF e = c THEN "none" ELSE pc[e]
            /\ call'[e] = IF e = c THEN NoCall ELSE call[e]
  BY Constants DEF env_free, IInv, TypeOK
<1>2. pc[c] = "run" /\ UNCHANGED srvVars BY DEF env_free, Idle
<1>3. ASSUME NEW e \in Clients, NEW k \in Fds
      PROVE  (fds'[e][k] = None /\ opened'[e][k] = None) \/ Inherits(e, k)
  BY <1>1 DEF Inherits, Closed
<1>4. \A e \in Clients : InCall(e)' => e # c BY <1>1 DEF InCall
<1> QED BY <1>1, <1>2, <1>3, <1>4, DescriptorsKeep

LEMMA ReturnKeeps ==
    ASSUME IInv, NEW c \in Clients, Return(c)
    PROVE  IInv'
<1>1. pc[c] = "back" /\ UNCHANGED srvVars BY DEF Return
<1>2. /\ pc' \in [Clients -> {"none", "run", "send", "sent", "recv", "back"}]
      /\ call' \in [Clients -> Call \cup {NoCall}]
      /\ \A e \in Clients :
            /\ pc'[e] = IF e = c THEN "run" ELSE pc[e]
            /\ call'[e] = IF e = c THEN NoCall ELSE call[e]
  BY DEF Return, IInv, TypeOK
<1>3. /\ fds' \in [Clients -> [Fds -> Entries \cup {None}]]
      /\ opened' \in [Clients -> [Fds -> Files \cup {None}]]
      /\ \A e \in Clients : e # c => fds'[e] = fds[e] /\ opened'[e] = opened[e]
      /\ \A k \in Fds : \/ fds'[c][k] = None /\ opened'[c][k] = None
                        \/ fds'[c][k] = fds[c][k] /\ opened'[c][k] = opened[c][k]
  <2>1. CASE call[c].op = "close"
    <3>1. call[c].fd \in Fds BY <1>1, <2>1, CallEntry DEF InCall, OnFile
    <3> DEFINE n == call[c].fd
    <3>2. fds' = [fds EXCEPT ![c] = [fds[c] EXCEPT ![n] = None]]
      BY <2>1 DEF Return
    <3>3. opened' = [opened EXCEPT ![c] = [opened[c] EXCEPT ![n] = None]]
      BY <2>1 DEF Return
    <3> HIDE DEF n
    <3> QED BY <3>2, <3>3 DEF IInv, TypeOK
  <2>2. CASE call[c].op # "close"
    BY <2>2 DEF Return, IInv, TypeOK
  <2> QED BY <2>1, <2>2
<1>4. ASSUME NEW e \in Clients, NEW k \in Fds
      PROVE  (fds'[e][k] = None /\ opened'[e][k] = None) \/ Inherits(e, k)
  BY <1>3 DEF Inherits
<1>5. \A e \in Clients : InCall(e)' => e # c BY <1>2 DEF InCall
<1> QED BY <1>1, <1>2, <1>3, <1>4, <1>5, DescriptorsKeep

-----------------------------------------------------------------------------
(* Messages.                                                               *)

LEMMA SendKeeps ==
    ASSUME IInv, NEW c \in Clients, ipc_send(c)
    PROVE  IInv'
<1>1. /\ pc[c] = "send" /\ srv' = "serve"
      /\ msg' = [from |-> c, req |-> call[c]]
      /\ UNCHANGED <<opentab, fdpage, backed, answer, fds, opened, call>>
  BY DEF ipc_send
<1>2. /\ pc' \in [Clients -> {"none", "run", "send", "sent", "recv", "back"}]
      /\ \A e \in Clients : pc'[e] = IF e = c THEN "sent" ELSE pc[e]
  BY DEF ipc_send, IInv, TypeOK
<1>3. TypeOK' BY <1>1, <1>2 DEF IInv, TypeOK
<1>4. FdsExact' BY <1>1 DEF IInv, FdsExact
<1>5. CallExact' BY <1>1, <1>2 DEF IInv, CallExact, InCall
<1>6. Serving' /\ Advancing' /\ Granted' BY <1>1, <1>2 DEF Serving, Advancing, Granted
<1>7. NewDescriptor' BY <1>1, <1>2 DEF IInv, NewDescriptor
<1> QED BY <1>3, <1>4, <1>5, <1>6, <1>7 DEF IInv

LEMMA RecvKeeps ==
    ASSUME IInv, NEW c \in Clients, ipc_recv(c)
    PROVE  IInv'
<1>1. /\ pc[c] = "sent"
      /\ UNCHANGED <<opentab, fdpage, backed, srv, msg, answer, fds, opened, call>>
  BY DEF ipc_recv, srvVars
<1>2. /\ pc' \in [Clients -> {"none", "run", "send", "sent", "recv", "back"}]
      /\ \A e \in Clients : pc'[e] = IF e = c THEN "recv" ELSE pc[e]
  BY DEF ipc_recv, IInv, TypeOK
<1>3. TypeOK' BY <1>1, <1>2 DEF IInv, TypeOK
<1>4. FdsExact' BY <1>1 DEF IInv, FdsExact
<1>5. CallExact' BY <1>1, <1>2 DEF IInv, CallExact, InCall
<1>6. Serving' /\ Advancing' /\ Granted'
  BY <1>1, <1>2 DEF IInv, Serving, Advancing, Granted, Shared
<1>7. NewDescriptor' BY <1>1, <1>2 DEF IInv, NewDescriptor
<1> QED BY <1>3, <1>4, <1>5, <1>6, <1>7 DEF IInv

\* The server leaves the table and the clients alone.
LEMMA QuietKeeps ==
    ASSUME IInv, UNCHANGED <<opentab, fdpage, backed, clientVars>>, TypeOK',
           Serving', Advancing', Granted'
    PROVE  IInv'
BY DEF IInv, clientVars, FdsExact, CallExact, InCall, NewDescriptor

LEMMA ServeKeeps ==
    ASSUME IInv, serve
    PROVE  IInv'
<1>1. /\ srv' = "recv" /\ msg' = NoMsg /\ answer' = None
      /\ UNCHANGED <<opentab, fdpage, backed, clientVars>>
  BY DEF serve
<1>2. TypeOK' BY <1>1 DEF IInv, TypeOK, NoMsg, clientVars
<1>3. Serving' /\ Advancing' /\ Granted' BY <1>1 DEF Serving, Advancing, Granted
<1> QED BY <1>1, <1>2, <1>3, QuietKeeps

\* A handler that changes nothing and sends no page.
LEMMA PlainAnswerKeeps ==
    ASSUME IInv, srv = "serve", Answer(None),
           UNCHANGED <<opentab, fdpage, backed, msg, clientVars>>
    PROVE  IInv'
<1>1. srv' = "reply" /\ answer' = None BY DEF Answer
<1>2. TypeOK' BY <1>1 DEF IInv, TypeOK, clientVars
<1>3. Serving' /\ Advancing' /\ Granted'
  BY <1>1 DEF IInv, Serving, Advancing, Granted, clientVars
<1> QED BY <1>1, <1>2, <1>3, QuietKeeps

LEMMA ServeFileKeeps ==
    ASSUME IInv, ServeFile
    PROVE  IInv'
<1>1. CASE Answer(None)
  BY <1>1, PlainAnswerKeeps DEF ServeFile
<1>2. CASE /\ msg.req.op = "io" /\ fdpage[msg.req.entry].offset < MaxOffset
           /\ srv' = "advance" /\ UNCHANGED answer
  <2>1. UNCHANGED <<opentab, fdpage, backed, msg, clientVars>> /\ srv = "serve"
    BY DEF ServeFile
  <2>2. TypeOK' BY <1>2, <2>1 DEF IInv, TypeOK, clientVars
  <2>3. Serving' /\ Advancing' /\ Granted'
    BY <1>2, <2>1 DEF IInv, Serving, Advancing, Granted, clientVars
  <2> QED BY <2>1, <2>2, <2>3, QuietKeeps
<1> QED BY <1>1, <1>2 DEF ServeFile

-----------------------------------------------------------------------------
(* Steps of the server that change the table.                              *)

LEMMA AdvanceKeeps ==
    ASSUME IInv, Advance
    PROVE  IInv'
<1> DEFINE c == msg.from
           i == msg.req.entry
<1>1. /\ srv = "advance" /\ srv' = "reply" /\ answer' = None
      /\ UNCHANGED <<opentab, backed, msg, fds, opened, pc, call>>
  BY DEF Advance, Answer, clientVars
<1>2. /\ c \in Clients /\ pc[c] \in {"sent", "recv"} /\ msg.req = call[c]
      /\ call[c].op = "io" /\ fdpage[i].offset < MaxOffset
  BY <1>1 DEF IInv, Serving, Advancing
<1>3. call[c].fd \in Fds /\ i \in Entries /\ fds[c][call[c].fd] = i
  BY <1>2, CallEntry DEF InCall, OnFile, IInv, CallExact
<1>4. /\ fdpage' \in [Entries -> [id : Gens \cup {None}, offset : 0 .. MaxOffset]]
      /\ \A j \in Entries : /\ fdpage'[j].id = fdpage[j].id
                            /\ j # i => fdpage'[j].offset = fdpage[j].offset
  <2>1. fdpage \in [Entries -> [id : Gens \cup {None}, offset : 0 .. MaxOffset]]
    BY DEF IInv, TypeOK
  <2>2. fdpage' = [fdpage EXCEPT ![i] = [fdpage[i] EXCEPT !.offset = fdpage[i].offset + 1]]
    BY DEF Advance
  <2>3. fdpage[i].offset + 1 \in 0 .. MaxOffset
    BY <1>2, <1>3, <2>1, FileServerAssumption
  <2> HIDE DEF i
  <2> QED BY <1>3, <2>1, <2>2, <2>3
<1>5. TypeOK' BY <1>1, <1>4 DEF IInv, TypeOK
<1>6. FdsExact' BY <1>1, <1>4 DEF IInv, TypeOK, FdsExact
<1>7. CallExact' BY <1>1 DEF IInv, CallExact, InCall
<1>8. Serving' /\ Advancing' /\ Granted'
  BY <1>1 DEF IInv, Serving, Advancing, Granted
<1>9. NewDescriptor'
  <2> SUFFICES ASSUME NEW d \in Clients, pc[d] = "back", call[d].op = "open",
                      fds[d][call[d].fd] # None
               PROVE  /\ fdpage'[fds[d][call[d].fd]].offset = 0
                      /\ \A e \in Clients, m \in Fds :
                            fds[e][m] = fds[d][call[d].fd] => e = d /\ m = call[d].fd
    BY <1>1 DEF NewDescriptor
  <2>1. fds[d][call[d].fd] # i BY <1>2, <1>3 DEF IInv, NewDescriptor
  <2> QED BY <1>4, <2>1, BackEntry DEF IInv, NewDescriptor
<1> QED BY <1>5, <1>6, <1>7, <1>8, <1>9 DEF IInv

\* openfile_alloc() took entry i.
LEMMA AllocKeeps ==
    ASSUME IInv, srv = "serve", msg.req.op = "open",
           NEW i \in Entries, ~Shared(i),
           opentab' \in [Entries -> [o_fileid : Gens, o_file : Files \cup {None}]],
           fdpage' \in [Entries -> [id : Gens \cup {None}, offset : 0 .. MaxOffset]],
           \A j \in Entries \ {i} : opentab'[j] = opentab[j] /\ fdpage'[j] = fdpage[j],
           backed' = backed \cup {i}, srv' = "reply",
           \/ answer' = None
           \/ /\ answer' = i
              /\ fdpage'[i].id = opentab'[i].o_fileid /\ fdpage'[i].offset = 0
              /\ opentab'[i].o_file = msg.req.file,
           UNCHANGED <<msg, clientVars>>
    PROVE  IInv'
<1>0. UNCHANGED <<msg, fds, opened, pc, call>> BY DEF clientVars
<1>1. TypeOK' BY <1>0 DEF IInv, TypeOK
<1>2. \A e \in Clients, k \in Fds : fds[e][k] # i BY DEF Shared
<1>3. FdsExact' BY <1>0, <1>2 DEF IInv, TypeOK, FdsExact
<1>4. CallExact'
  <2> SUFFICES ASSUME NEW c \in Clients, InCall(c), call[c].op \in OnFile
               PROVE  opentab'[call[c].entry].o_fileid = call[c].gen
    BY <1>0 DEF IInv, CallExact, InCall
  <2>1. call[c].entry \in Entries /\ call[c].entry # i BY CallEntry
  <2> QED BY <2>1 DEF IInv, CallExact
<1>5. Serving' /\ Advancing' BY <1>0 DEF IInv, Serving, Advancing
<1>6. Granted' BY <1>0, <1>2, Constants DEF Granted, Shared
<1>7. NewDescriptor'
  <2> SUFFICES ASSUME NEW d \in Clients, pc[d] = "back", call[d].op = "open",
                      fds[d][call[d].fd] # None
               PROVE  /\ fdpage'[fds[d][call[d].fd]].offset = 0
                      /\ \A e \in Clients, m \in Fds :
                            fds[e][m] = fds[d][call[d].fd] => e = d /\ m = call[d].fd
    BY <1>0 DEF NewDescriptor
  <2>1. fds[d][call[d].fd] \in Entries \ {i} BY <1>2, BackEntry
  <2> QED BY <2>1 DEF IInv, NewDescriptor
<1> QED BY <1>1, <1>3, <1>4, <1>5, <1>6, <1>7 DEF IInv

LEMMA ServeOpenKeeps ==
    ASSUME IInv, serve_open
    PROVE  IInv'
<1>1. /\ srv = "serve" /\ msg.req.op = "open" /\ UNCHANGED <<msg, clientVars>>
  BY DEF serve_open
<1>2. CASE OpenRefused BY <1>1, <1>2, PlainAnswerKeeps DEF OpenRefused
<1>3. ASSUME NEW i \in Entries, Available(i), OpenFailed(i) PROVE IInv'
  <2>1. NextGen(opentab[i].o_fileid) \in Gens BY Constants DEF IInv, TypeOK
  <2>2. opentab' = [opentab EXCEPT ![i] =
                      [opentab[i] EXCEPT !.o_fileid = NextGen(opentab[i].o_fileid)]]
    BY <1>3 DEF OpenFailed
  <2>3. /\ opentab' \in [Entries -> [o_fileid : Gens, o_file : Files \cup {None}]]
        /\ \A j \in Entries \ {i} : opentab'[j] = opentab[j]
    <3>1. opentab \in [Entries -> [o_fileid : Gens, o_file : Files \cup {None}]]
      BY DEF IInv, TypeOK
    <3>2. [opentab[i] EXCEPT !.o_fileid = NextGen(opentab[i].o_fileid)]
             \in [o_fileid : Gens, o_file : Files \cup {None}]
      BY <2>1, <3>1
    <3> QED BY <2>2, <3>1, <3>2
  <2>4. /\ fdpage' \in [Entries -> [id : Gens \cup {None}, offset : 0 .. MaxOffset]]
        /\ \A j \in Entries \ {i} : fdpage'[j] = fdpage[j]
    BY <1>3, FileServerAssumption DEF OpenFailed, Cleared, IInv, TypeOK
  <2>5. ~Shared(i) /\ backed' = backed \cup {i} /\ srv' = "reply" /\ answer' = None
    BY <1>3 DEF Available, OpenFailed, Answer
  <2> QED BY <1>1, <2>3, <2>4, <2>5, AllocKeeps
<1>4. ASSUME NEW i \in Entries, Available(i), OpenDone(i, msg.req.file) PROVE IInv'
  <2> DEFINE g == NextGen(opentab[i].o_fileid)
  <2>1. g \in Gens BY Constants DEF IInv, TypeOK
  <2>2. msg.req.file \in Files
    BY <1>1, OpenCalls DEF IInv, Serving, CallExact, InCall
  <2>3. /\ opentab' = [opentab EXCEPT ![i] = [o_fileid |-> g, o_file |-> msg.req.file]]
        /\ fdpage' = [fdpage EXCEPT ![i] = [id |-> g, offset |-> 0]]
    <3>1. /\ opentab' = [opentab EXCEPT ![i] = [o_fileid |-> g, o_file |-> msg.req.file]]
          /\ fdpage' = [fdpage EXCEPT ![i] = [Cleared(i) EXCEPT !.id = g]]
      BY <1>4 DEF OpenDone
    <3>2. [Cleared(i) EXCEPT !.id = g] = [id |-> g, offset |-> 0]
      BY DEF Cleared
    <3> QED BY <3>1, <3>2
  <2> HIDE DEF g
  <2>4. /\ opentab' \in [Entries -> [o_fileid : Gens, o_file : Files \cup {None}]]
        /\ \A j \in Entries \ {i} : opentab'[j] = opentab[j]
        /\ opentab'[i].o_fileid = g /\ opentab'[i].o_file = msg.req.file
    BY <2>1, <2>2, <2>3 DEF IInv, TypeOK
  <2>5. /\ fdpage' \in [Entries -> [id : Gens \cup {None}, offset : 0 .. MaxOffset]]
        /\ \A j \in Entries \ {i} : fdpage'[j] = fdpage[j]
        /\ fdpage'[i].id = g /\ fdpage'[i].offset = 0
    BY <2>1, <2>3, FileServerAssumption DEF IInv, TypeOK
  <2>6. ~Shared(i) /\ backed' = backed \cup {i} /\ srv' = "reply" /\ answer' = i
    BY <1>4 DEF Available, OpenDone, Answer
  <2> QED BY <1>1, <2>4, <2>5, <2>6, AllocKeeps
<1> QED BY <1>2, <1>3, <1>4 DEF serve_open

LEMMA ReplyKeeps ==
    ASSUME IInv, Reply
    PROVE  IInv'
<1> DEFINE c == msg.from
           n == msg.req.fd
<1>1. /\ srv = "reply" /\ c \in Clients /\ pc[c] = "recv" /\ msg.req = call[c]
      /\ call[c] \in Call
  BY DEF Reply, IInv, Serving, CallExact, InCall
<1>2. /\ srv' = "unmap"
      /\ UNCHANGED <<opentab, fdpage, backed, msg, answer, call>>
  BY <1>1 DEF Reply
<1>3. /\ pc' \in [Clients -> {"none", "run", "send", "sent", "recv", "back"}]
      /\ \A e \in Clients : pc'[e] = IF e = c THEN "back" ELSE pc[e]
  BY <1>1 DEF Reply, IInv, TypeOK
<1>4. Serving' /\ Advancing' /\ Granted' BY <1>2 DEF Serving, Advancing, Granted
<1>5. CASE answer = None
  <2>1. UNCHANGED <<fds, opened>> BY <1>1, <1>5 DEF Reply
  <2>2. TypeOK' BY <1>2, <1>3, <2>1 DEF IInv, TypeOK
  <2>3. FdsExact' BY <1>2, <2>1 DEF IInv, FdsExact
  <2>4. CallExact' BY <1>1, <1>2, <1>3, <2>1 DEF IInv, CallExact, InCall
  <2>5. NewDescriptor'
    BY <1>1, <1>2, <1>3, <2>1 DEF IInv, NewDescriptor, CallExact, InCall
  <2> QED BY <1>4, <2>2, <2>3, <2>4, <2>5 DEF IInv
<1>6. CASE answer # None
  <2>1. /\ call[c].op = "open" /\ n = call[c].fd /\ n \in Fds /\ call[c].file \in Files
        /\ answer \in Entries /\ answer \in backed
        /\ \A e \in Clients, k \in Fds : fds[e][k] # answer
        /\ fdpage[answer].id = opentab[answer].o_fileid
        /\ fdpage[answer].offset = 0
        /\ opentab[answer].o_file = call[c].file
    BY <1>1, <1>6, OpenCalls DEF IInv, TypeOK, Granted, Shared
  <2>2. /\ fds' = [fds EXCEPT ![c] = [fds[c] EXCEPT ![n] = answer]]
        /\ opened' = [opened EXCEPT ![c] = [opened[c] EXCEPT ![n] = call[c].file]]
    BY <1>1, <1>6 DEF Reply
  <2>3. /\ fds' \in [Clients -> [Fds -> Entries \cup {None}]]
        /\ opened' \in [Clients -> [Fds -> Files \cup {None}]]
        /\ \A e \in Clients : e # c => fds'[e] = fds[e]
        /\ \A e \in Clients, k \in Fds :
              /\ fds'[e][k] = IF e = c /\ k = n THEN answer ELSE fds[e][k]
              /\ opened'[e][k] = IF e = c /\ k = n THEN call[c].file ELSE opened[e][k]
    <3> HIDE DEF c, n
    <3> QED BY <2>1, <2>2, <1>1 DEF IInv, TypeOK
  <2>4. TypeOK' BY <1>2, <1>3, <2>3 DEF IInv, TypeOK
  <2>5. FdsExact'
    <3> SUFFICES ASSUME NEW e \in Clients, NEW k \in Fds
                 PROVE  /\ fds'[e][k] = None <=> opened'[e][k] = None
                        /\ fds'[e][k] # None =>
                              /\ fds'[e][k] \in backed
                              /\ fdpage[fds'[e][k]].id = opentab[fds'[e][k]].o_fileid
                              /\ opentab[fds'[e][k]].o_file = opened'[e][k]
      BY <1>2 DEF FdsExact
    <3>1. CASE e = c /\ k = n BY <2>1, <2>3, <3>1, <1>6, Constants
    <3>2. CASE ~(e = c /\ k = n) BY <2>3, <3>2 DEF IInv, FdsExact
    <3> QED BY <3>1, <3>2
  <2>6. CallExact' BY <1>1, <1>2, <1>3, <2>1, <2>3 DEF IInv, CallExact, InCall, OnFile
  <2>7. NewDescriptor'
    <3> SUFFICES ASSUME NEW d \in Clients, pc'[d] = "back", call[d].op = "open",
                        fds'[d][call[d].fd] # None
                 PROVE  /\ fdpage[fds'[d][call[d].fd]].offset = 0
                        /\ \A e \in Clients, m \in Fds :
                              fds'[e][m] = fds'[d][call[d].fd] => e = d /\ m = call[d].fd
      BY <1>2 DEF NewDescriptor
    <3>1. CASE d = c
      <4>1. d = c /\ call[d].fd = n BY <2>1, <3>1
      <4>2. fds'[d][call[d].fd] = answer BY <2>1, <2>3, <4>1
      <4>3. fdpage[answer].offset = 0 BY <2>1
      <4>4. \A e \in Clients, m \in Fds : fds'[e][m] = answer => e = c /\ m = n
        BY <2>1, <2>3
      <4> HIDE DEF c, n
      <4> QED BY <4>1, <4>2, <4>3, <4>4
    <3>2. CASE d # c
      <4>1. pc[d] = "back" /\ fds'[d] = fds[d] BY <1>3, <2>3, <3>2
      <4>2. call[d].fd \in Fds BY <4>1, BackEntry
      <4> QED BY <2>1, <2>3, <3>2, <4>1, <4>2 DEF IInv, NewDescriptor
    <3> QED BY <3>1, <3>2
  <2> QED BY <1>4, <2>4, <2>5, <2>6, <2>7 DEF IInv
<1> QED BY <1>5, <1>6

-----------------------------------------------------------------------------

LEMMA InitIInv == Init => IInv
<1> SUFFICES ASSUME Init PROVE IInv OBVIOUS
<1>1. TypeOK
  BY Constants, FileServerAssumption DEF Init, TypeOK, NoMsg, Gens
<1>2. FdsExact BY DEF Init, FdsExact, Closed
<1>3. CallExact /\ NewDescriptor BY DEF Init, CallExact, InCall, NewDescriptor
<1>4. Serving /\ Advancing /\ Granted BY DEF Init, Serving, Advancing, Granted
<1> QED BY <1>1, <1>2, <1>3, <1>4 DEF IInv

LEMMA NextIInv ==
    ASSUME Kill = FALSE, IInv, [Next]_vars
    PROVE  IInv'
<1>1. CASE UNCHANGED vars
  BY <1>1 DEF vars, srvVars, clientVars, IInv, TypeOK, FdsExact, CallExact, InCall,
     Serving, Advancing, Granted, Shared, NewDescriptor
<1>2. ASSUME NEW c \in Clients, ClientCall(c) PROVE IInv'
  BY <1>2, OpenKeeps, FileCallKeeps, SyncKeeps, SeekKeeps, DupKeeps, ForkKeeps, ExitKeeps
     DEF ClientCall
<1>3. ASSUME NEW c \in Clients, Fsipc(c) PROVE IInv'
  BY <1>3, SendKeeps, RecvKeeps, ReturnKeeps DEF Fsipc
<1>4. CASE Server
  <2>1. CASE serve_sync BY <2>1, PlainAnswerKeeps DEF serve_sync
  <2> QED BY <1>4, <2>1, ServeOpenKeeps, ServeFileKeeps, AdvanceKeeps, ReplyKeeps,
            ServeKeeps DEF Server
<1> QED BY <1>1, <1>2, <1>3, <1>4 DEF Next

\* As long as no client is destroyed while it waits: the types, descriptors and
\* requests that reach the file that was opened although table entries, pages
\* and ids are used again, and new descriptors that are private and at
\* offset 0.
THEOREM Safety ==
    ASSUME Kill = FALSE
    PROVE  Spec => [](TypeOK /\ FdsExact /\ RequestReaches /\ NewDescriptor)
<1>1. Init => IInv BY InitIInv
<1>2. IInv /\ [Next]_vars => IInv' BY NextIInv
<1>3. IInv => RequestReaches
  <2> SUFFICES ASSUME IInv, srv \in {"serve", "advance"}, msg.req.op \in OnFile
               PROVE  /\ openfile_lookup(msg.req)
                      /\ opentab[msg.req.entry].o_file = opened[msg.from][msg.req.fd]
    BY DEF RequestReaches
  <2>1. /\ msg.from \in Clients /\ InCall(msg.from)
        /\ msg.req = call[msg.from]
    BY DEF IInv, Serving, InCall
  <2>2. /\ msg.req.fd \in Fds /\ msg.req.entry \in Entries /\ Shared(msg.req.entry)
        /\ fds[msg.from][msg.req.fd] = msg.req.entry
        /\ opentab[msg.req.entry].o_fileid = msg.req.gen
    BY <2>1, CallEntry DEF IInv, CallExact
  <2> QED BY <2>1, <2>2, Constants DEF IInv, FdsExact, openfile_lookup
<1>4. IInv => TypeOK /\ FdsExact /\ NewDescriptor BY DEF IInv
<1> QED BY <1>1, <1>2, <1>3, <1>4, PTL DEF Spec

\* openfile_alloc() and openfile_lookup(): every open descriptor is the page of
\* an entry with its id and its file, although entries and ids are used again.
THEOREM DescriptorsAreExact ==
    ASSUME Kill = FALSE
    PROVE  Spec => []FdsExact
BY Safety, PTL

\* open() in lib/file.c and serve_open(): a new descriptor is at offset 0 and
\* nobody else has it.
THEOREM NewDescriptorsArePrivate ==
    ASSUME Kill = FALSE
    PROVE  Spec => []NewDescriptor
BY Safety, PTL

\* Nothing else but the destruction of a client in a call stops the server:
\* ipc_send() of the reply finds the client alive, whatever calls, exits and
\* fork()s of the others come in between.
THEOREM ServerOutlivesClients ==
    ASSUME Kill = FALSE
    PROVE  Spec => []ServerLives
<1>1. Init => IInv /\ ServerLives BY InitIInv DEF Init, ServerLives
<1>2. IInv /\ ServerLives /\ [Next]_vars => IInv' /\ ServerLives'
  <2> SUFFICES ASSUME IInv, srv # "panicked", [Next]_vars
               PROVE  IInv' /\ srv' # "panicked"
    BY DEF ServerLives
  <2>1. IInv' BY NextIInv
  <2>2. CASE srv' = srv BY <2>1, <2>2
  <2>3. CASE \E c \in Clients : ipc_send(c) BY <2>1, <2>3 DEF ipc_send
  <2>4. CASE Reply
    <3>1. pc[msg.from] # "none" BY <2>4 DEF IInv, Serving, Reply
    <3> QED BY <2>1, <2>4, <3>1 DEF Reply
  <2>5. CASE Server /\ ~Reply
    BY <2>1, <2>5 DEF Server, serve_open, OpenRefused, OpenFailed, OpenDone, ServeFile, Advance,
       serve_sync, serve, Answer
  <2>6. ASSUME NEW c \in Clients, ClientCall(c) PROVE srv' = srv
    BY <2>6 DEF ClientCall, open, FileCall, sync, Request, seek, dup, fork, env_free, srvVars
  <2>7. ASSUME NEW c \in Clients, ipc_recv(c) \/ Return(c) PROVE srv' = srv
    BY <2>7 DEF ipc_recv, Return, srvVars
  <2>8. UNCHANGED vars => srv' = srv BY DEF vars, srvVars
  <2> QED BY <2>2, <2>3, <2>4, <2>5, <2>6, <2>7, <2>8 DEF Next, Fsipc
<1> QED BY <1>1, <1>2, PTL DEF Spec
=============================================================================
