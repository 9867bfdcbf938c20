----------------------------- MODULE FileServer -----------------------------
(***************************************************************************)
(* The file server (lab6/jos/fs/serv.c), its clients (lib/file.c and the   *)
(* part of lib/fd.c they use) and the messages between them (lib/ipc.c).   *)
(*                                                                         *)
(* An open file has an entry of opentab[] and a page with its struct Fd,   *)
(* which the server shares with the clients that have the file open.  The  *)
(* server learns from pageref() alone that an entry is no longer in use:   *)
(* one reference is its own, each other one a descriptor of a client.      *)
(*                                                                         *)
(* A file id is i + gen * MAXOPEN for entry i.  It is a 32 bit number that *)
(* openfile_alloc() returns as an int; gen wraps, and its upper half makes *)
(* the id negative.  Contents of files are the subject of FileSystem.      *)
(***************************************************************************)
EXTENDS Integers

CONSTANTS
    Clients,     \* environments that use files; an id is used again after exit
    Boot,        \* those that exist at the start
    Files,
    MAXOPEN,     \* entries of opentab[]
    MAXFD,       \* descriptors of a client
    HalfGens,    \* bound: gen is in 0 .. 2 * HalfGens - 1 (2^21 in the code)
    MaxOffset,   \* bound: the size of every file, in units of one read or write
    Kill,        \* TRUE if clients may be destroyed while they wait
    None

ASSUME FileServerAssumption ==
    /\ Boot \subseteq Clients
    /\ MAXOPEN \in Nat /\ MAXFD \in Nat
    /\ HalfGens \in Nat \ {0}
    /\ MaxOffset \in Nat
    /\ Kill \in BOOLEAN
    /\ None \notin Files /\ None \notin Int

VARIABLES
    opentab,     \* opentab[i]: o_fileid, as a generation, and o_file
    fdpage,      \* fdpage[i]: the struct Fd at o_fd; its id is None if zeroed
    backed,      \* the entries that have a page at o_fd
    srv,         \* what the server is doing
    msg,         \* the request on the page fsreq, and who sent it
    answer,      \* the entry whose page goes with the reply, or None
    fds,         \* fds[c][n]: the entry whose page c has at descriptor n
    opened,      \* opened[c][n]: the file c had asked for (only for properties)
    pc,          \* what client c is doing
    call         \* the call client c is in

srvVars == <<opentab, fdpage, backed, srv, msg, answer>>
clientVars == <<fds, opened, pc, call>>
vars == <<srvVars, clientVars>>

Entries == 0 .. MAXOPEN - 1
Fds == 0 .. MAXFD - 1
Gens == 0 .. 2 * HalfGens - 1

\* Requests that name an open file.  "io" is read(), write(), fstat() or
\* ftruncate(); "close" sends FSREQ_FLUSH.
OnFile == {"io", "close"}

Call ==
    [op : {"open"}, fd : Fds, file : Files]
        \cup [op : OnFile, fd : Fds, entry : Entries, gen : Gens]
        \cup [op : {"sync"}]

NoCall == [op |-> "none"]

\* pageref() > 1.
Shared(i) == \E c \in Clients, n \in Fds : fds[c][n] = i

Idle(c) == pc[c] = "run"

-----------------------------------------------------------------------------
(* Calls of a client, up to the point where it starts to send.             *)

\* fsipc() with a request in fsipcbuf.
Request(c, req) ==
    /\ Idle(c)
    /\ pc' = [pc EXCEPT ![c] = "send"]
    /\ call' = [call EXCEPT ![c] = req]
    /\ UNCHANGED <<fds, opened, srvVars>>

\* fd_alloc(): the first descriptor without a page.
fd_alloc(c, n) ==
    /\ fds[c][n] = None
    /\ \A m \in Fds : m < n => fds[c][m] # None

open(c, f) ==
    \E n \in Fds : fd_alloc(c, n) /\ Request(c, [op |-> "open", fd |-> n, file |-> f])

\* Mutant: close() unmaps the page before it asks for the flush.
FileCallUnmapFirst(c, n, op) ==
    LET i == fds[c][n] IN
    /\ Idle(c)
    /\ i # None
    /\ pc' = [pc EXCEPT ![c] = "send"]
    /\ call' = [call EXCEPT ![c] =
                   [op |-> op, fd |-> n, entry |-> i, gen |-> fdpage[i].id]]
    /\ IF op = "close"
       THEN /\ fds' = [fds EXCEPT ![c][n] = None]
            /\ opened' = [opened EXCEPT ![c][n] = None]
       ELSE UNCHANGED <<fds, opened>>
    /\ UNCHANGED srvVars

\* read(), write(), fstat(), ftruncate() and close() of descriptor n:
\* dev_lookup() finds devfile unless the page is zeroed.
FileCall(c, n, op) ==
    LET i == fds[c][n] IN
    /\ i # None
    /\ fdpage[i].id # None
    /\ Request(c, [op |-> op, fd |-> n, entry |-> i, gen |-> fdpage[i].id])

sync(c) == Request(c, [op |-> "sync"])

\* seek() stores into the shared page, here to start from the beginning again.
seek(c, n) ==
    /\ Idle(c)
    /\ fds[c][n] # None
    /\ fdpage' = [fdpage EXCEPT ![fds[c][n]].offset = 0]
    /\ UNCHANGED <<opentab, backed, srv, msg, answer, clientVars>>

\* dup() to a descriptor not in use; otherwise it begins with a close().
dup(c, n, m) ==
    /\ Idle(c)
    /\ fds[c][n] # None /\ fds[c][m] = None
    /\ fds' = [fds EXCEPT ![c][m] = fds[c][n]]
    /\ opened' = [opened EXCEPT ![c][m] = opened[c][n]]
    /\ UNCHANGED <<pc, call, srvVars>>

\* fork(): the Fd pages are PTE_SHARE.  An id that a request being served
\* still names is not given to the child.
fork(c, d) ==
    /\ Idle(c)
    /\ pc[d] = "none"
    /\ msg.from # d
    /\ pc' = [pc EXCEPT ![d] = "run"]
    /\ fds' = [fds EXCEPT ![d] = fds[c]]
    /\ opened' = [opened EXCEPT ![d] = opened[c]]
    /\ UNCHANGED <<call, srvVars>>

Closed == [n \in Fds |-> None]

\* exit(), a fault, or sys_env_destroy() by the parent: the pages go, nothing
\* is sent to the server.
env_free(c) ==
    /\ Idle(c) \/ (Kill /\ pc[c] # "none")
    /\ pc' = [pc EXCEPT ![c] = "none"]
    /\ fds' = [fds EXCEPT ![c] = Closed]
    /\ opened' = [opened EXCEPT ![c] = Closed]
    /\ call' = [call EXCEPT ![c] = NoCall]
    /\ UNCHANGED srvVars

-----------------------------------------------------------------------------
(* The rest of fsipc().                                                    *)

\* ipc_send() tries until the server is in sys_ipc_recv().
ipc_send(c) ==
    /\ pc[c] = "send"
    /\ srv = "recv"
    /\ pc' = [pc EXCEPT ![c] = "sent"]
    /\ srv' = "serve"
    /\ msg' = [from |-> c, req |-> call[c]]
    /\ UNCHANGED <<opentab, fdpage, backed, answer, fds, opened, call>>

ipc_recv(c) ==
    /\ pc[c] = "sent"
    /\ pc' = [pc EXCEPT ![c] = "recv"]
    /\ UNCHANGED <<fds, opened, call, srvVars>>

\* The call returns: close() unmaps the page, whatever the server answered.
\* After a failed open() there is no page, and fd_close(fd, 0) does nothing.
Return(c) ==
    LET n == call[c].fd IN
    /\ pc[c] = "back"
    /\ IF call[c].op = "close"
       THEN /\ fds' = [fds EXCEPT ![c][n] = None]
            /\ opened' = [opened EXCEPT ![c][n] = None]
       ELSE UNCHANGED <<fds, opened>>
    /\ pc' = [pc EXCEPT ![c] = "run"]
    /\ call' = [call EXCEPT ![c] = NoCall]
    /\ UNCHANGED srvVars

-----------------------------------------------------------------------------
(* The server.                                                             *)

\* The handler is done; the value it returns is left out.
Answer(page) ==
    /\ answer' = page
    /\ srv' = "reply"

\* Mutant: pageref() == 2 counts as available.
AvailableOneUser(i) ==
    /\ \A c, d \in Clients, n, m \in Fds : fds[c][n] = i /\ fds[d][m] = i => c = d /\ n = m
    /\ \A j \in Entries : j < i => Shared(j)

\* openfile_alloc(): the first entry whose page only the server has, if any.
Available(i) ==
    /\ ~Shared(i)
    /\ \A j \in Entries : j < i => Shared(j)

NextGen(g) == (g + 1) % (2 * HalfGens)
Negative(g) == g >= HalfGens

\* Mutant: the page is not cleared.
ClearedNot(i) == [id |-> None, offset |-> fdpage[i].offset]

\* The struct Fd of entry i after the memset() of openfile_alloc().
Cleared(i) == [id |-> None, offset |-> 0]

\* openfile_alloc() took entry i and serve_open() failed: because the id is
\* negative, or because fs.c could not open or create the file.
OpenFailed(i) ==
    /\ opentab' = [opentab EXCEPT ![i].o_fileid = NextGen(@)]
    /\ fdpage' = [fdpage EXCEPT ![i] = Cleared(i)]
    /\ backed' = backed \cup {i}
    /\ Answer(None)

\* The file is open: entry, struct Fd and reply.
OpenDone(i, f) ==
    LET g == NextGen(opentab[i].o_fileid) IN
    /\ ~Negative(g)
    /\ opentab' = [opentab EXCEPT ![i] = [o_fileid |-> g, o_file |-> f]]
    /\ fdpage' = [fdpage EXCEPT ![i] = [Cleared(i) EXCEPT !.id = g]]
    /\ backed' = backed \cup {i}
    /\ Answer(i)

\* Nothing was taken: -E_MAX_OPEN, or -E_NO_MEM for an entry never used.
OpenRefused ==
    /\ \/ \A i \in Entries : Shared(i)
       \/ \E i \in Entries \ backed : Available(i)
    /\ Answer(None)
    /\ UNCHANGED <<opentab, fdpage, backed>>

serve_open ==
    /\ srv = "serve" /\ msg.req.op = "open"
    /\ \/ OpenRefused
       \/ \E i \in Entries : Available(i) /\ (OpenFailed(i) \/ OpenDone(i, msg.req.file))
    /\ UNCHANGED <<msg, clientVars>>

openfile_lookup(req) ==
    /\ Shared(req.entry)
    /\ opentab[req.entry].o_fileid = req.gen

\* serve_read(), serve_write(), serve_stat(), serve_set_size(), serve_flush():
\* after -E_INVAL, an error of fs.c or a request that moves no data the handler
\* is done; after a read or a write it goes on.
ServeFile ==
    /\ srv = "serve" /\ msg.req.op \in OnFile
    /\ \/ Answer(None)
       \/ /\ openfile_lookup(msg.req)
          /\ msg.req.op = "io" /\ fdpage[msg.req.entry].offset < MaxOffset
          /\ srv' = "advance" /\ UNCHANGED answer
    /\ UNCHANGED <<opentab, fdpage, backed, msg, clientVars>>

\* fd_offset += r, which another client that has the page may have changed.
Advance ==
    /\ srv = "advance"
    /\ fdpage' = [fdpage EXCEPT ![msg.req.entry].offset = @ + 1]
    /\ Answer(None)
    /\ UNCHANGED <<opentab, backed, msg, clientVars>>

serve_sync ==
    /\ srv = "serve" /\ msg.req.op = "sync"
    /\ Answer(None)
    /\ UNCHANGED <<opentab, fdpage, backed, msg, clientVars>>

\* Mutant: one try, and the reply is lost if the client is not there yet.
ReplyNoRetry ==
    LET c == msg.from
        n == msg.req.fd
    IN
    /\ srv = "reply"
    /\ srv' = "unmap"
    /\ pc' = IF pc[c] = "recv" THEN [pc EXCEPT ![c] = "back"] ELSE pc
    /\ IF answer = None \/ pc[c] # "recv" THEN UNCHANGED <<fds, opened>>
       ELSE /\ fds' = [fds EXCEPT ![c][n] = answer]
            /\ opened' = [opened EXCEPT ![c][n] = msg.req.file]
    /\ UNCHANGED <<opentab, fdpage, backed, msg, answer, call>>

\* ipc_send() to the client tries until it is in sys_ipc_recv(), and panics if
\* it is gone.  The page of an open file goes to the descriptor of the call.
Reply ==
    LET c == msg.from
        n == msg.req.fd
    IN
    /\ srv = "reply"
    /\ pc[c] \in {"recv", "none"}
    /\ IF pc[c] = "none"
       THEN srv' = "panicked" /\ UNCHANGED <<pc, fds, opened>>
       ELSE /\ srv' = "unmap"
            /\ pc' = [pc EXCEPT ![c] = "back"]
            /\ IF answer = None THEN UNCHANGED <<fds, opened>>
               ELSE /\ fds' = [fds EXCEPT ![c][n] = answer]
                    /\ opened' = [opened EXCEPT ![c][n] = msg.req.file]
    /\ UNCHANGED <<opentab, fdpage, backed, msg, answer, call>>

NoMsg == [from |-> None, req |-> NoCall]

\* The request page is unmapped, and the server waits for the next request.
serve ==
    /\ srv = "unmap"
    /\ srv' = "recv"
    /\ msg' = NoMsg
    /\ answer' = None
    /\ UNCHANGED <<opentab, fdpage, backed, clientVars>>

-----------------------------------------------------------------------------

\* serve_init(), and clients without open files.
Init ==
    /\ opentab = [i \in Entries |-> [o_fileid |-> 0, o_file |-> None]]
    /\ fdpage = [i \in Entries |-> [id |-> None, offset |-> 0]]
    /\ backed = {}
    /\ srv = "recv"
    /\ msg = NoMsg
    /\ answer = None
    /\ fds = [c \in Clients |-> Closed]
    /\ opened = [c \in Clients |-> Closed]
    /\ pc = [c \in Clients |-> IF c \in Boot THEN "run" ELSE "none"]
    /\ call = [c \in Clients |-> NoCall]

ClientCall(c) ==
    \/ \E f \in Files : open(c, f)
    \/ \E n \in Fds, op \in OnFile : FileCall(c, n, op)
    \/ sync(c)
    \/ \E n \in Fds : seek(c, n)
    \/ \E n, m \in Fds : dup(c, n, m)
    \/ \E d \in Clients : fork(c, d)
    \/ env_free(c)

Fsipc(c) == ipc_send(c) \/ ipc_recv(c) \/ Return(c)

Server == serve_open \/ ServeFile \/ Advance \/ serve_sync \/ Reply \/ serve

Next ==
    \/ \E c \in Clients : ClientCall(c) \/ Fsipc(c)
    \/ Server

Spec == Init /\ [][Next]_vars

\* The scheduler returns to the server and to every client that is in a call.
\* It does not promise that a client finds the server waiting when it tries.
FairSpec == Spec /\ WF_vars(Server) /\ \A c \in Clients : WF_vars(Fsipc(c))

-----------------------------------------------------------------------------
(* Properties.                                                             *)

TypeOK ==
    /\ opentab \in [Entries -> [o_fileid : Gens, o_file : Files \cup {None}]]
    /\ fdpage \in [Entries -> [id : Gens \cup {None}, offset : 0 .. MaxOffset]]
    /\ backed \subseteq Entries
    /\ srv \in {"recv", "serve", "advance", "reply", "unmap", "panicked"}
    /\ msg \in [from : Clients \cup {None}, req : Call \cup {NoCall}]
    /\ answer \in Entries \cup {None}
    /\ fds \in [Clients -> [Fds -> Entries \cup {None}]]
    /\ opened \in [Clients -> [Fds -> Files \cup {None}]]
    /\ pc \in [Clients -> {"none", "run", "send", "sent", "recv", "back"}]
    /\ call \in [Clients -> Call \cup {NoCall}]

\* The page of a descriptor is that of an entry of opentab[] that has the same
\* id and the file the client had asked for, however often entries are used
\* again and ids wrap.
FdsExact ==
    \A c \in Clients, n \in Fds :
        LET i == fds[c][n] IN
        /\ i = None <=> opened[c][n] = None
        /\ i # None => /\ i \in backed
                       /\ fdpage[i].id = opentab[i].o_fileid
                       /\ opentab[i].o_file = opened[c][n]

\* When the server serves a request that names a file, openfile_lookup()
\* succeeds and finds the file that this client had opened, although the
\* request was filled in before others were served.
RequestReaches ==
    srv \in {"serve", "advance"} /\ msg.req.op \in OnFile /\ pc[msg.from] # "none" =>
        /\ openfile_lookup(msg.req)
        /\ opentab[msg.req.entry].o_file = opened[msg.from][msg.req.fd]

\* What open() returns is a descriptor at offset 0 that nobody else has, also
\* when the page had been that of another file.
NewDescriptor ==
    \A c \in Clients :
        LET n == call[c].fd
            i == fds[c][n]
        IN
        pc[c] = "back" /\ call[c].op = "open" /\ i # None =>
            /\ fdpage[i].offset = 0
            /\ \A d \in Clients, m \in Fds : fds[d][m] = i => d = c /\ m = n

\* A request that the server has taken is answered.
Answered == \A c \in Clients : pc[c] = "sent" ~> pc[c] = "run"

\* The server outlives its clients.
ServerLives == srv # "panicked"

\* "Find an available open-file table entry": openfile_alloc() does not fail
\* when there is one.
AllocWorks ==
    srv = "serve" /\ msg.req.op = "open" =>
        \A i \in Entries : Available(i) => ~Negative(NextGen(opentab[i].o_fileid))
=============================================================================
