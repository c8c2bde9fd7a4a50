----------------------------- MODULE Standalone -----------------------------
(***************************************************************************)
(* internal/standalone with the life of the administrative server          *)
(* (internal/adminipc): RunWithConfig opens the store, serves the socket   *)
(* until its context is cancelled, drains accepted work and closes the     *)
(* store.                                                                  *)
(*                                                                         *)
(* The goroutines are RunWithConfig (main), the cancellation callback that *)
(* Serve registers (closer), one per connection, and those that do admitted *)
(* work.  What a connection asks for is in module Admin.                   *)
(***************************************************************************)
EXTENDS Naturals, FiniteSets

CONSTANTS
  Clients,   \* administrative connections
  Workers    \* units of admitted work

VARIABLES
  path,      \* what the socket path names
  swapped,   \* history: when somebody else last changed what it names
  main,      \* where RunWithConfig is
  accepted,  \* the connection that AcceptUnix returned last
  closer,    \* the cancellation callback
  cancelled, \* the context is cancelled
  server,    \* adminipc.Server: listener, installed, close, closing
  conns,     \* [Clients -> the state of a connection]
  service,   \* Service: accepting, active, drained (closes of the channel)
  work,      \* [Workers -> the state of a unit of work]
  store,     \* the daemon-owned store
  result     \* what RunWithConfig returns

vars == <<path, swapped, main, accepted, closer, cancelled, server, conns, service, work, store,
          result>>
serving == <<path, swapped, accepted, closer, server, conns>>
working == <<service, work>>

\* The daemon's own socket is at the path, also with a mode or an owner that
\* verifyDaemonSocket refuses ("loose"); one left by an earlier process; or an
\* object of another program.
Paths == {"none", "own", "loose", "left", "other"}

Mains == {"off", "open", "begin", "listen", "verify", "install", "disown", "accept", "check",
          "track", "close", "closing", "wait", "drain", "draining", "closeStore", "done"}

\* Server: the listener, the object that socketInfo describes, whether
\* installListener recorded both, how far Close is, what it collected under the
\* mutex, and whether os.Remove has failed.
Server == [listener : {"none", "open", "closed"}, info : {"none", "own", "other"},
           installed : BOOLEAN, close : {"no", "begun", "cut", "checked", "done"},
           collected : SUBSET Clients, owned : BOOLEAN, removeErr : BOOLEAN]

NewServer == [listener |-> "none", info |-> "none", installed |-> FALSE, close |-> "no",
              collected |-> {}, owned |-> FALSE, removeErr |-> FALSE]

NewService == [accepting |-> FALSE, active |-> 0, drained |-> 0]

None == "none"

\* The process is not running; whatever lies at the path, it did not make.
Stopped ==
  /\ main' = "off"
  /\ accepted' = None
  /\ closer' = "none"
  /\ cancelled' = FALSE
  /\ server' = NewServer
  /\ conns' = [c \in Clients |-> "none"]
  /\ service' = NewService
  /\ work' = [w \in Workers |-> "none"]
  /\ store' = "closed"
  /\ result' = "none"
  /\ path' = IF path \in {"own", "loose"} THEN "left" ELSE path
  /\ swapped' = "outside"

Init ==
  /\ path \in {"none", "other"}
  /\ swapped = "outside"
  /\ main = "off"
  /\ accepted = None
  /\ closer = "none"
  /\ cancelled = FALSE
  /\ server = NewServer
  /\ conns = [c \in Clients |-> "none"]
  /\ service = NewService
  /\ work = [w \in Workers |-> "none"]
  /\ store = "closed"
  /\ result = "none"

Fails(answer) == result' = IF result = "none" THEN answer ELSE result

-----------------------------------------------------------------------------
(* Start                                                                   *)

\* store.Open and the registries; an error of either ends RunWithConfig.
Open ==
  /\ main = "off"
  /\ \/ main' = "open" /\ store' = "open" /\ UNCHANGED result
     \/ main' = "done" /\ result' = "error" /\ UNCHANGED store
  /\ UNCHANGED <<serving, cancelled, working>>

\* Service.start.
Start ==
  /\ main = "open"
  /\ main' = "begin"
  /\ service' = [service EXCEPT !.accepting = TRUE]
  /\ UNCHANGED <<serving, cancelled, work, store, result>>

\* Server.begin, and context.AfterFunc, which runs at once if the context is
\* already cancelled.
Begin ==
  /\ main = "begin"
  /\ main' = "listen"
  /\ closer' = IF cancelled THEN "run" ELSE "armed"
  /\ UNCHANGED <<path, swapped, accepted, server, conns, cancelled, working, store, result>>

\* listenSocket up to ListenUnix.
Listen ==
  /\ main = "listen"
  /\ IF path # "none"
     THEN /\ main' = "close"
          /\ Fails("error")
          /\ UNCHANGED <<path, server>>
     ELSE /\ main' = "verify"
          /\ path' = "own"
          /\ server' = [server EXCEPT !.listener = "open"]
          /\ UNCHANGED result
  /\ UNCHANGED <<swapped, accepted, closer, conns, cancelled, working, store>>

\* The rest of listenSocket: Chmod, Chown and Lstat of the path.  When one fails
\* the listener is closed and the socket stays where it is; otherwise socketInfo
\* describes what is at the path by then.
Verify ==
  /\ main = "verify"
  /\ \/ /\ path # "none"
        /\ main' = "install"
        /\ path' = IF path = "loose" THEN "own" ELSE path
        /\ server' = [server EXCEPT !.info = path']
        /\ UNCHANGED result
     \/ /\ main' = "close"
        /\ server' = [server EXCEPT !.listener = "closed"]
        /\ Fails("insecure")
        /\ UNCHANGED path
  /\ UNCHANGED <<swapped, accepted, closer, conns, cancelled, working, store>>

\* currentSocket: the path names the object of socketInfo, with its mode and owner.
Current == path = server.info

\* Mutant: a server that was closed in the meantime keeps its listener.
InstallUnchecked ==
  /\ main = "install"
  /\ main' = "accept"
  /\ server' = [server EXCEPT !.installed = TRUE]
  /\ UNCHANGED <<path, swapped, accepted, closer, conns, cancelled, working, store, result>>

\* installListener; a server that was closed in the meantime gives the socket up,
\* and removeOwnedSocket looks at the path.
Install ==
  /\ main = "install"
  /\ IF server.close # "no"
     THEN /\ main' = IF Current THEN "disown" ELSE "drain"
          /\ server' = [server EXCEPT !.listener = "closed"]
     ELSE /\ main' = "accept"
          /\ server' = [server EXCEPT !.installed = TRUE]
  /\ UNCHANGED <<path, swapped, accepted, closer, conns, cancelled, working, store, result>>

\* os.Remove takes away whatever is at the path by then, or fails.
RemovePath(s) ==
  \/ path # "none" /\ path' = "none" /\ server' = s
  \/ path' = path /\ server' = [s EXCEPT !.removeErr = TRUE]

\* The rest of removeOwnedSocket, whose error Serve returns.
Disown ==
  /\ main = "disown"
  /\ main' = "drain"
  /\ RemovePath(server)
  /\ IF server'.removeErr THEN Fails("error") ELSE UNCHANGED result
  /\ UNCHANGED <<swapped, accepted, closer, conns, cancelled, working, store>>

-----------------------------------------------------------------------------
(* Accepting                                                               *)

Accept(c) ==
  /\ main = "accept"
  /\ server.listener = "open"
  /\ conns[c] = "queued"
  /\ main' = "check"
  /\ accepted' = c
  /\ conns' = [conns EXCEPT ![c] = "accepted"]
  /\ UNCHANGED <<path, swapped, closer, server, cancelled, working, store, result>>

\* AcceptUnix returns because Close has closed the listener.
AcceptClosed ==
  /\ main = "accept"
  /\ server.listener = "closed"
  /\ main' = "close"
  /\ UNCHANGED <<serving, cancelled, working, store, result>>

\* AcceptUnix fails for another reason.
AcceptError ==
  /\ main = "accept"
  /\ server.listener = "open"
  /\ main' = "close"
  /\ IF server.close # "no" \/ cancelled THEN UNCHANGED result ELSE Fails("error")
  /\ UNCHANGED <<serving, cancelled, working, store>>

\* socketIsCurrent; a socket that was replaced ends Serve.
Check ==
  /\ main = "check"
  /\ IF Current
     THEN main' = "track" /\ UNCHANGED <<accepted, conns, result>>
     ELSE /\ main' = "close"
          /\ accepted' = None
          /\ conns' = [conns EXCEPT ![accepted] = "none"]
          /\ Fails("error")
  /\ UNCHANGED <<path, swapped, closer, server, cancelled, working, store>>

\* trackConnection, and the goroutine of the connection.
Track ==
  /\ main = "track"
  /\ main' = IF server.close = "no" THEN "accept" ELSE "close"
  /\ accepted' = None
  /\ conns' = [conns EXCEPT ![accepted] = IF server.close = "no" THEN "tracked" ELSE "none"]
  /\ UNCHANGED <<path, swapped, closer, server, cancelled, working, store, result>>

\* serveConnection ends: the request is answered, its deadline has passed or its
\* connection was closed.
Served(c) ==
  /\ conns[c] \in {"tracked", "cut"}
  /\ conns' = [conns EXCEPT ![c] = "none"]
  /\ UNCHANGED <<path, swapped, main, accepted, closer, server, cancelled, working, store, result>>

-----------------------------------------------------------------------------
(* Close, by main or by the cancellation callback                          *)

\* The first caller collects, under the mutex, what it will close.
CloseBegun(s) ==
  [s EXCEPT !.close = "begun", !.collected = {c \in Clients : conns[c] = "tracked"},
            !.owned = s.installed]

CloseByMain ==
  /\ main = "close"
  /\ main' = "closing"
  /\ server' = IF server.close = "no" THEN CloseBegun(server) ELSE server
  /\ UNCHANGED <<path, swapped, accepted, closer, conns, cancelled, working, store, result>>

CloseByCallback ==
  /\ closer = "run"
  /\ closer' = "closing"
  /\ server' = IF server.close = "no" THEN CloseBegun(server) ELSE server
  /\ UNCHANGED <<path, swapped, main, accepted, conns, cancelled, working, store, result>>

\* The first caller closes the listener and the connections it collected.
CloseCut ==
  /\ server.close = "begun"
  /\ server' = [server EXCEPT !.close = "cut", !.listener = IF server.owned THEN "closed" ELSE @]
  /\ conns' = [c \in Clients |->
       IF conns[c] = "tracked" /\ c \in server.collected THEN "cut"
       ELSE IF conns[c] = "queued" /\ server.owned THEN "none" ELSE conns[c]]
  /\ UNCHANGED <<path, swapped, main, accepted, closer, cancelled, working, store, result>>

\* Mutant: the path is removed whatever it names.
CloseCheckAny ==
  /\ server.close = "cut"
  /\ server' = [server EXCEPT !.close = IF server.owned THEN "checked" ELSE "done"]
  /\ UNCHANGED <<path, swapped, main, accepted, closer, conns, cancelled, working, store, result>>

\* removeOwnedSocket looks at the path; one that is not current stays, and is no error.
CloseCheck ==
  /\ server.close = "cut"
  /\ server' = [server EXCEPT !.close = IF server.owned /\ Current THEN "checked" ELSE "done"]
  /\ UNCHANGED <<path, swapped, main, accepted, closer, conns, cancelled, working, store, result>>

\* os.Remove, and the end of the first Close.
CloseRemove ==
  /\ server.close = "checked"
  /\ RemovePath([server EXCEPT !.close = "done"])
  /\ UNCHANGED <<swapped, main, accepted, closer, conns, cancelled, working, store, result>>

\* Mutant: a second caller of Close does not wait for the first.
CloseReturnsEarly ==
  /\ main = "closing"
  /\ main' = "wait"
  /\ UNCHANGED <<serving, cancelled, working, store, result>>

\* Mutant: Serve drops the error of Close.
CloseReturnsNil ==
  /\ main = "closing"
  /\ server.close = "done"
  /\ main' = "wait"
  /\ UNCHANGED <<serving, cancelled, working, store, result>>

\* Close returns to Serve, to a second caller after the first, with closeErr.
CloseReturns ==
  /\ main = "closing"
  /\ server.close = "done"
  /\ main' = "wait"
  /\ IF server.removeErr THEN Fails("error") ELSE UNCHANGED result
  /\ UNCHANGED <<serving, cancelled, working, store>>

CallbackReturns ==
  /\ closer = "closing"
  /\ server.close = "done"
  /\ closer' = "returned"
  /\ UNCHANGED <<path, swapped, main, accepted, server, conns, cancelled, working, store, result>>

\* Mutant: Serve returns while connections are served.
WaitNot ==
  /\ main = "wait"
  /\ main' = "drain"
  /\ closer' = IF closer = "armed" THEN "none" ELSE closer
  /\ UNCHANGED <<path, swapped, accepted, server, conns, cancelled, working, store, result>>

\* workers.Wait, and Serve returns; its deferred stopClose disarms the callback.
Wait ==
  /\ main = "wait"
  /\ \A c \in Clients : conns[c] \notin {"tracked", "cut"}
  /\ main' = "drain"
  /\ closer' = IF closer = "armed" THEN "none" ELSE closer
  /\ UNCHANGED <<path, swapped, accepted, server, conns, cancelled, working, store, result>>

-----------------------------------------------------------------------------
(* Admitted work and the end                                               *)

BeginWork(w) ==
  /\ work[w] = "none"
  /\ service.accepting
  /\ work' = [work EXCEPT ![w] = "active"]
  /\ service' = [service EXCEPT !.active = @ + 1]
  /\ UNCHANGED <<serving, main, cancelled, store, result>>

\* Service.completeWork.
CompleteWork(s) ==
  [s EXCEPT !.active = @ - 1,
            !.drained = IF ~s.accepting /\ s.active = 1 THEN @ + 1 ELSE @]

\* Mutant: a completion function that is called twice counts twice.
CompleteTwice(w) ==
  /\ work[w] \in {"active", "complete"}
  /\ service.active > 0
  /\ work' = [work EXCEPT ![w] = "complete"]
  /\ service' = CompleteWork(service)
  /\ UNCHANGED <<serving, main, cancelled, store, result>>

\* The completion function; it may be called again, without effect.
Complete(w) ==
  /\ work[w] = "active"
  /\ work' = [work EXCEPT ![w] = "complete"]
  /\ service' = CompleteWork(service)
  /\ UNCHANGED <<serving, main, cancelled, store, result>>

\* Mutant: the channel is closed whether or not work is active.
StopAcceptingHasty ==
  /\ main = "drain"
  /\ main' = "draining"
  /\ service' = [service EXCEPT !.accepting = FALSE, !.drained = @ + 1]
  /\ UNCHANGED <<serving, cancelled, work, store, result>>

StopAccepting ==
  /\ main = "drain"
  /\ main' = "draining"
  /\ service' = [service EXCEPT !.accepting = FALSE,
                                !.drained = IF service.active = 0 THEN @ + 1 ELSE @]
  /\ UNCHANGED <<serving, cancelled, work, store, result>>

Drained ==
  /\ main = "draining"
  /\ service.drained > 0
  /\ main' = "closeStore"
  /\ Fails("nil")
  /\ UNCHANGED <<serving, cancelled, working, store>>

\* The shutdown timeout passes.
DrainTimeout ==
  /\ main = "draining"
  /\ main' = "closeStore"
  /\ Fails("timeout")
  /\ UNCHANGED <<serving, cancelled, working, store>>

CloseStore ==
  /\ main = "closeStore"
  /\ main' = "done"
  /\ store' = "closed"
  /\ UNCHANGED <<serving, cancelled, working, result>>

-----------------------------------------------------------------------------
(* The environment                                                         *)

\* The signal handler cancels the context.
Cancel ==
  /\ main \notin {"off", "done"}
  /\ ~cancelled
  /\ cancelled' = TRUE
  /\ closer' = IF closer = "armed" THEN "run" ELSE closer
  /\ UNCHANGED <<path, swapped, main, accepted, server, conns, working, store, result>>

Connect(c) ==
  /\ conns[c] = "none"
  /\ path \in {"own", "loose"} /\ server.listener = "open"
  /\ conns' = [conns EXCEPT ![c] = "queued"]
  /\ UNCHANGED <<path, swapped, main, accepted, closer, server, cancelled, working, store, result>>

\* The path is between ListenUnix and the Lstat of listenSocket, or between the
\* Lstat and the os.Remove of removeOwnedSocket.
Window == main \in {"verify", "disown"} \/ server.close = "checked"

\* Another program takes the daemon's socket away, puts something else at the path,
\* or changes the socket's mode or owner.
Replace ==
  /\ path \in {"own", "loose"}
  /\ path' \in {"none", "loose", "other"} \ {path}
  /\ swapped' = IF Window THEN "inside" ELSE "outside"
  /\ UNCHANGED <<main, accepted, closer, server, conns, cancelled, working, store, result>>

\* An operator removes what is at the path of a stopped daemon.
Clean ==
  /\ main = "off"
  /\ path # "none"
  /\ path' = "none"
  /\ UNCHANGED <<swapped, main, accepted, closer, server, conns, cancelled, working, store, result>>

\* The process ends, after RunWithConfig or in the middle of it.
Exit ==
  /\ main # "off"
  /\ Stopped

Main ==
  \/ Start \/ Begin \/ Listen \/ Verify \/ Install \/ Disown
  \/ AcceptClosed \/ Check \/ Track
  \/ CloseByMain \/ CloseReturns \/ Wait
  \/ StopAccepting \/ Drained \/ DrainTimeout \/ CloseStore

Callback == CloseByCallback \/ CallbackReturns

Closing == CloseCut \/ CloseCheck \/ CloseRemove

Next ==
  \/ Open \/ Main \/ Callback \/ Closing
  \/ AcceptError
  \/ \E c \in Clients : Connect(c) \/ Accept(c) \/ Served(c)
  \/ \E w \in Workers : BeginWork(w) \/ Complete(w)
  \/ Cancel \/ Replace \/ Clean \/ Exit

Spec == Init /\ [][Next]_vars

-----------------------------------------------------------------------------
(* Properties                                                              *)

\* Type invariant.  Service.active counts the units of work that are active, and
\* the channel drained is closed once at most: a second close would panic.
TypeOK ==
  /\ path \in Paths
  /\ swapped \in {"inside", "outside"}
  /\ main \in Mains
  /\ accepted \in Clients \cup {None}
  /\ closer \in {"none", "armed", "run", "closing", "returned"}
  /\ cancelled \in BOOLEAN
  /\ server \in Server
  /\ conns \in [Clients -> {"none", "queued", "accepted", "tracked", "cut"}]
  /\ service \in [accepting : BOOLEAN, active : 0..Cardinality(Workers), drained : 0..1]
  /\ work \in [Workers -> {"none", "active", "complete"}]
  /\ service.active = Cardinality({w \in Workers : work[w] = "active"})
  /\ store \in {"open", "closed"}
  /\ result \in {"none", "nil", "error", "insecure", "timeout"}

\* The store stays open while any connection is served: RunWithConfig closes it
\* after Serve, and Serve returns after its workers.
StoreOutlivesRequests ==
  (\E c \in Clients : conns[c] \in {"tracked", "cut"}) => store = "open"

\* RunWithConfig returns nil only when no admitted work is left, none can be
\* admitted, and no listener is open.
NilMeansDrained ==
  result = "nil" =>
    /\ \A w \in Workers : work[w] # "active"
    /\ ~service.accepting
    /\ server.listener # "open"

\* A RunWithConfig that has returned left no socket of its own behind, so that
\* the next start is not refused (operations.md asks to see that admin.sock is
\* gone): listenSocket leaves one when it cannot protect it, and Close when os.Remove
\* fails, and then the result is an error.  A socket whose mode or owner was changed
\* stays, also with the result nil.
SocketReleased ==
  main = "done" =>
    /\ path = "own" => result = "insecure" \/ server.removeErr
    /\ server.removeErr => result # "nil"

\* "startup refused to replace any existing filesystem object", and Close
\* "removes the socket only when the current path still names the daemon-created
\* socket": what the daemon did not create, or left behind in an earlier life,
\* disappears only when an operator removes it, or when it came to the path between
\* a check and the use of what was checked (Window).
ForeignPathKept ==
  [][path' # path /\ path \in {"left", "other"} =>
       Clean \/ (path = "other" /\ swapped = "inside")]_vars

\* Once its context is cancelled RunWithConfig returns, whatever clients and
\* admitted work do.
ShutdownEnds == cancelled ~> main \in {"done", "off"}
=============================================================================
