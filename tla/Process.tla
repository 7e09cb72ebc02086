------------------------------- MODULE Process -------------------------------
(***************************************************************************)
(* One run of the program (cmd/plane-forge-bridge and ListenAndServe of    *)
(* internal/server): it loads its configuration, listens, handles each     *)
(* request in a goroutine of its own, and on a signal closes the listener  *)
(* and waits for the handlers, but not for ever.                           *)
(*                                                                         *)
(* Time is counted in ticks.  A timeout is a bound on the ticks a stage    *)
(* may last; what it cuts short may also end earlier, for other reasons.   *)
(***************************************************************************)
EXTENDS Webhook, FiniteSets

CONSTANTS
  Requests,     \* the requests that may be sent, each over a connection of its own
  Deliveries,   \* what each of them may carry
  Starts,       \* the files, environments and senders a run may meet
  ReadTimeout,  \* ticks a connection has to send its request
  CallTimeout,  \* ticks a remote call may take
  DrainTimeout, \* ticks a shutdown waits for the handlers
  MaxCalls      \* remote calls of one handler

ASSUME DeliveriesAssumption == Deliveries \in [Requests -> SUBSET Delivery]
ASSUME StartsAssumption ==
  \A s \in Starts : s.file \in File /\ s.env \in Environment /\ s.senders \subseteq Requests
ASSUME TimesAssumption == {ReadTimeout, CallTimeout, DrainTimeout} \subseteq Nat \ {0}
ASSUME MaxCallsAssumption == MaxCalls \in Nat /\ MaxCalls >= 2

VARIABLES
  start,     \* what this run starts with
  pc,        \* where main is
  exit,      \* how the process ended
  signalled, \* SIGINT or SIGTERM came while it was listened for
  drained,   \* ticks since the shutdown began
  listener,  \* the listening socket
  errCh,     \* what the goroutine that serves has sent main
  conn       \* the connections

vars == <<start, pc, exit, signalled, drained, listener, errCh, conn>>

Codes == {"200", "202", "204", "400", "401", "413", "422", "500"}

\* `age' counts the ticks since the connection was accepted, `call' those of the
\* remote call that runs; `answer' is the status code decided on.
Connection == [at : {"out", "open", "reading", "lookup", "write", "answering",
                     "answered", "dropped", "panicked", "cut"},
               age : Nat, call : Nat, calls : 0..MaxCalls, lookup : Lookups, answer : Codes \cup {""}]

Fresh == [at |-> "out", age |-> 0, call |-> 0, calls |-> 0, lookup |-> "none", answer |-> ""]

\* Shutdown waits for these.
Alive(r) == conn[r].at \in {"open", "reading", "lookup", "write", "answering"}

Handled(r) == conn[r].at \in {"reading", "lookup", "write", "answering"}

Config == Resolved(start.file, start.env)

Init ==
  /\ start \in Starts
  /\ pc = "boot" /\ exit = "" /\ signalled = FALSE /\ drained = 0
  /\ listener = "none" /\ errCh = ""
  /\ conn = [r \in Requests |-> Fresh]
-----------------------------------------------------------------------------
(***************************************************************************)
(* main.                                                                   *)
(***************************************************************************)

\* The process ends, and with it every connection.
Exit(how) ==
  /\ pc' = "exited" /\ exit' = how
  /\ listener' = "closed"
  /\ conn' = [r \in Requests |->
       IF Handled(r) THEN [conn[r] EXCEPT !.at = "cut"]
       ELSE IF Alive(r) THEN [Fresh EXCEPT !.at = "dropped"] ELSE conn[r]]
  /\ UNCHANGED <<start, signalled, drained, errCh>>

\* run, up to the call of ListenAndServe.
Load ==
  /\ pc = "boot"
  /\ IF LoadError(start.file, start.env) # ""
       THEN Exit("error")
       ELSE /\ pc' = "up"
            /\ UNCHANGED <<start, exit, signalled, drained, listener, errCh, conn>>

\* Before signal.NotifyContext a signal ends the process; later ones cancel the
\* context, and all but the first change nothing.
Signal ==
  /\ ~signalled
  /\ \/ pc = "boot" /\ Exit("killed")
     \/ /\ pc \in {"up", "draining", "collect"}
        /\ signalled' = TRUE
        /\ UNCHANGED <<start, pc, exit, drained, listener, errCh, conn>>

Kill == pc # "exited" /\ Exit("killed")

\* select on ctx.Done(): Shutdown closes the listener first.  If the error of the
\* server is there too, select may take either.
Shutdown ==
  /\ pc = "up" /\ signalled
  /\ pc' = "draining"
  /\ listener' = IF listener = "open" THEN "closing" ELSE listener
  /\ UNCHANGED <<start, exit, signalled, drained, errCh, conn>>

\* select on errCh: the server failed, and nobody waits for the handlers.
ServerFailed ==
  /\ pc = "up" /\ errCh # ""
  /\ Exit(IF errCh = "nil" THEN "clean" ELSE "error")

\* Shutdown returns nil: no connection is left.
Drained ==
  /\ pc = "draining" /\ \A r \in Requests : ~Alive(r)
  /\ pc' = "collect"
  /\ UNCHANGED <<start, exit, signalled, drained, listener, errCh, conn>>

\* Mutant of DrainGivesUp: running out of time is not reported.
DrainGivesUpQuietly ==
  /\ pc = "draining" /\ drained = DrainTimeout
  /\ Exit("clean")

\* Shutdown returns the error of its context, and main ends the process.
DrainGivesUp ==
  /\ pc = "draining" /\ drained = DrainTimeout
  /\ Exit("error")

\* return <-errCh.
Collect ==
  /\ pc = "collect" /\ errCh # ""
  /\ Exit(IF errCh = "nil" THEN "clean" ELSE "error")

Main == Load \/ Shutdown \/ ServerFailed \/ Drained \/ DrainGivesUp \/ Collect
-----------------------------------------------------------------------------
(***************************************************************************)
(* The goroutine that serves.                                              *)
(***************************************************************************)

Sends(v) == errCh' = v

\* hs.ListenAndServe: the address may be in use; a shutdown that came first makes
\* it return ErrServerClosed, which is no error.
Listen ==
  /\ pc \in {"up", "draining", "collect"} /\ listener = "none"
  /\ \/ pc = "up" /\ listener' = "open" /\ UNCHANGED errCh
     \/ listener' = "closed" /\ Sends("err")
     \/ pc # "up" /\ listener' = "closed" /\ Sends("nil")
  /\ UNCHANGED <<start, pc, exit, signalled, drained, conn>>

\* Accept fails for good.
ServeFails ==
  /\ pc = "up" /\ listener = "open"
  /\ listener' = "closed" /\ Sends("err")
  /\ UNCHANGED <<start, pc, exit, signalled, drained, conn>>

\* Mutant of ServeEnds: only errors are sent.
ServeEndsSilently ==
  /\ listener = "closing"
  /\ listener' = "closed"
  /\ UNCHANGED <<start, pc, exit, signalled, drained, errCh, conn>>

\* The listener was closed by Shutdown.
ServeEnds ==
  /\ listener = "closing"
  /\ listener' = "closed" /\ Sends("nil")
  /\ UNCHANGED <<start, pc, exit, signalled, drained, conn>>

Serve == Listen \/ ServeFails \/ ServeEnds
-----------------------------------------------------------------------------
(***************************************************************************)
(* A request and its handler.                                              *)
(***************************************************************************)

\* The connection of r changes, and nothing else.
Becomes(r, c) ==
  /\ conn' = [conn EXCEPT ![r] = c]
  /\ UNCHANGED <<start, pc, exit, signalled, drained, listener, errCh>>

\* Mutant of Accept: connections are taken until the server has returned.
AcceptUntilClosed(r) ==
  /\ pc \in {"up", "draining"} /\ listener # "none"
  /\ r \in start.senders /\ conn[r].at = "out"
  /\ Becomes(r, [conn[r] EXCEPT !.at = "open"])

Accept(r) ==
  /\ listener = "open"
  /\ r \in start.senders /\ conn[r].at = "out"
  /\ Becomes(r, [conn[r] EXCEPT !.at = "open"])

\* The sender leaves, takes too long over the header, or Shutdown closes the
\* connection since it was not used so far.
Drop(r) ==
  /\ conn[r].at = "open"
  /\ Becomes(r, [Fresh EXCEPT !.at = "dropped"])

HeaderRead(r) ==
  /\ conn[r].at = "open"
  /\ Becomes(r, [conn[r] EXCEPT !.at = "reading"])

\* The first remote call of a handler starts.
Calling(c, lookup) ==
  [c EXCEPT !.at = IF lookup = "none" THEN "write" ELSE "lookup",
            !.lookup = lookup, !.calls = 1, !.call = 0]

Answering(c, code) == [c EXCEPT !.at = "answering", !.answer = code, !.call = 0]

\* The rest of the request is read, or its reading fails or takes too long.
Handle(r) ==
  /\ conn[r].at = "reading"
  /\ \E d \in Deliveries[r] :
       LET verdict == Verdict(Config, d)
       IN Becomes(r, CASE verdict = "panic" -> [conn[r] EXCEPT !.at = "panicked"]
                       [] verdict = "calls" -> Calling(conn[r], LookupOf(d))
                       [] OTHER -> Answering(conn[r], verdict))

Replies == {"object", "empty", "missing", "refused", "oversized", "undecodable", "none"}

\* The clients' do: no response in time, a status that is no success, a body too
\* long or not decodable are errors; an empty body leaves the result zero.
Do(reply) ==
  CASE reply = "object" -> "value"
    [] reply = "empty" -> "zero"
    [] reply = "missing" -> "404"
    [] OTHER -> "error"

\* What the look-ups make of it: one by reference or sequence number takes a zero
\* result for none; the parent of a comment must be there, and a zero one mirrors
\* nothing.
Found(lookup, result) ==
  CASE result = "value" -> "found"
    [] result = "zero" -> "absent"
    [] result = "404" /\ lookup # "parent" -> "absent"
    [] OTHER -> "failed"

\* The look-up returns.  A found parent may mirror nothing.
LookupReturns(r) ==
  /\ conn[r].at = "lookup"
  /\ \E reply \in Replies :
       LET c == conn[r]
           found == Found(c.lookup, Do(reply))
           Write == [c EXCEPT !.at = "write", !.calls = @ + 1, !.call = 0]
       IN \/ found = "found" /\ Becomes(r, Write)
          \/ found = "found" /\ c.lookup = "parent" /\ Becomes(r, Answering(c, "202"))
          \/ found = "absent" /\ c.lookup = "ref_or_create" /\ Becomes(r, Write)
          \/ found = "absent" /\ c.lookup # "ref_or_create" /\ Becomes(r, Answering(c, "202"))
          \/ found = "failed" /\ Becomes(r, Answering(c, "500"))

\* A resolver's call, or the write, returns.  Whatever a resolver's call came to, the
\* handler may go on: that of accounts passes its failures over.  Those of states and
\* labels do not, and what they do not find may be an error as well.
WriteReturns(r) ==
  /\ conn[r].at = "write"
  /\ \E reply \in Replies :
       LET c == conn[r]
       IN \/ c.calls < MaxCalls /\ Becomes(r, [c EXCEPT !.calls = @ + 1, !.call = 0])
          \/ Do(reply) \in {"value", "zero"} /\ Becomes(r, Answering(c, "202"))
          \/ Becomes(r, Answering(c, "500"))

Respond(r) ==
  /\ conn[r].at = "answering"
  /\ Becomes(r, [conn[r] EXCEPT !.at = "answered", !.age = 0, !.lookup = "none"])

Handler(r) ==
  Drop(r) \/ HeaderRead(r) \/ Handle(r) \/ LookupReturns(r) \/ WriteReturns(r) \/ Respond(r)

\* No stage outlasts its timeout.  Ages are not told apart beyond all timeouts.
Tick ==
  /\ pc # "exited"
  /\ pc = "draining" => drained < DrainTimeout
  /\ \A r \in Requests :
       /\ conn[r].at \in {"open", "reading"} => conn[r].age < ReadTimeout
       /\ conn[r].at \in {"lookup", "write"} => conn[r].call < CallTimeout
  /\ drained' = IF pc = "draining" THEN drained + 1 ELSE drained
  /\ conn' = [r \in Requests |->
       IF ~Alive(r) THEN conn[r]
       ELSE [conn[r] EXCEPT !.age = IF @ < ReadTimeout \/ @ < DrainTimeout THEN @ + 1 ELSE @,
                            !.call = IF conn[r].at \in {"lookup", "write"} THEN @ + 1 ELSE @]]
  /\ UNCHANGED <<start, pc, exit, signalled, listener, errCh>>

\* The process is gone.
Gone == pc = "exited" /\ UNCHANGED vars

Next ==
  \/ Main \/ Serve \/ Signal \/ Kill \/ Tick \/ Gone
  \/ \E r \in Requests : Accept(r) \/ Handler(r)

Spec == Init /\ [][Next]_vars

\* Goroutines run, and timers go off.  Nobody has to send a signal or a request.
Fairness ==
  /\ WF_vars(Main) /\ WF_vars(Listen \/ ServeEnds)
  /\ WF_vars(\E r \in Requests : Handler(r)) /\ WF_vars(Tick)

FairSpec == Spec /\ Fairness
-----------------------------------------------------------------------------
TypeOK ==
  /\ start \in Starts
  /\ pc \in {"boot", "up", "draining", "collect", "exited"}
  /\ exit \in {"", "clean", "error", "killed"}
  /\ signalled \in BOOLEAN /\ drained \in 0..DrainTimeout
  /\ listener \in {"none", "open", "closing", "closed"} /\ errCh \in {"", "nil", "err"}
  /\ conn \in [Requests -> Connection]
  /\ \A r \in Requests :
       /\ conn[r].at = "lookup" => conn[r].lookup # "none"
       /\ conn[r].at \in {"answering", "answered"} => conn[r].answer \in Codes
  /\ (exit = "") = (pc # "exited")

\* A process that reports success was told to stop, and no request it had begun to
\* handle was cut off: exit status 0 means there is nothing to send again
\* (run, ListenAndServe).
CleanExit ==
  exit = "clean" => signalled /\ \A r \in Requests : conn[r].at # "cut"

\* A shutdown by a signal cuts a request off only if it was connected for the whole
\* of the grace period: none is accepted once it began (Shutdown's time limit
\* against the handlers' own).
CutOffsAreOld ==
  exit = "error" /\ errCh # "err" =>
    \A r \in Requests : conn[r].at = "cut" => conn[r].age >= DrainTimeout

\* A 500, which has the sender send the delivery again, is only given once a remote
\* call was made: what the bytes and the configuration decide alone would be decided
\* the same way again, and is answered for good (respondTranslatorErr).
DecidedForGood ==
  \A r \in Requests : conn[r].answer = "500" => conn[r].calls > 0

\* No delivery, whatever it lacks, makes a handler read an object that is not there.
NeverPanics == \A r \in Requests : conn[r].at # "panicked"

\* Whatever the file and the environment, what serves requests has every secret,
\* addresses that are absolute, repositories and projects of the right form and a
\* loop-break cache that holds something.
ServedSound ==
  pc \in {"up", "draining", "collect"} =>
    /\ \A s \in SecretNames \cup Formed : Config.settings[s] = "good"
    /\ \A k \in DOMAIN Config.links : /\ Config.links[k].repo = "good"
                                      /\ Config.links[k].project = "good"
                                      /\ Config.links[k].identifier # "bad"
    /\ Config.capacity >= 1

\* A process told to stop stops, whatever its handlers and the services do.
Stops == signalled ~> pc = "exited"
=============================================================================
