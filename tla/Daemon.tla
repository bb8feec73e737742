------------------------------- MODULE Daemon -------------------------------
(***************************************************************************)
(* yeomnad: a listener, one task per connection, one session per           *)
(* connection (yeomna-daemon/src/server.rs, main.rs), and in the session   *)
(* the path a verb takes through execute.rs: the lock, the retirement      *)
(* check, the audit row, the dispatch, the refusals of the database verbs  *)
(* (database.rs, sql.rs), for database.create and database.drop the        *)
(* escalation of as_provision, and for sql a connection of its own.        *)
(*                                                                         *)
(* A statement is one action.  It fails when the link to the store is      *)
(* broken, and may fail alone.  What a verb reads or writes is left to the *)
(* other modules; here a verb is plain, or provisions, or is no verb.      *)
(***************************************************************************)
EXTENDS Integers, FiniteSets

CONSTANTS
  Clients,    \* peers of the socket, one connection each
  MaxCalls,   \* bound: frames read in all
  MaxFaults,  \* bound: statements, stores and daemons that fail
  Drops       \* BOOLEAN: may a caller drop a call it awaits (the daemon never does)

ASSUME DaemonAssumption ==
  /\ MaxCalls \in Nat /\ MaxFaults \in Nat /\ Drops \in BOOLEAN

VARIABLES
  daemon,   \* "serving" or "stopped"
  socket,   \* the socket file: is one there
  store,    \* "up" or "down"
  at,       \* per client, where its connection is
  session,  \* per client, its session with the store
  asked,    \* frames read so far
  faults    \* failures so far

daemonVars == <<daemon, socket, store, at, session, asked, faults>>

-----------------------------------------------------------------------------
\* In a call: begin, a plain verb or one of databases, mark, reply.
InCall == {"begin", "plain", "footing", "template", "elsewhere", "set", "sql", "reset", "mark", "reply"}
Places == {"away", "new", "idle", "closed"} \cup InCall
Frames == {"verb", "not a verb"}
Verbs == {"plain", "create", "drop", "sql"}

\* link: none when the store did not answer at accept.  escalated is the
\* session's flag, role what the store runs its statements as.  unproven is
\* history: an escalation was left with no reset to show for it.
NoSession ==
  [link |-> "none", escalated |-> FALSE, role |-> "app", unproven |-> FALSE]

Goes(c, to) == at' = [at EXCEPT ![c] = to]
Keeps == UNCHANGED <<daemon, socket, store, asked>>

\* The statement of c is answered; or refused, because the link is gone or at
\* the price of a fault.
Succeeds(c) == session[c].link = "up" /\ UNCHANGED faults
Fails(c) ==
  IF session[c].link = "up"
  THEN faults < MaxFaults /\ faults' = faults + 1
  ELSE UNCHANGED faults

-----------------------------------------------------------------------------
(* The listener                                                            *)

Accept(c) ==
  /\ daemon = "serving" /\ at[c] = "away"
  /\ Goes(c, "new")
  /\ UNCHANGED <<session, faults>> /\ Keeps

\* A peer the machine cannot name is declined.
Decline(c) ==
  /\ at[c] = "new"
  /\ Goes(c, "closed")
  /\ UNCHANGED <<session, faults>> /\ Keeps

\* The store may be down: the connection is served all the same.
Open(c) ==
  /\ at[c] = "new"
  /\ Goes(c, "idle")
  /\ session' = [session EXCEPT ![c] =
       [NoSession EXCEPT !.link = IF store = "up" THEN "up" ELSE "none"]]
  /\ UNCHANGED faults /\ Keeps

\* TERM, INT, or an accept that fails: serve returns, main removes the socket
\* and exits, and every connection goes with the process.
Stop ==
  /\ daemon = "serving" /\ faults < MaxFaults
  /\ faults' = faults + 1
  /\ daemon' = "stopped" /\ socket' = FALSE
  /\ at' = [c \in Clients |-> IF at[c] = "away" THEN "away" ELSE "closed"]
  /\ session' = [c \in Clients |-> NoSession]
  /\ UNCHANGED <<store, asked>>

\* A crash leaves the socket file behind.
Crash ==
  /\ daemon = "serving" /\ faults < MaxFaults
  /\ faults' = faults + 1
  /\ daemon' = "stopped"
  /\ at' = [c \in Clients |-> IF at[c] = "away" THEN "away" ELSE "closed"]
  /\ session' = [c \in Clients |-> NoSession]
  /\ UNCHANGED <<socket, store, asked>>

\* bind replaces a stale socket rather than refuse it.
Start ==
  /\ daemon = "stopped"
  /\ daemon' = "serving" /\ socket' = TRUE
  /\ UNCHANGED <<store, at, session, asked, faults>>

Come(c) ==
  /\ at[c] = "closed"
  /\ Goes(c, "away")
  /\ UNCHANGED <<session, faults>> /\ Keeps

StoreStops ==
  /\ store = "up" /\ faults < MaxFaults
  /\ faults' = faults + 1
  /\ store' = "down"
  /\ session' = [c \in Clients |->
       IF session[c].link = "up" THEN [session[c] EXCEPT !.link = "broken"] ELSE session[c]]
  /\ UNCHANGED <<daemon, socket, at, asked>>

StoreStarts ==
  /\ store = "down" /\ store' = "up"
  /\ UNCHANGED <<daemon, socket, at, session, asked, faults>>

-----------------------------------------------------------------------------
(* A connection                                                            *)

\* A whole frame within the limit; with no session, or no verb in it, the
\* envelope is an error at once.
ReadFrame(c, f) ==
  /\ at[c] = "idle" /\ asked < MaxCalls
  /\ asked' = asked + 1
  /\ Goes(c, IF f = "not a verb" \/ session[c].link = "none" THEN "reply" ELSE "begin")
  /\ UNCHANGED <<daemon, socket, store, session, faults>>

\* The peer closed, or its frame is short or too large: the session goes too.
Hangup(c) ==
  /\ at[c] = "idle"
  /\ Goes(c, "closed")
  /\ session' = [session EXCEPT ![c] = NoSession]
  /\ UNCHANGED faults /\ Keeps

WriteFrame(c) ==
  /\ at[c] = "reply"
  /\ Goes(c, "idle")
  /\ UNCHANGED <<session, faults>> /\ Keeps

WriteFrameFails(c) ==
  /\ at[c] = "reply" /\ faults < MaxFaults
  /\ faults' = faults + 1
  /\ Goes(c, "closed")
  /\ session' = [session EXCEPT ![c] = NoSession]
  /\ Keeps

-----------------------------------------------------------------------------
(* Session.call                                                            *)

\* Mutant: a retired session waits for the reset nobody will send.
RetiredWaits(c) ==
  /\ at[c] = "begin" /\ session[c].escalated
  /\ UNCHANGED <<at, session, faults>> /\ Keeps

\* A session whose last escalation never proved its reset is retired.
Retired(c) ==
  /\ at[c] = "begin" /\ session[c].escalated
  /\ Goes(c, "reply")
  /\ UNCHANGED <<session, faults>> /\ Keeps

\* Where dispatch takes a verb: to its first statement, or past it when the
\* name is no database's or force is missing.
Reaches(verb) ==
  CASE verb = "plain" -> {"plain"}
    [] verb = "create" -> {"set", "mark"}
    [] OTHER -> {"footing", "mark"}

\* audit::begin: an attempt that cannot be recorded is not made.
Record(c) ==
  /\ at[c] = "begin" /\ ~session[c].escalated
  /\ \/ Succeeds(c) /\ \E verb \in Verbs : \E to \in Reaches(verb) : Goes(c, to)
     \/ Fails(c) /\ Goes(c, "reply")
  /\ UNCHANGED session /\ Keeps

Plain(c) ==
  /\ at[c] = "plain"
  /\ Succeeds(c) \/ Fails(c)
  /\ Goes(c, "mark")
  /\ UNCHANGED session /\ Keeps

\* drop and sql refuse the session's own database and the appliance's, in one
\* statement, and a name that is none's or a template's in the next.  Then drop
\* escalates, and sql goes elsewhere.
Footing(c) ==
  /\ at[c] = "footing"
  /\ \/ Succeeds(c) /\ (Goes(c, "template") \/ Goes(c, "mark"))
     \/ Fails(c) /\ Goes(c, "mark")
  /\ UNCHANGED session /\ Keeps

Template(c) ==
  /\ at[c] = "template"
  /\ \/ Succeeds(c) /\ (Goes(c, "set") \/ Goes(c, "elsewhere") \/ Goes(c, "mark"))
     \/ Fails(c) /\ Goes(c, "mark")
  /\ UNCHANGED session /\ Keeps

\* sql connects to its target, asks whether it is of the kg pattern, and runs
\* the text there as yeomna_provision: dropping the connection is the reset.
Elsewhere(c) ==
  /\ at[c] = "elsewhere"
  /\ Goes(c, "mark")
  /\ UNCHANGED <<session, faults>> /\ Keeps

\* The flag is raised before SET ROLE and lowered when SET ROLE is refused.
SetRole(c) ==
  /\ at[c] = "set"
  /\ \/ /\ Succeeds(c)
        /\ session' = [session EXCEPT ![c].escalated = TRUE, ![c].role = "provision"]
        /\ Goes(c, "sql")
     \/ /\ Fails(c)
        /\ session' = [session EXCEPT ![c].escalated = FALSE]
        /\ Goes(c, "mark")
  /\ Keeps

\* Whatever the statement's result, RESET ROLE follows.
Provision(c) ==
  /\ at[c] = "sql"
  /\ Succeeds(c) \/ Fails(c)
  /\ Goes(c, "reset")
  /\ UNCHANGED session /\ Keeps

\* Mutant: the flag is lowered whether or not the reset completed.
ResetRoleAlwaysLowers(c) ==
  /\ at[c] = "reset"
  /\ \/ /\ Succeeds(c)
        /\ session' = [session EXCEPT ![c].escalated = FALSE, ![c].role = "app"]
     \/ /\ Fails(c)
        /\ session' = [session EXCEPT ![c].escalated = FALSE, ![c].unproven = TRUE]
  /\ Goes(c, "mark")
  /\ Keeps

ResetRole(c) ==
  /\ at[c] = "reset"
  /\ \/ /\ Succeeds(c)
        /\ session' = [session EXCEPT ![c].escalated = FALSE, ![c].role = "app"]
     \/ /\ Fails(c)
        /\ session' = [session EXCEPT ![c].unproven = TRUE]
  /\ Goes(c, "mark")
  /\ Keeps

\* audit::finish: a mark that fails is logged and the row stays open.
Mark(c) ==
  /\ at[c] = "mark"
  /\ Succeeds(c) \/ Fails(c)
  /\ Goes(c, "reply")
  /\ UNCHANGED session /\ Keeps

\* The caller drops the call at an await.  The statement under way may still
\* take effect, so the role is whatever the store made of it.
Drop(c) ==
  /\ Drops /\ at[c] \in InCall \ {"reply"}
  /\ faults < MaxFaults /\ faults' = faults + 1
  /\ \E role \in {"app", "provision"} :
       /\ role # session[c].role => at[c] \in {"set", "reset"}
       /\ session' = [session EXCEPT
            ![c].role = role,
            ![c].escalated = @ \/ at[c] = "set",
            ![c].unproven = @ \/ at[c] \in {"set", "sql", "reset"}]
  /\ Goes(c, "idle")
  /\ Keeps

-----------------------------------------------------------------------------
DaemonInit ==
  /\ daemon = "serving" /\ socket = TRUE /\ store = "up"
  /\ at = [c \in Clients |-> "away"]
  /\ session = [c \in Clients |-> NoSession]
  /\ asked = 0 /\ faults = 0

Serve(c) ==
  \/ Retired(c) \/ Record(c) \/ Plain(c) \/ Footing(c) \/ Template(c) \/ Elsewhere(c)
  \/ SetRole(c) \/ Provision(c) \/ ResetRole(c) \/ Mark(c) \/ WriteFrame(c)

DaemonNext ==
  \/ Stop \/ Crash \/ Start \/ StoreStops \/ StoreStarts
  \/ \E c \in Clients :
       \/ Accept(c) \/ Decline(c) \/ Open(c) \/ Come(c)
       \/ Hangup(c) \/ WriteFrameFails(c) \/ Drop(c) \/ Serve(c)
       \/ \E f \in Frames : ReadFrame(c, f)

\* A call under way is polled, and each await of it ends: the statement, the
\* verb and the write of the frame answer or fail.  The code puts no deadline on
\* any of them, so this is an assumption on the store and on the caller.
DaemonFairness == \A c \in Clients : WF_daemonVars(Serve(c))
DaemonSpec == DaemonInit /\ [][DaemonNext]_daemonVars /\ DaemonFairness

-----------------------------------------------------------------------------
DaemonTypeOK ==
  /\ daemon \in {"serving", "stopped"} /\ socket \in BOOLEAN /\ store \in {"up", "down"}
  /\ at \in [Clients -> Places]
  /\ session \in [Clients ->
       [link : {"none", "up", "broken"}, escalated : BOOLEAN, role : {"app", "provision"},
        unproven : BOOLEAN]]
  /\ asked \in Nat /\ faults \in Nat

\* However an escalation ends, by an error of any of its three statements or by
\* a dropped call, no attempt is recorded and no other verb's statement runs as
\* yeomna_provision, and a session is retired for nothing but an escalation that
\* was left unproven (execute.rs 116-143, 214-225).  One statement may follow a
\* RESET ROLE that failed, and run raised: the mark of the same call, at
\* execute.rs:242; it finds the flag up, and the session is retired after it.
EscalationStaysInside ==
  \A c \in Clients :
    /\ at[c] \in {"plain", "footing", "template", "elsewhere", "set"} /\ session[c].link = "up" =>
         session[c].role = "app"
    /\ at[c] \in {"idle", "begin", "mark", "reply"} =>
         /\ session[c].role = "provision" => session[c].escalated
         /\ session[c].escalated => session[c].unproven

\* One frame to one envelope: a caller that framed correctly is answered or its
\* connection is gone, whichever statement fails and wherever the store, the
\* session or the daemon goes away, provided that what is awaited ends (server.rs
\* 144-168): no path drops a frame and then waits for the next one.
EveryFrameIsAnswered ==
  \A c \in Clients : at[c] \in InCall ~> at[c] \in {"idle", "away", "closed"}
=============================================================================
