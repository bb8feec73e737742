---------------------------- MODULE DaemonProofs ----------------------------
(***************************************************************************)
(* Theorems about Daemon, for every set of peers and every number of       *)
(* calls and failures; and about the two servers together.                 *)
(***************************************************************************)
EXTENDS MCServing, McpServerProofs

\* Where a connection is tells how far its escalation has come.  Between the
\* record and SET ROLE the session is as good as new; from SET ROLE to RESET
\* ROLE its flag is up; and after that the flag is down, or the flag is up for
\* good and the escalation is one that was left unproven.
Proven(a, r) ==
  /\ a \in {"plain", "footing", "template", "elsewhere", "set"} => r.role = "app" /\ ~r.escalated
  /\ a \in {"sql", "reset"} => r.escalated
  /\ a \in {"idle", "begin", "mark", "reply"} =>
       /\ r.role = "provision" => r.escalated
       /\ r.escalated => r.unproven

DaemonInv == DaemonTypeOK /\ \A c \in Clients : Proven(at[c], session[c])

Session ==
  [link : {"none", "up", "broken"}, escalated : BOOLEAN, role : {"app", "provision"},
   unproven : BOOLEAN]

LEMMA NoSessionProves ==
  /\ NoSession \in Session
  /\ \A a : a \notin {"sql", "reset"} => Proven(a, NoSession)
  BY DEF NoSession, Session, Proven

\* A step of one connection: what it leaves to show is where it goes.
LEMMA OneConnection ==
  ASSUME DaemonInv, NEW c \in Clients, NEW a \in Places, NEW r \in Session, Proven(a, r),
         at' = [at EXCEPT ![c] = a], session' = [session EXCEPT ![c] = r],
         UNCHANGED <<daemon, socket, store>>, asked' \in Nat, faults' \in Nat
  PROVE  DaemonInv'
<1>1. at \in [Clients -> Places] /\ session \in [Clients -> Session]
  BY DEF DaemonInv, DaemonTypeOK, Session
<1>2. at' \in [Clients -> Places] /\ session' \in [Clients -> Session]
  BY <1>1
<1>3. DaemonTypeOK'
  BY <1>2 DEF DaemonInv, DaemonTypeOK, Session
<1>4. ASSUME NEW d \in Clients PROVE Proven(at'[d], session'[d])
  <2>1. CASE d = c
    <3>1. at'[d] = a /\ session'[d] = r
      BY <1>1, <2>1
    <3>. QED BY <3>1
  <2>2. CASE d # c
    <3>1. at'[d] = at[d] /\ session'[d] = session[d]
      BY <1>1, <2>2
    <3>. QED BY <3>1 DEF DaemonInv
  <2>. QED BY <2>1, <2>2
<1>. QED BY <1>3, <1>4 DEF DaemonInv

\* One that leaves its session alone.
LEMMA SameSession ==
  ASSUME DaemonInv, NEW c \in Clients, NEW a \in Places, Goes(c, a), session' = session,
         Proven(a, session[c]), Keeps, faults' \in Nat
  PROVE  DaemonInv'
<1>1. session \in [Clients -> Session] /\ asked \in Nat
  BY DEF DaemonInv, DaemonTypeOK, Session
<1>2. session' = [session EXCEPT ![c] = session[c]] /\ session[c] \in Session
  BY <1>1
<1>. QED BY <1>1, <1>2, OneConnection DEF Goes, Keeps

\* One that comes to an end.
LEMMA EndedConnection ==
  ASSUME DaemonInv, NEW c \in Clients, Goes(c, "closed"), session' = [session EXCEPT ![c] = NoSession],
         Keeps, faults' \in Nat
  PROVE  DaemonInv'
<1>1. "closed" \in Places /\ Proven("closed", NoSession) /\ asked \in Nat
  BY NoSessionProves DEF Places, DaemonInv, DaemonTypeOK
<1>. QED BY <1>1, NoSessionProves, OneConnection DEF Goes, Keeps

-----------------------------------------------------------------------------
(* The steps                                                               *)

LEMMA Facts ==
  ASSUME DaemonInv, NEW c \in Clients
  PROVE  /\ at[c] \in Places /\ session[c] \in Session /\ Proven(at[c], session[c])
         /\ session \in [Clients -> Session] /\ at \in [Clients -> Places]
         /\ faults \in Nat /\ faults + 1 \in Nat /\ asked \in Nat /\ asked + 1 \in Nat
BY DEF DaemonInv, DaemonTypeOK, Session

LEMMA FaultsCount ==
  ASSUME DaemonInv, NEW c \in Clients, Succeeds(c) \/ Fails(c)
  PROVE  faults' \in Nat
BY Facts DEF Succeeds, Fails

\* The peer comes, is declined or served, and goes.
LEMMA PeerStep ==
  ASSUME DaemonInv, NEW c \in Clients,
         Accept(c) \/ Decline(c) \/ Open(c) \/ Come(c) \/ Hangup(c) \/ WriteFrameFails(c)
  PROVE  DaemonInv'
<1>. USE Facts
<1>1. CASE Accept(c) \/ Decline(c) \/ Come(c)
  <2>1. PICK a \in {"new", "closed", "away"} : Goes(c, a) /\ session' = session /\ faults' = faults /\ Keeps
    BY <1>1 DEF Accept, Decline, Come
  <2>2. a \in Places /\ Proven(a, session[c])
    BY DEF Places, Proven
  <2>. QED BY <2>1, <2>2, SameSession
<1>2. CASE Open(c)
  <2> DEFINE r == [NoSession EXCEPT !.link = IF store = "up" THEN "up" ELSE "none"]
  <2>1. r \in Session /\ Proven("idle", r) /\ "idle" \in Places
    BY DEF NoSession, Session, Proven, Places
  <2>. QED BY <1>2, <2>1, OneConnection DEF Open, Goes, Keeps
<1>3. CASE Hangup(c)
  BY <1>3, EndedConnection DEF Hangup
<1>4. CASE WriteFrameFails(c)
  BY <1>4, EndedConnection DEF WriteFrameFails
<1>. QED BY <1>1, <1>2, <1>3, <1>4

LEMMA FrameStep ==
  ASSUME DaemonInv, NEW c \in Clients, NEW f \in Frames, ReadFrame(c, f)
  PROVE  DaemonInv'
<1>1. PICK a \in {"reply", "begin"} : at' = [at EXCEPT ![c] = a]
  BY DEF ReadFrame, Goes
<1>2. at[c] = "idle" /\ session' = [session EXCEPT ![c] = session[c]]
  BY Facts DEF ReadFrame
<1>3. Proven(a, session[c]) /\ a \in Places
  BY <1>2, Facts DEF Proven, Places, InCall
<1>. QED BY <1>1, <1>2, <1>3, Facts, OneConnection DEF ReadFrame

LEMMA ServeStep ==
  ASSUME DaemonInv, NEW c \in Clients, Serve(c)
  PROVE  DaemonInv'
<1>. USE Facts
<1>1. CASE Retired(c)
  <2>1. "reply" \in Places /\ Proven("reply", session[c])
    BY <1>1 DEF Retired, Proven, Places, InCall
  <2>. QED BY <1>1, <2>1, SameSession DEF Retired
<1>2. CASE Record(c)
  <2>1. faults' \in Nat
    BY <1>2, FaultsCount DEF Record
  <2>2. PICK a \in {"plain", "set", "footing", "mark", "reply"} : Goes(c, a) /\ session' = session /\ Keeps
    BY <1>2 DEF Record, Reaches
  <2>4. session[c].role = "app" /\ ~session[c].escalated
    BY <1>2 DEF Record, Proven, Session
  <2>3. a \in Places /\ Proven(a, session[c])
    BY <2>4 DEF Proven, Places, InCall
  <2>. QED BY <2>1, <2>2, <2>3, SameSession
<1>3. CASE Plain(c)
  <2>1. faults' \in Nat
    BY <1>3, FaultsCount DEF Plain
  <2>2. "mark" \in Places /\ Proven("mark", session[c])
    BY <1>3 DEF Plain, Proven, Places, InCall
  <2>. QED BY <1>3, <2>1, <2>2, SameSession DEF Plain
<1>4. CASE SetRole(c)
  <2>1. faults' \in Nat
    BY <1>4, FaultsCount DEF SetRole
  <2>2. CASE Goes(c, "sql")
    <3> DEFINE r == [session[c] EXCEPT !.escalated = TRUE, !.role = "provision"]
    <3>1. r \in Session /\ r.escalated = TRUE /\ "sql" \in Places
      BY DEF Session, Places, InCall
    <3>2. at' = [at EXCEPT ![c] = "sql"]
      BY <2>2 DEF Goes
    <3>3. at'[c] = "sql"
      BY <3>2
    <3>4. ~Goes(c, "mark")
      BY <3>3 DEF Goes
    <3>5. session' = [session EXCEPT ![c] = r]
      BY <1>4, <3>4 DEF SetRole
    <3> HIDE DEF r
    <3>6. Proven("sql", r)
      BY <3>1 DEF Proven
    <3>. QED BY <1>4, <2>1, <3>1, <3>2, <3>5, <3>6, OneConnection DEF SetRole, Keeps
  <2>3. CASE ~Goes(c, "sql")
    <3> DEFINE r == [session[c] EXCEPT !.escalated = FALSE]
    <3>1. r \in Session /\ r.escalated = FALSE /\ r.role = session[c].role /\ "mark" \in Places
      BY DEF Session, Places, InCall
    <3>2. at' = [at EXCEPT ![c] = "mark"] /\ session' = [session EXCEPT ![c] = r]
      BY <1>4, <2>3 DEF SetRole, Goes
    <3> HIDE DEF r
    <3>3. Proven("mark", r)
      BY <1>4, <3>1 DEF SetRole, Proven
    <3>. QED BY <1>4, <2>1, <3>1, <3>2, <3>3, OneConnection DEF SetRole, Keeps
  <2>. QED BY <2>2, <2>3
<1>5. CASE Provision(c)
  <2>1. faults' \in Nat
    BY <1>5, FaultsCount DEF Provision
  <2>2. "reset" \in Places /\ Proven("reset", session[c])
    BY <1>5 DEF Provision, Proven, Places, InCall
  <2>. QED BY <1>5, <2>1, <2>2, SameSession DEF Provision
<1>6. CASE ResetRole(c)
  <2>1. faults' \in Nat
    BY <1>6, FaultsCount DEF ResetRole
  <2>2. at' = [at EXCEPT ![c] = "mark"] /\ "mark" \in Places /\ session[c].escalated
    BY <1>6 DEF ResetRole, Goes, Places, InCall, Proven
  <2>3. CASE Succeeds(c) /\ session' = [session EXCEPT ![c].escalated = FALSE, ![c].role = "app"]
    <3> DEFINE r == [session[c] EXCEPT !.escalated = FALSE, !.role = "app"]
    <3>1. r \in Session /\ r.escalated = FALSE /\ r.role = "app"
      BY DEF Session
    <3>2. session' = [session EXCEPT ![c] = r]
      BY <2>3
    <3> HIDE DEF r
    <3>3. Proven("mark", r)
      BY <3>1 DEF Proven
    <3>. QED BY <1>6, <2>1, <2>2, <3>1, <3>2, <3>3, OneConnection DEF ResetRole, Keeps
  <2>4. CASE Fails(c) /\ session' = [session EXCEPT ![c].unproven = TRUE]
    <3> DEFINE r == [session[c] EXCEPT !.unproven = TRUE]
    <3>1. r \in Session /\ r.unproven = TRUE /\ r.escalated = session[c].escalated
      BY DEF Session
    <3>2. session' = [session EXCEPT ![c] = r]
      BY <2>4
    <3> HIDE DEF r
    <3>3. Proven("mark", r)
      BY <2>2, <3>1 DEF Proven
    <3>. QED BY <1>6, <2>1, <2>2, <3>1, <3>2, <3>3, OneConnection DEF ResetRole, Keeps
  <2>. QED BY <1>6, <2>3, <2>4 DEF ResetRole
<1>7. CASE Mark(c)
  <2>1. faults' \in Nat
    BY <1>7, FaultsCount DEF Mark
  <2>2. "reply" \in Places /\ Proven("reply", session[c])
    BY <1>7 DEF Mark, Proven, Places, InCall
  <2>. QED BY <1>7, <2>1, <2>2, SameSession DEF Mark
<1>8. CASE WriteFrame(c)
  <2>1. "idle" \in Places /\ Proven("idle", session[c])
    BY <1>8 DEF WriteFrame, Proven, Places, InCall
  <2>. QED BY <1>8, <2>1, SameSession DEF WriteFrame
<1>9. CASE Footing(c) \/ Template(c) \/ Elsewhere(c)
  <2>1. faults' \in Nat
    BY <1>9, FaultsCount DEF Footing, Template, Elsewhere
  <2>2. PICK a \in {"template", "set", "elsewhere", "mark"} : Goes(c, a) /\ session' = session /\ Keeps
    BY <1>9 DEF Footing, Template, Elsewhere
  <2>3. a \in Places /\ Proven(a, session[c])
    BY <1>9, <2>2 DEF Footing, Template, Elsewhere, Proven, Places, InCall
  <2>. QED BY <2>1, <2>2, <2>3, SameSession
<1>. QED BY <1>1, <1>2, <1>3, <1>4, <1>5, <1>6, <1>7, <1>8, <1>9 DEF Serve

\* A call dropped at an await.
LEMMA DropStep ==
  ASSUME DaemonInv, NEW c \in Clients, Drop(c)
  PROVE  DaemonInv'
<1>. USE Facts
<1>1. PICK role \in {"app", "provision"} :
        /\ role # session[c].role => at[c] \in {"set", "reset"}
        /\ session' = [session EXCEPT
             ![c].role = role,
             ![c].escalated = @ \/ at[c] = "set",
             ![c].unproven = @ \/ at[c] \in {"set", "sql", "reset"}]
  BY DEF Drop
<1> DEFINE e == session[c].escalated \/ at[c] = "set"
           u == session[c].unproven \/ at[c] \in {"set", "sql", "reset"}
           r == [session[c] EXCEPT !.role = role, !.escalated = e, !.unproven = u]
<1>2. e \in BOOLEAN /\ u \in BOOLEAN
  BY DEF Session
<1>3. session' = [session EXCEPT ![c] = r]
  BY <1>1
<1> HIDE DEF e, u
<1>4. r \in Session /\ r.role = role /\ r.escalated = e /\ r.unproven = u
  BY <1>2 DEF Session
<1> HIDE DEF r
<1>5. Proven("idle", r)
  <2>1. at[c] \in {"begin", "plain", "footing", "template", "elsewhere", "set", "sql", "reset", "mark"}
    BY DEF Drop, InCall
  <2>2. CASE at[c] = "begin" \/ at[c] = "mark"
    <3>1. role = session[c].role /\ e = session[c].escalated /\ u = session[c].unproven
      BY <1>1, <2>2 DEF e, u, Session
    <3>. QED BY <1>4, <2>2, <3>1 DEF Proven
  <2>3. CASE at[c] \in {"plain", "footing", "template", "elsewhere"}
    <3>1. role = "app" /\ ~e
      BY <1>1, <2>3 DEF e, Proven
    <3>. QED BY <1>4, <3>1 DEF Proven
  <2>4. CASE at[c] \in {"set", "sql", "reset"}
    <3>1. e /\ u
      BY <2>4 DEF e, u, Proven
    <3>. QED BY <1>4, <3>1 DEF Proven
  <2>. QED BY <2>1, <2>2, <2>3, <2>4
<1>. QED BY <1>3, <1>4, <1>5, OneConnection DEF Drop, Goes, Keeps, Places

\* The daemon ends and takes every session with it.
LEMMA EndStep ==
  ASSUME DaemonInv, Stop \/ Crash
  PROVE  DaemonInv'
<1>1. faults' \in Nat
  BY DEF Stop, Crash, DaemonInv, DaemonTypeOK
<1>2. \A c \in Clients : at'[c] \in {"away", "closed"} /\ session'[c] = NoSession
  BY DEF Stop, Crash
<1>3. at' \in [Clients -> Places] /\ session' \in [Clients -> Session]
  BY NoSessionProves DEF Stop, Crash, Places
<1>4. DaemonTypeOK'
  BY <1>1, <1>3 DEF DaemonInv, DaemonTypeOK, Stop, Crash, Session
<1>. QED BY <1>2, <1>4, NoSessionProves DEF DaemonInv

\* The store comes and goes; the links break, and the roles with them.
LEMMA StoreStep ==
  ASSUME DaemonInv, StoreStops \/ StoreStarts \/ Start \/ UNCHANGED daemonVars
  PROVE  DaemonInv'
<1>1. CASE StoreStops
  <2>1. \A c \in Clients :
          /\ session'[c] \in Session /\ session'[c].role = session[c].role
          /\ session'[c].escalated = session[c].escalated /\ session'[c].unproven = session[c].unproven
    <3> SUFFICES ASSUME NEW c \in Clients
                 PROVE  /\ session'[c] \in Session /\ session'[c].role = session[c].role
                        /\ session'[c].escalated = session[c].escalated
                        /\ session'[c].unproven = session[c].unproven
      OBVIOUS
    <3> DEFINE r == [session[c] EXCEPT !.link = "broken"]
    <3>1. session[c] \in Session
      BY Facts
    <3>2. /\ r \in Session /\ r.role = session[c].role
          /\ r.escalated = session[c].escalated /\ r.unproven = session[c].unproven
      BY <3>1 DEF Session
    <3>3. session'[c] = IF session[c].link = "up" THEN r ELSE session[c]
      BY <1>1 DEF StoreStops
    <3> HIDE DEF r
    <3>. QED BY <3>1, <3>2, <3>3
  <2>2. session' \in [Clients -> Session]
    <3>1. session' = [c \in Clients |-> session'[c]]
      BY <1>1 DEF StoreStops
    <3>. QED BY <2>1, <3>1
  <2>3. DaemonTypeOK'
    BY <1>1, <2>2 DEF DaemonInv, DaemonTypeOK, StoreStops, Session
  <2>. QED BY <1>1, <2>1, <2>3 DEF DaemonInv, Proven, StoreStops
<1>2. CASE StoreStarts \/ Start \/ UNCHANGED daemonVars
  <2>1. at' = at /\ session' = session
    BY <1>2 DEF StoreStarts, Start, daemonVars
  <2>2. DaemonTypeOK'
    BY <1>2 DEF DaemonInv, DaemonTypeOK, StoreStarts, Start, daemonVars
  <2>. QED BY <2>1, <2>2 DEF DaemonInv
<1>. QED BY <1>1, <1>2

LEMMA DaemonInitially == DaemonInit => DaemonInv
<1> SUFFICES ASSUME DaemonInit PROVE DaemonInv
  OBVIOUS
<1>1. DaemonTypeOK
  BY NoSessionProves DEF DaemonInit, DaemonTypeOK, Session, Places
<1>. QED BY <1>1, NoSessionProves DEF DaemonInit, DaemonInv

LEMMA DaemonStep == DaemonInv /\ [DaemonNext]_daemonVars => DaemonInv'
BY PeerStep, FrameStep, ServeStep, DropStep, EndStep, StoreStep DEF DaemonNext

\* The invariant holds of every behaviour.
THEOREM DaemonInvariant == DaemonSpec => []DaemonInv
<1>. QED BY DaemonInitially, DaemonStep, PTL DEF DaemonSpec

\* However an escalation ends, by an error of any of its three statements or by
\* a dropped call, no attempt is recorded and no other verb's statement runs as
\* yeomna_provision, the mark of that call runs raised only with the flag up
\* and the reset unproven, and a session is retired for nothing else
\* (execute.rs 116-143, 214-242): for every number of peers, calls and failures.
THEOREM EscalationsStayInside == DaemonSpec => []EscalationStaysInside
<1>1. DaemonInv => EscalationStaysInside
  BY DEF DaemonInv, Proven, EscalationStaysInside
<1>. QED BY <1>1, DaemonInvariant, PTL

-----------------------------------------------------------------------------
(* Both servers                                                            *)

\* Every variable of both servers stays in its type, whichever of them runs:
\* no slot is returned twice, no wait is for a call that was never made, no
\* connection is at a place the session cannot leave (lib.rs 76-106, 326-370;
\* server.rs 66-143).  The invariants of both are needed: that the semaphore
\* keeps within its size is no fact about one step of its own.
THEOREM ServingTypes == Spec => []ServingTypeOK
<1>1. Init => McpInv /\ DaemonInv
  BY McpInitially, DaemonInitially DEF Init
<1>2. McpInv /\ DaemonInv /\ [Next]_servingVars => McpInv' /\ DaemonInv'
  <2>1. [Next]_servingVars => [McpNext]_mcpVars /\ [DaemonNext]_daemonVars
    BY DEF Next, servingVars
  <2>. QED BY <2>1, McpStep, DaemonStep
<1>3. McpInv /\ DaemonInv => ServingTypeOK
  BY DEF McpInv, SlotInv, DaemonInv, ServingTypeOK
<1>. QED BY <1>1, <1>2, <1>3, PTL DEF Spec
=============================================================================
