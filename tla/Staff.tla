-------------------------------- MODULE Staff --------------------------------
(***************************************************************************)
(* The people of one issuer: logins with a role, profiles of property      *)
(* managers that may have a login, and the SPV managers they report to.    *)
(* A request reads what it needs and writes without looking again.         *)
(*                                                                         *)
(* A process is one request of an active issuer_admin, or of a manager who *)
(* posts about the property they operate. The requests that were open at   *)
(* the same time for the same thing are remembered in "crossed".           *)
(***************************************************************************)
EXTENDS FiniteSets, Naturals

CONSTANTS
  Admins,     \* the issuer_admins there are at first
  Spare,      \* other emails
  Managers, SpvManagers,
  NoEmail, NoManager, NoSpv,
  Procs,
  CrashPoints, \* subset of {"login", "profile", "adopt"}: what is written before the process dies
  MaxCalls    \* bound: requests

Emails == Admins \cup Spare
AssignableRoles == {"issuer_admin", "agent"} \* compliance and spv_manager are like agent here
Nothing == [role |-> "none", disabled |-> FALSE]
NoProfile == [status |-> "none", login |-> NoEmail, spv |-> NoSpv]

VARIABLES
  admins,    \* the login of an email
  managers,  \* the profile of a property manager
  spvStatus, \* spv_managers.status
  operator,  \* offerings.manager_id of the property
  pc,
  req,       \* the request: what it is for
  saw,       \* what it has read
  calls,     \* counter of the bound
  crossed,   \* history: things that two open requests were about
  made,      \* history: logins made for an email
  active,    \* history: the poster was an active manager at some time in the request
  torn       \* history: profiles whose request died half way

tables == <<admins, managers, spvStatus, operator>>
local == <<pc, req, saw, calls>>
history == <<crossed, made, active, torn>>
vars == <<tables, local, history>>

Idle == [op |-> "none", email |-> NoEmail, manager |-> NoManager, spv |-> NoSpv, to |-> "none"]
Changes == {"demote", "promote", "disable", "enable"}
Ops == {"team", "hire", "manager", "profile", "adopt", "release", "post"}

\* Every variable has its type.
TypeOK ==
  /\ admins \in [Emails -> [role : AssignableRoles \cup {"manager", "none"}, disabled : BOOLEAN]]
  /\ managers \in [Managers -> [status : {"none", "active", "suspended"},
                                login : Emails \cup {NoEmail}, spv : SpvManagers \cup {NoSpv}]]
  /\ spvStatus \in [SpvManagers -> {"active", "suspended"}]
  /\ operator \in Managers \cup {NoManager}
  /\ pc \in [Procs -> {"idle", "count", "change", "insert", "login", "profile", "adopt",
                       "update", "disable", "attach", "read", "operates", "write"}]
  /\ req \in [Procs -> [op : Ops \cup {"none"}, email : Emails \cup {NoEmail},
                        manager : Managers \cup {NoManager}, spv : SpvManagers \cup {NoSpv},
                        to : Changes \cup AssignableRoles \cup {"active", "suspended", "none"}]]
  /\ saw \in [Procs -> Emails \cup Managers \cup {NoEmail, NoManager}]
  /\ crossed \in SUBSET (Emails \cup Managers \cup {"team"})
  /\ made \in [Emails -> Nat]
  /\ active \in [Procs -> BOOLEAN] /\ calls \in 0..MaxCalls
  /\ torn \in SUBSET Managers

Init ==
  /\ admins = [e \in Emails |-> IF e \in Admins THEN [role |-> "issuer_admin", disabled |-> FALSE] ELSE Nothing]
  /\ managers = [m \in Managers |-> NoProfile]
  /\ spvStatus = [s \in SpvManagers |-> "active"]
  /\ operator = NoManager
  /\ pc = [p \in Procs |-> "idle"] /\ req = [p \in Procs |-> Idle] /\ saw = [p \in Procs |-> NoEmail]
  /\ calls = 0
  /\ crossed = {} /\ made = [e \in Emails |-> IF e \in Admins THEN 1 ELSE 0]
  /\ active = [p \in Procs |-> FALSE] /\ torn = {}

At(p, here) == pc[p] = here
Goto(p, next) == pc' = [pc EXCEPT ![p] = next]
Continue(p, next) == Goto(p, next) /\ UNCHANGED <<req, saw, calls>>
Finish(p) ==
  /\ Goto(p, "idle")
  /\ req' = [req EXCEPT ![p] = Idle]
  /\ saw' = [saw EXCEPT ![p] = NoEmail]
  /\ UNCHANGED calls

Open(p, r, next) ==
  /\ At(p, "idle") /\ calls < MaxCalls
  /\ calls' = calls + 1
  /\ Goto(p, next)
  /\ req' = [req EXCEPT ![p] = r]

Subjects(r) ==
  {r.email, r.manager} \cup (IF r.op = "team" THEN {"team"} ELSE {})
    \cup (IF r.manager # NoManager THEN {managers[r.manager].login} ELSE {})

\* A request of an issuer_admin who can sign in.
Begin(p, r, read, next) ==
  /\ \E e \in Emails : admins[e] = [role |-> "issuer_admin", disabled |-> FALSE]
  /\ Open(p, r, next)
  /\ saw' = [saw EXCEPT ![p] = read]
  /\ crossed' = crossed \cup
       ((UNION {Subjects(r) \cap Subjects(req[q]) : q \in Procs}) \ {NoEmail, NoManager})

-----------------------------------------------------------------------------
(* TeamService.update *)

HasProfile(e) == \E m \in Managers : managers[m].login = e

After(login, change) ==
  CASE change = "demote" -> [login EXCEPT !.role = "agent"]
    [] change = "promote" -> [login EXCEPT !.role = "issuer_admin"]
    [] change = "disable" -> [login EXCEPT !.disabled = TRUE]
    [] change = "enable" -> [login EXCEPT !.disabled = FALSE]

ActiveAdmin(e) == admins[e] = [role |-> "issuer_admin", disabled |-> FALSE]

\* MANAGED_ELSEWHERE for the login of a profile; a change that may take an
\* active issuer_admin away asks for others first. Nobody does it to themselves,
\* which leaves it to a colleague or to the platform.
TeamUpdate(p, e, change) ==
  /\ admins[e] # Nothing /\ ~HasProfile(e)
  /\ Begin(p, [Idle EXCEPT !.op = "team", !.email = e, !.to = change], NoEmail,
           IF change \in {"demote", "disable"} /\ ActiveAdmin(e) THEN "count" ELSE "change")
  /\ UNCHANGED <<tables, made, active, torn>>

\* Mutant: the one who leaves is counted too.
CountActive(e) == Cardinality({f \in Emails : ActiveAdmin(f)})

CountOthers(e) == Cardinality({f \in Emails \ {e} : ActiveAdmin(f)})

\* LAST_ISSUER_ADMIN where there is no other.
CountOtherActiveIssuerAdmins(p) ==
  /\ At(p, "count")
  /\ IF CountOthers(req[p].email) = 0 THEN Finish(p) ELSE Continue(p, "change")
  /\ UNCHANGED <<tables, history>>

WriteChange(p) ==
  /\ At(p, "change")
  /\ admins' = [admins EXCEPT ![req[p].email] = After(@, req[p].to)]
  /\ Finish(p)
  /\ UNCHANGED <<managers, spvStatus, operator, history>>

-----------------------------------------------------------------------------
(* A new login: TeamService.create, and the first half of ManagersService.create *)

\* EMAIL_TAKEN where the email is found.
EmailTaken(e) == admins[e] # Nothing

TeamCreate(p, e, role) ==
  /\ ~EmailTaken(e)
  /\ Begin(p, [Idle EXCEPT !.op = "hire", !.email = e, !.to = role], NoEmail, "insert")
  /\ UNCHANGED <<tables, made, active, torn>>

\* Mutant: what was read before is believed.
FreeAsRead(e) == TRUE

\* The unique index on the email.
Free(e) == admins[e] = Nothing

Insert(p, role, next) ==
  LET e == req[p].email IN
  IF Free(e)
  THEN /\ admins' = [admins EXCEPT ![e] = [role |-> role, disabled |-> FALSE]]
       /\ made' = [made EXCEPT ![e] = @ + 1]
       /\ IF next = "idle" THEN Finish(p) ELSE Continue(p, next)
  ELSE Finish(p) /\ UNCHANGED <<admins, made>>

InsertMember(p) ==
  /\ At(p, "insert")
  /\ Insert(p, req[p].to, "idle")
  /\ UNCHANGED <<managers, spvStatus, operator, crossed, active, torn>>

-----------------------------------------------------------------------------
(* ManagersService.create, alone or for an SPV manager *)

Unused(m) == managers[m] = NoProfile /\ \A q \in Procs : req[q].manager # m

\* SPV_MANAGER_SUSPENDED is decided on the status that is read at the start.
CreateManager(p, m, e, s) ==
  /\ Unused(m)
  /\ s # NoSpv => spvStatus[s] = "active"
  /\ e # NoEmail => ~EmailTaken(e)
  /\ Begin(p, [Idle EXCEPT !.op = "manager", !.email = e, !.manager = m, !.spv = s], NoEmail,
           IF e = NoEmail THEN "profile" ELSE "login")
  /\ UNCHANGED <<tables, made, active, torn>>

CreateLogin(p) ==
  /\ At(p, "login")
  /\ Insert(p, "manager", "profile")
  /\ UNCHANGED <<managers, spvStatus, operator, crossed, active, torn>>

CreateProfile(p) ==
  /\ At(p, "profile")
  /\ managers' = [managers EXCEPT ![req[p].manager] =
                    [status |-> "active", login |-> req[p].email, spv |-> NoSpv]]
  /\ IF req[p].spv = NoSpv THEN Finish(p) ELSE Continue(p, "adopt")
  /\ UNCHANGED <<admins, spvStatus, operator, history>>

SetReportsTo(p, s) == managers' = [managers EXCEPT ![req[p].manager].spv = s]

AdoptCreated(p) ==
  /\ At(p, "adopt")
  /\ SetReportsTo(p, req[p].spv)
  /\ Finish(p)
  /\ UNCHANGED <<admins, spvStatus, operator, history>>

-----------------------------------------------------------------------------
(* ManagersService.update *)

\* The login is taken from the profile as it is read.
ManagerUpdate(p, m, status) ==
  /\ managers[m] # NoProfile
  /\ Begin(p, [Idle EXCEPT !.op = "profile", !.manager = m, !.to = status], managers[m].login, "update")
  /\ UNCHANGED <<tables, made, active, torn>>

UpdateProfile(p) ==
  /\ At(p, "update")
  /\ managers' = [managers EXCEPT ![req[p].manager].status = req[p].to]
  /\ active' = [q \in Procs |-> active[q] \/ (req[p].to = "active" /\ req[q].op = "post" /\ req[q].manager = req[p].manager)]
  /\ IF saw[p] = NoEmail THEN Finish(p) ELSE Continue(p, "disable")
  /\ UNCHANGED <<admins, spvStatus, operator, crossed, made, torn>>

\* Mutant: a login is only ever disabled.
OnlyDisable(login, status) == login.disabled \/ status = "suspended"

DisabledFor(login, status) == status = "suspended"

\* Pinned to the role: the login of another member is left alone.
SetLoginDisabled(p) ==
  /\ At(p, "disable")
  /\ LET login == admins[saw[p]] IN
     admins' = IF login.role # "manager" THEN admins
               ELSE [admins EXCEPT ![saw[p]].disabled = DisabledFor(login, req[p].to)]
  /\ Finish(p)
  /\ UNCHANGED <<managers, spvStatus, operator, history>>

-----------------------------------------------------------------------------
(* SpvManagersService.update and setReportsTo *)

SpvUpdate(s, status) ==
  /\ spvStatus[s] # status /\ calls < MaxCalls
  /\ calls' = calls + 1
  /\ spvStatus' = [spvStatus EXCEPT ![s] = status]
  /\ UNCHANGED <<admins, managers, operator, pc, req, saw, history>>

\* Mutant: whoever asks last takes the manager on.
TakesAny(m, s) == TRUE

\* ALREADY_REPORTS otherwise.
MayAdopt(m, s) == managers[m].spv \in {NoSpv, s}

Adopt(p, m, s) ==
  /\ managers[m] # NoProfile /\ spvStatus[s] = "active" /\ MayAdopt(m, s)
  /\ Begin(p, [Idle EXCEPT !.op = "adopt", !.manager = m, !.spv = s], NoEmail, "attach")
  /\ UNCHANGED <<tables, made, active, torn>>

\* NOT_REPORTING otherwise.
Release(p, m, s) ==
  /\ managers[m] # NoProfile /\ managers[m].spv = s
  /\ Begin(p, [Idle EXCEPT !.op = "release", !.manager = m, !.spv = s], NoEmail, "attach")
  /\ UNCHANGED <<tables, made, active, torn>>

Attach(p) ==
  /\ At(p, "attach")
  /\ SetReportsTo(p, IF req[p].op = "adopt" THEN req[p].spv ELSE NoSpv)
  /\ Finish(p)
  /\ UNCHANGED <<admins, spvStatus, operator, history>>

-----------------------------------------------------------------------------
(* A manager posts an update or declares a payout: loadAdmin, assertOperates *)

\* The session's login is read again for every request: disabled, or without a
\* profile, it is refused.
Post(p, m) ==
  /\ managers[m].login # NoEmail
  /\ admins[managers[m].login].role = "manager" /\ ~admins[managers[m].login].disabled
  /\ Open(p, [Idle EXCEPT !.op = "post", !.manager = m], "read")
  /\ active' = [active EXCEPT ![p] = managers[m].status = "active"]
  /\ UNCHANGED <<tables, saw, crossed, made, torn>>

ReadOffering(p) ==
  /\ At(p, "read")
  /\ saw' = [saw EXCEPT ![p] = operator]
  /\ Goto(p, "operates")
  /\ UNCHANGED <<tables, req, calls, history>>

\* Mutant: a login that works is enough.
AnyStatus(m) == TRUE

StillActive(m) == managers[m].status = "active"

AssertOperates(p) ==
  /\ At(p, "operates")
  /\ IF StillActive(req[p].manager) /\ saw[p] = req[p].manager THEN Continue(p, "write") ELSE Finish(p)
  /\ UNCHANGED <<tables, history>>

WritePost(p) == At(p, "write") /\ Finish(p) /\ UNCHANGED <<tables, history>>

\* The vote of the token holders installs another manager (Governance).
Installed(m) ==
  /\ operator # m /\ managers[m].status = "active" /\ operator' = m
  /\ UNCHANGED <<admins, managers, spvStatus, local, history>>

\* The process dies: after the login and before the profile, after the profile
\* and before its login, or before a new manager reports to anybody.
Crash(p) ==
  /\ \/ "login" \in CrashPoints /\ At(p, "profile") /\ req[p].email # NoEmail
     \/ "profile" \in CrashPoints /\ At(p, "disable")
     \/ "adopt" \in CrashPoints /\ At(p, "adopt")
  /\ torn' = torn \cup {req[p].manager}
  /\ Finish(p)
  /\ UNCHANGED <<tables, crossed, made, active>>

-----------------------------------------------------------------------------
Advance(p) ==
  \/ CountOtherActiveIssuerAdmins(p) \/ WriteChange(p) \/ InsertMember(p)
  \/ CreateLogin(p) \/ CreateProfile(p) \/ AdoptCreated(p)
  \/ UpdateProfile(p) \/ SetLoginDisabled(p) \/ Attach(p)
  \/ ReadOffering(p) \/ AssertOperates(p) \/ WritePost(p)

TeamCall(p) == \E e \in Emails :
  \/ \E change \in Changes : TeamUpdate(p, e, change)
  \/ \E role \in AssignableRoles : TeamCreate(p, e, role)

ManagerCall(p) == \E m \in Managers :
  \/ \E e \in Emails \cup {NoEmail} : CreateManager(p, m, e, NoSpv)
  \/ \E status \in {"active", "suspended"} : ManagerUpdate(p, m, status)

SpvCall(p) == \E m \in Managers, s \in SpvManagers :
  \/ \E e \in Emails \cup {NoEmail} : CreateManager(p, m, e, s)
  \/ Adopt(p, m, s) \/ Release(p, m, s)

Call(p) == TeamCall(p) \/ ManagerCall(p) \/ SpvCall(p) \/ \E m \in Managers : Post(p, m)

Next ==
  \/ \E p \in Procs : Call(p) \/ Advance(p) \/ Crash(p)
  \/ \E s \in SpvManagers, status \in {"active", "suspended"} : SpvUpdate(s, status)
  \/ \E m \in Managers : Installed(m)

Spec == Init /\ [][Next]_vars

-----------------------------------------------------------------------------
(* Properties. *)

\* The issuer keeps an active issuer_admin, whatever is changed one request at a
\* time; two that take each other's role at the same time may leave none.
SomeAdmin == "team" \notin crossed => \E e \in Emails : ActiveAdmin(e)

\* An email is one person: two requests that create a login for it at the same
\* time, from the team and from the managers, make one.
EmailOnce == \A e \in Emails : made[e] <= 1

\* A manager is suspended with their login, and returns with it, unless the
\* request died half way or another was open for the same manager or email.
LoginFollowsProfile ==
  \A m \in Managers :
    LET e == managers[m].login IN
    (/\ e # NoEmail /\ m \notin crossed \cup torn /\ e \notin crossed
     /\ \A q \in Procs : req[q].manager # m)
      => (admins[e].disabled <=> managers[m].status = "suspended")

\* What a manager writes was asked for while the manager was active, even where
\* the suspension did not reach the login.
SuspendedIsOut == \A p \in Procs : At(p, "write") => active[p]

\* A manager goes from one SPV manager to another by way of a release, unless
\* two of them ask at once.
ReleaseFirst ==
  [][\A m \in Managers :
       (managers[m].spv # NoSpv /\ managers'[m].spv # managers[m].spv) =>
         managers'[m].spv = NoSpv \/ m \in crossed]_vars

\* Concurrent changes leave the issuer its admins, a manager one login that
\* follows the profile, and one SPV manager at a time.
StaffIsKept ==
  /\ [](SomeAdmin /\ EmailOnce /\ LoginFollowsProfile /\ SuspendedIsOut)
  /\ ReleaseFirst
=============================================================================
