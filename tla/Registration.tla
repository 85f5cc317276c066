---------------------------- MODULE Registration ----------------------------
(***************************************************************************)
(* Registering users and verifying their e-mail addresses                  *)
(* (RegistrationService in services/user.rs), served concurrently.         *)
(*                                                                         *)
(* A request is served once; a client that tries again is another request. *)
(***************************************************************************)
EXTENDS UserTables, FiniteSets

CONSTANTS
  Requests,
  EmailOnSignup,   \* auth.email_on_signup
  Verification,    \* mail.email_verification_enabled
  Faults           \* the failures that can happen

ASSUME RegistrationAssumption ==
  /\ EmailOnSignup \in {"Required", "Optional", "None"}
  /\ Verification \in BOOLEAN
  /\ Faults \subseteq {"commit", "database", "mail", "abandon"}

VARIABLES
  pc,          \* where the handler of a request is
  form,        \* the registration form
  uid,         \* the handler's local user_id; 0 before it has one
  response,    \* what the client was answered
  mails,       \* the verification mails that were delivered
  dropped      \* for the properties: the requests whose handler dropped an error

handlers == <<pc, form, uid, response>>
vars == <<userTables, handlers, mails, dropped>>

Form == [username : Usernames, email : Address]
NoForm == [username |-> "none"]

\* The token in the link names the user by id only.
Mail == [to : Emails, sub : Nat]

Refusals == {"rejected", "username_taken", "email_taken", "error", "mail_failed"}

TypeOK ==
  /\ UserTablesTypeOK
  /\ pc \in [Requests -> {"idle", "insert", "profile", "grant", "mail", "undo", "done"}]
  /\ form \in [Requests -> Form \cup {NoForm}]
  /\ uid \in [Requests -> Nat]
  /\ response \in [Requests -> {"none", "created", "abandoned"} \cup Refusals]
  /\ mails \in SUBSET Mail
  /\ dropped \in SUBSET Requests

Init ==
  /\ UserTablesInit
  /\ pc = [r \in Requests |-> "idle"]
  /\ form = [r \in Requests |-> NoForm]
  /\ uid = [r \in Requests |-> 0]
  /\ response = [r \in Requests |-> "none"]
  /\ mails = {}
  /\ dropped = {}

-----------------------------------------------------------------------------
(* register_user *)

GoTo(r, step) ==
  /\ pc' = [pc EXCEPT ![r] = step]
  /\ UNCHANGED response

Answer(r, answer) ==
  /\ pc' = [pc EXCEPT ![r] = "done"]
  /\ response' = [response EXCEPT ![r] = answer]

\* opt_email
EmailOf(r) == IF EmailOnSignup = "None" THEN NoEmail ELSE form[r].email

Submit(r) ==
  /\ pc[r] = "idle"
  /\ \E f \in Form : form' = [form EXCEPT ![r] = f]
  /\ GoTo(r, "insert")
  /\ UNCHANGED <<userTables, uid, mails, dropped>>

\* The e-mail is missing or invalid, the passwords are not right, or the
\* username holds an @.
Reject(r) ==
  /\ pc[r] = "insert"
  /\ Answer(r, "rejected")
  /\ UNCHANGED <<userTables, form, uid, mails, dropped>>

Accepted(r) == EmailOnSignup = "Required" => form[r].email # NoEmail

\* MySQL: the id is taken by the first INSERT of the transaction, and those of
\* other transactions come in between.
TakeId(r) ==
  /\ ~RollbackFreesId
  /\ pc[r] = "insert" /\ Accepted(r)
  /\ uid' = [uid EXCEPT ![r] = nextUserId]
  /\ nextUserId' = nextUserId + 1
  /\ GoTo(r, "profile")
  /\ UNCHANGED <<users, form, mails, dropped>>

\* The transaction is about to insert the profile and to end.
EndsInsertion(r) ==
  /\ pc[r] = IF RollbackFreesId THEN "insert" ELSE "profile"
  /\ Accepted(r)

InsertedId(r) == IF RollbackFreesId THEN nextUserId ELSE uid[r]

Mailed(r) == Verification /\ EmailOf(r) # NoEmail

\* The next step after the grant, or after the insertion when there is none.
AfterGrant(r) == IF Mailed(r) THEN GoTo(r, "mail") ELSE Answer(r, "created")

\* "If this is the first created account, give administrator rights"
AfterInsertion(r, id) == IF id = 1 THEN GoTo(r, "grant") ELSE AfterGrant(r)

InsertUser(r) ==
  /\ EndsInsertion(r)
  /\ InsertUserRows(InsertedId(r), form[r].username, EmailOf(r))
  /\ nextUserId' = IF RollbackFreesId THEN nextUserId + 1 ELSE nextUserId
  /\ uid' = [uid EXCEPT ![r] = InsertedId(r)]
  /\ AfterInsertion(r, InsertedId(r))
  /\ UNCHANGED <<form, mails, dropped>>

\* A constraint of the profile: rolled back.
RefuseUser(r) ==
  /\ EndsInsertion(r)
  /\ \E answer \in UserConflicts(form[r].username, EmailOf(r)) : Answer(r, answer)
  /\ UNCHANGED <<userTables, form, uid, mails, dropped>>

\* The COMMIT fails: its result is dropped, and the handler goes on with an id
\* of which no row exists.
LoseCommit(r) ==
  /\ "commit" \in Faults
  /\ EndsInsertion(r)
  /\ UserConflicts(form[r].username, EmailOf(r)) = {}
  /\ uid' = [uid EXCEPT ![r] = InsertedId(r)]
  /\ AfterInsertion(r, InsertedId(r))
  /\ dropped' = dropped \cup {r}
  /\ UNCHANGED <<userTables, form, mails>>

GrantAdmin(r) ==
  /\ pc[r] = "grant"
  /\ GrantAdminRole(uid[r])
  /\ AfterGrant(r)
  /\ UNCHANGED <<form, uid, mails, dropped>>

\* An error in granting the role is dropped.
FailToGrant(r) ==
  /\ "database" \in Faults
  /\ pc[r] = "grant"
  /\ AfterGrant(r)
  /\ dropped' = dropped \cup {r}
  /\ UNCHANGED <<userTables, form, uid, mails>>

Deliver(r) == mails' = mails \cup {[to |-> EmailOf(r), sub |-> uid[r]]}

SendMail(r) ==
  /\ pc[r] = "mail"
  /\ Deliver(r)
  /\ Answer(r, "created")
  /\ UNCHANGED <<userTables, form, uid, dropped>>

\* Mutant: the error is returned and the user stays.
FailToSendMail_KeepUser(r) ==
  /\ "mail" \in Faults
  /\ pc[r] = "mail"
  /\ Answer(r, "mail_failed")
  /\ UNCHANGED <<userTables, form, uid, mails, dropped>>

\* The mail server refuses, or breaks off after it has taken the mail.
FailToSendMail(r) ==
  /\ "mail" \in Faults
  /\ pc[r] = "mail"
  /\ Deliver(r) \/ UNCHANGED mails
  /\ GoTo(r, "undo")
  /\ UNCHANGED <<userTables, form, uid, dropped>>

\* Mutant: the error is not returned after the user was deleted.
Undo_Created(r) ==
  /\ pc[r] = "undo"
  /\ DeleteUserRows(uid[r])
  /\ Answer(r, "created")
  /\ UNCHANGED <<form, uid, mails, dropped>>

\* Mutant: the user is deleted by name.
Undo_ByName(r) ==
  /\ pc[r] = "undo"
  /\ users' = {u \in users : u.username # form[r].username}
  /\ UNCHANGED nextUserId
  /\ Answer(r, "mail_failed")
  /\ UNCHANGED <<form, uid, mails, dropped>>

\* The user that could not be mailed is deleted again ...
Undo(r) ==
  /\ pc[r] = "undo"
  /\ DeleteUserRows(uid[r])
  /\ Answer(r, "mail_failed")
  /\ UNCHANGED <<form, uid, mails, dropped>>

\* ... and an error in deleting it is dropped.
FailToUndo(r) ==
  /\ "database" \in Faults
  /\ pc[r] = "undo"
  /\ Answer(r, "mail_failed")
  /\ dropped' = dropped \cup {r}
  /\ UNCHANGED <<userTables, form, uid, mails>>

FailInDatabase(r) ==
  /\ "database" \in Faults
  /\ EndsInsertion(r)
  /\ Answer(r, "error")
  /\ UNCHANGED <<userTables, form, uid, mails, dropped>>

\* The process stops, or the client disconnects and the server drops the handler.
Abandon(r) ==
  /\ "abandon" \in Faults
  /\ pc[r] \notin {"idle", "done"}
  /\ Answer(r, "abandoned")
  /\ UNCHANGED <<userTables, form, uid, mails, dropped>>

-----------------------------------------------------------------------------

\* verify_email: someone opens the link of a mail, now or much later.
VerifyEmail(mail) ==
  /\ MarkVerified(mail.sub)
  /\ UNCHANGED <<handlers, mails, dropped>>

Registered ==
  /\ \A r \in Requests : pc[r] = "done"
  /\ UNCHANGED vars

RegistrationStep(r) ==
  \/ Submit(r) \/ Reject(r) \/ TakeId(r) \/ InsertUser(r) \/ RefuseUser(r)
  \/ LoseCommit(r) \/ GrantAdmin(r) \/ FailToGrant(r) \/ SendMail(r)
  \/ FailToSendMail(r) \/ Undo(r) \/ FailToUndo(r) \/ FailInDatabase(r)
  \/ Abandon(r)

Next ==
  \/ \E r \in Requests : RegistrationStep(r)
  \/ \E mail \in mails : VerifyEmail(mail)
  \/ Registered

Spec == Init /\ [][Next]_vars

-----------------------------------------------------------------------------
(* Properties *)

\* No two users share an id, a name or an address, however registrations
\* overlap and whichever of them are rolled back or deleted again.
UserKeysAreUnique ==
  /\ \A u, v \in users :
       \/ u.user_id = v.user_id
       \/ u.username = v.username
       \/ u.email = v.email /\ u.email # NoEmail
       => u = v
  /\ \A u \in users : u.user_id \in 1 .. (nextUserId - 1)

\* An address counts as verified only if its owner was sent a link for this very
\* account.  The link names the user by id alone and is good for ten years: that
\* is right only as long as an id never comes to mean somebody else.
VerifiedByOwner ==
  \A u \in users : u.email_verified => [to |-> u.email, sub |-> u.user_id] \in mails

\* A registration that was answered with success has an account, unless its
\* handler dropped the error of a failed COMMIT (sqlite.rs:105, mysql.rs:104).
AckedRegistrationExists ==
  \A r \in Requests \ dropped : response[r] = "created" =>
    \E u \in users : u.user_id = uid[r] /\ u.username = form[r].username

\* A registration refused because the mail could not be sent leaves no account
\* that would keep its username taken, unless its handler dropped the error of
\* the deletion (user.rs:140).
RefusedRegistrationIsUndone ==
  \A r \in Requests \ dropped : response[r] \in Refusals =>
    ~ \E u \in users : u.user_id = uid[r]

\* A registration never deletes the account of another one.
RegistrationRemovesOnlyItsOwn ==
  [][\A r \in Requests : RegistrationStep(r) =>
       \A u \in users : UsersWithId(u.user_id)' = {} =>
         u.username = form[r].username /\ u.user_id = uid[r]]_vars

=============================================================================
