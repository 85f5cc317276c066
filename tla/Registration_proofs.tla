------------------------ MODULE Registration_proofs ------------------------
(***************************************************************************)
(* For any number of overlapping registrations and any set of failures:    *)
(* ids, usernames and addresses stay unique.  And, except where a lost     *)
(* COMMIT lets SQLite hand an id out twice, an address counts as verified  *)
(* only if its owner was sent a link for that very account.                *)
(***************************************************************************)
EXTENDS Registration, TLAPS

Active == {"insert", "profile", "grant", "mail", "undo"}

\* A handler at work has a form, and one that mails has an address.
FormsGiven ==
  \A r \in Requests :
    /\ pc[r] \in Active => form[r] \in Form
    /\ pc[r] = "mail" => EmailOf(r) \in Emails

TypeInv == TypeOK /\ FormsGiven

USE DEF TypeInv, FormsGiven, Active

LEMMA EmailOfForm ==
  ASSUME TypeInv, NEW r \in Requests, pc[r] \in Active
  PROVE  form[r].username \in Usernames /\ EmailOf(r) \in Address
BY DEF Form, EmailOf, Address

\* A handler that goes on after the insertion, or after the grant.
LEMMA AfterInsertionType ==
  ASSUME TypeInv, NEW r \in Requests, NEW id \in Nat,
         pc[r] \in Active, AfterInsertion(r, id) \/ AfterGrant(r)
  PROVE  /\ pc' \in [Requests -> {"idle", "insert", "profile", "grant", "mail", "undo", "done"}]
         /\ response' \in [Requests -> {"none", "created", "abandoned"} \cup Refusals]
         /\ pc'[r] \in {"grant", "mail", "done"}
         /\ \A q \in Requests \ {r} : pc'[q] = pc[q] /\ response'[q] = response[q]
         /\ pc'[r] = "mail" => EmailOf(r) \in Emails
<1>1. pc'[r] = "mail" => EmailOf(r) # NoEmail
  BY DEF AfterInsertion, AfterGrant, GoTo, Answer, Mailed, TypeOK
<1>2. EmailOf(r) \in Address
  BY EmailOfForm
<1> QED BY <1>1, <1>2 DEF AfterInsertion, AfterGrant, GoTo, Answer, TypeOK, Address

\* The columns that are set after an account was made keep it an account.
LEMMA UserColumns ==
  ASSUME NEW u \in UserRow
  PROVE  /\ [u EXCEPT !.administrator = TRUE] \in UserRow
         /\ [u EXCEPT !.email_verified = TRUE] \in UserRow
BY DEF UserRow

LEMMA TypeInvInit == Init => TypeInv
BY DEF Init, TypeOK, UserTablesInit, UserTablesTypeOK

LEMMA TypeInvNext == TypeInv /\ [Next]_vars => TypeInv'
<1> SUFFICES ASSUME TypeInv, [Next]_vars PROVE TypeInv'
  OBVIOUS
<1>1. ASSUME NEW r \in Requests, Submit(r) PROVE TypeInv'
  BY <1>1 DEF Submit, GoTo, TypeOK, UserTablesTypeOK, userTables, EmailOf
<1>2. ASSUME NEW r \in Requests,
             Reject(r) \/ RefuseUser(r) \/ FailToUndo(r) \/ FailInDatabase(r) \/ Abandon(r)
      PROVE  TypeInv'
  <2>1. \E answer \in {"abandoned"} \cup Refusals : Answer(r, answer)
    BY <1>2 DEF Reject, RefuseUser, FailToUndo, FailInDatabase, Abandon, Refusals, UserConflicts
  <2>2. UNCHANGED <<users, nextUserId, form, uid, mails>>
    BY <1>2 DEF Reject, RefuseUser, FailToUndo, FailInDatabase, Abandon, userTables
  <2>3. FormsGiven'
    BY <2>1, <2>2 DEF Answer, TypeOK, EmailOf
  <2>4. dropped' \in SUBSET Requests
    BY <1>2 DEF Reject, RefuseUser, FailToUndo, FailInDatabase, Abandon, TypeOK
  <2>5. TypeOK'
    BY <2>1, <2>2, <2>4 DEF Answer, TypeOK, UserTablesTypeOK
  <2> QED BY <2>3, <2>5
<1>3. ASSUME NEW r \in Requests, TakeId(r) PROVE TypeInv'
  BY <1>3 DEF TakeId, GoTo, TypeOK, UserTablesTypeOK, EmailOf
<1>4. ASSUME NEW r \in Requests, InsertUser(r) PROVE TypeInv'
  <2>1. pc[r] \in Active /\ InsertedId(r) \in Nat
    BY <1>4 DEF InsertUser, EndsInsertion, InsertedId, TypeOK, UserTablesTypeOK
  <2>2. users' \in SUBSET UserRow /\ nextUserId' \in Nat \ {0}
    <3>1. form[r].username \in Usernames /\ EmailOf(r) \in Address
      BY <2>1, EmailOfForm
    <3>2. users' \in SUBSET UserRow
      <4> DEFINE row == [user_id |-> InsertedId(r), username |-> form[r].username,
                         email |-> EmailOf(r), email_verified |-> FALSE,
                         administrator |-> FALSE]
      <4>1. row \in UserRow
        BY <2>1, <3>1 DEF UserRow
      <4>2. users' = users \cup {row}
        BY <1>4 DEF InsertUser, InsertUserRows
      <4> QED BY <4>1, <4>2 DEF TypeOK, UserTablesTypeOK
    <3>3. nextUserId' \in Nat \ {0}
      BY <1>4 DEF InsertUser, TypeOK, UserTablesTypeOK
    <3> QED BY <3>2, <3>3
  <2>3. AfterInsertion(r, InsertedId(r)) /\ UNCHANGED <<form, mails, dropped>>
    BY <1>4 DEF InsertUser
  <2>4. uid' \in [Requests -> Nat]
    BY <1>4, <2>1 DEF InsertUser, TypeOK
  <2> QED BY <2>1, <2>2, <2>3, <2>4, AfterInsertionType
      DEF TypeOK, UserTablesTypeOK, EmailOf
<1>5. ASSUME NEW r \in Requests, LoseCommit(r) PROVE TypeInv'
  <2>1. pc[r] \in Active /\ InsertedId(r) \in Nat
    BY <1>5 DEF LoseCommit, EndsInsertion, InsertedId, TypeOK, UserTablesTypeOK
  <2>2. AfterInsertion(r, InsertedId(r)) /\ UNCHANGED <<userTables, form, mails>>
    BY <1>5 DEF LoseCommit
  <2>3. uid' \in [Requests -> Nat] /\ dropped' \in SUBSET Requests
    BY <1>5, <2>1 DEF LoseCommit, TypeOK
  <2> QED BY <2>1, <2>2, <2>3, AfterInsertionType
      DEF TypeOK, UserTablesTypeOK, userTables, EmailOf
<1>6. ASSUME NEW r \in Requests, GrantAdmin(r) \/ FailToGrant(r) PROVE TypeInv'
  <2>1. users' \in SUBSET UserRow /\ nextUserId' = nextUserId
    <3>1. \A u \in users : u \in UserRow /\ [u EXCEPT !.administrator = TRUE] \in UserRow
      BY UserColumns DEF TypeOK, UserTablesTypeOK
    <3>2. CASE GrantAdmin(r)
      <4>1. GrantAdminRole(uid[r])
        BY <3>2 DEF GrantAdmin
      <4> QED BY <3>1, <4>1 DEF GrantAdminRole
    <3>3. CASE FailToGrant(r)
      BY <3>3 DEF FailToGrant, userTables, TypeOK, UserTablesTypeOK
    <3> QED BY <1>6, <3>2, <3>3
  <2>2. /\ AfterGrant(r) /\ pc[r] \in Active
        /\ UNCHANGED <<form, uid, mails>>
        /\ dropped' \in SUBSET Requests
    BY <1>6 DEF GrantAdmin, FailToGrant, TypeOK
  <2> QED BY <2>1, <2>2, AfterInsertionType DEF TypeOK, UserTablesTypeOK, EmailOf
<1>7. ASSUME NEW r \in Requests, SendMail(r) \/ FailToSendMail(r) PROVE TypeInv'
  <2>1. mails' \in SUBSET Mail
    BY <1>7 DEF SendMail, FailToSendMail, Deliver, TypeOK, Mail
  <2> QED BY <1>7, <2>1 DEF SendMail, FailToSendMail, GoTo, Answer, TypeOK,
          UserTablesTypeOK, userTables, EmailOf
<1>8. ASSUME NEW r \in Requests, Undo(r) PROVE TypeInv'
  BY <1>8 DEF Undo, DeleteUserRows, Answer, TypeOK, UserTablesTypeOK, EmailOf, Refusals
<1>9. ASSUME NEW mail \in mails, VerifyEmail(mail) PROVE TypeInv'
  <2>1. users' \in SUBSET UserRow /\ nextUserId' = nextUserId
    <3>1. \A u \in users : u \in UserRow /\ [u EXCEPT !.email_verified = TRUE] \in UserRow
      BY UserColumns DEF TypeOK, UserTablesTypeOK
    <3>2. MarkVerified(mail.sub)
      BY <1>9 DEF VerifyEmail
    <3> QED BY <3>1, <3>2 DEF MarkVerified
  <2> QED BY <1>9, <2>1 DEF VerifyEmail, handlers, TypeOK, UserTablesTypeOK, EmailOf
<1>10. CASE Registered \/ UNCHANGED vars
  BY <1>10 DEF Registered, vars, handlers, userTables, TypeOK, UserTablesTypeOK, EmailOf
<1> QED BY <1>1, <1>2, <1>3, <1>4, <1>5, <1>6, <1>7, <1>8, <1>9, <1>10
    DEF Next, RegistrationStep

\* Users, handlers and mails are well formed in every reachable state, whatever
\* fails and however many registrations overlap.
THEOREM TypeCorrect == Spec => []TypeOK
<1>1. TypeInv => TypeOK
  OBVIOUS
<1> QED BY <1>1, TypeInvInit, TypeInvNext, PTL DEF Spec

-----------------------------------------------------------------------------
(* Keys *)

\* An id that a MySQL transaction has taken and not used yet is nobody's.
TakenIdsAreFree ==
  \A r \in Requests : pc[r] = "profile" =>
    /\ ~RollbackFreesId
    /\ uid[r] \in 1 .. (nextUserId - 1)
    /\ \A u \in users : u.user_id # uid[r]
    /\ \A q \in Requests \ {r} : pc[q] = "profile" => uid[q] # uid[r]

KeysInv == TypeInv /\ UserKeysAreUnique /\ TakenIdsAreFree

LEMMA KeysInvInit == Init => KeysInv
BY TypeInvInit DEF Init, UserTablesInit, KeysInv, UserKeysAreUnique, TakenIdsAreFree

\* The id an insertion uses is nobody's, in SQLite and in MySQL.
LEMMA InsertedIdIsFree ==
  ASSUME KeysInv, NEW r \in Requests, EndsInsertion(r)
  PROVE  /\ InsertedId(r) \in Nat \ {0}
         /\ InsertedId(r) < nextUserId \/ (RollbackFreesId /\ InsertedId(r) = nextUserId)
         /\ \A u \in users : u.user_id # InsertedId(r)
         /\ \A q \in Requests \ {r} : pc[q] = "profile" => uid[q] # InsertedId(r)
<1>1. CASE RollbackFreesId
  BY <1>1 DEF KeysInv, UserKeysAreUnique, TakenIdsAreFree, InsertedId, TypeOK, UserTablesTypeOK
<1>2. CASE ~RollbackFreesId
  BY <1>2 DEF KeysInv, TakenIdsAreFree, InsertedId, EndsInsertion, TypeOK, UserTablesTypeOK
<1> QED BY <1>1, <1>2

\* A statement that changes no key of a user, and no handler that has taken an id.
LEMMA SameKeys ==
  ASSUME KeysInv, TypeInv', UNCHANGED nextUserId,
         \A v \in users' : \E u \in users :
           v.user_id = u.user_id /\ v.username = u.username /\ v.email = u.email,
         \A v, w \in users' : v.user_id = w.user_id => v = w,
         \A q \in Requests : pc'[q] = "profile" => pc[q] = "profile" /\ uid'[q] = uid[q]
  PROVE  KeysInv'
<1>1. UserKeysAreUnique'
  <2>1. ASSUME NEW v \in users', NEW w \in users',
               v.username = w.username \/ (v.email = w.email /\ v.email # NoEmail)
        PROVE  v = w
    <3>1. PICK t \in users : v.user_id = t.user_id /\ v.username = t.username /\ v.email = t.email
      OBVIOUS
    <3>2. PICK u \in users : w.user_id = u.user_id /\ w.username = u.username /\ w.email = u.email
      OBVIOUS
    <3>3. t = u
      BY <2>1, <3>1, <3>2 DEF KeysInv, UserKeysAreUnique
    <3> QED BY <3>1, <3>2, <3>3
  <2>2. \A v \in users' : v.user_id \in 1 .. (nextUserId' - 1)
    BY DEF KeysInv, UserKeysAreUnique
  <2> QED BY <2>1, <2>2 DEF UserKeysAreUnique
<1>2. TakenIdsAreFree'
  BY DEF KeysInv, TakenIdsAreFree
<1> QED BY <1>1, <1>2 DEF KeysInv

\* A step that leaves the users and their ids alone.
LEMMA SameUsers ==
  ASSUME KeysInv, TypeInv', UNCHANGED <<users, nextUserId>>,
         \A q \in Requests : pc'[q] = "profile" => pc[q] = "profile" /\ uid'[q] = uid[q]
  PROVE  KeysInv'
BY SameKeys DEF KeysInv, UserKeysAreUnique

\* Granting a role or verifying an address rewrites a row and none of its keys.
LEMMA RewriteKeepsKeys ==
  ASSUME KeysInv, NEW id, GrantAdminRole(id) \/ MarkVerified(id)
  PROVE  /\ UNCHANGED nextUserId
         /\ \A v \in users' : \E u \in users :
              v.user_id = u.user_id /\ v.username = u.username /\ v.email = u.email
         /\ \A v, w \in users' : v.user_id = w.user_id => v = w
<1> DEFINE granted(u) == IF u.user_id = id THEN [u EXCEPT !.administrator = TRUE] ELSE u
           verified(u) == IF u.user_id = id THEN [u EXCEPT !.email_verified = TRUE] ELSE u
<1>1. \A u \in users :
        /\ granted(u).user_id = u.user_id /\ verified(u).user_id = u.user_id
        /\ granted(u).username = u.username /\ verified(u).username = u.username
        /\ granted(u).email = u.email /\ verified(u).email = u.email
  BY DEF KeysInv, TypeOK, UserTablesTypeOK, UserRow
<1>2. users' = {granted(u) : u \in users} \/ users' = {verified(u) : u \in users}
  BY DEF GrantAdminRole, MarkVerified
<1>3. \A u, t \in users : u.user_id = t.user_id => u = t
  BY DEF KeysInv, UserKeysAreUnique
<1> HIDE DEF granted, verified
<1> QED BY <1>1, <1>2, <1>3 DEF GrantAdminRole, MarkVerified

LEMMA KeysInvNext == KeysInv /\ [Next]_vars => KeysInv'
<1> SUFFICES ASSUME KeysInv, [Next]_vars PROVE KeysInv'
  OBVIOUS
<1>0. TypeInv'
  BY TypeInvNext DEF KeysInv
<1>1. ASSUME NEW r \in Requests, TakeId(r) PROVE KeysInv'
  <2>1. UserKeysAreUnique'
    BY <1>1 DEF TakeId, KeysInv, UserKeysAreUnique, TypeOK, UserTablesTypeOK
  <2>2. TakenIdsAreFree'
    BY <1>1 DEF TakeId, GoTo, KeysInv, UserKeysAreUnique, TakenIdsAreFree, TypeOK, UserTablesTypeOK
  <2> QED BY <1>0, <2>1, <2>2 DEF KeysInv
<1>2. ASSUME NEW r \in Requests, InsertUser(r) PROVE KeysInv'
  <2> DEFINE row == [user_id |-> InsertedId(r), username |-> form[r].username,
                     email |-> EmailOf(r), email_verified |-> FALSE,
                     administrator |-> FALSE]
  <2>1. users' = users \cup {row} /\ UserConflicts(form[r].username, EmailOf(r)) = {}
    BY <1>2 DEF InsertUser, InsertUserRows
  <2>2. /\ InsertedId(r) \in Nat \ {0}
        /\ InsertedId(r) < nextUserId \/ (RollbackFreesId /\ InsertedId(r) = nextUserId)
        /\ \A u \in users : u.user_id # InsertedId(r)
        /\ \A q \in Requests \ {r} : pc[q] = "profile" => uid[q] # InsertedId(r)
    BY <1>2, InsertedIdIsFree DEF InsertUser
  <2>3. /\ \A u \in users : u.username # form[r].username
        /\ EmailOf(r) # NoEmail => \A u \in users : u.email # EmailOf(r)
    BY <2>1 DEF UserConflicts
  <2>4. nextUserId \in Nat /\ nextUserId' \in Nat /\ nextUserId <= nextUserId'
        /\ InsertedId(r) < nextUserId'
    BY <1>2, <2>2 DEF InsertUser, KeysInv, TypeOK, UserTablesTypeOK
  <2>5. pc'[r] # "profile" /\ \A q \in Requests \ {r} : pc'[q] = pc[q] /\ uid'[q] = uid[q]
    <3>1. pc[r] \in Active /\ AfterInsertion(r, InsertedId(r)) /\ InsertedId(r) \in Nat
      BY <1>2, <2>2 DEF InsertUser, EndsInsertion
    <3>2. pc'[r] \in {"grant", "mail", "done"} /\ \A q \in Requests \ {r} : pc'[q] = pc[q]
      BY <3>1, AfterInsertionType DEF KeysInv
    <3> QED BY <1>2, <3>2 DEF InsertUser, KeysInv, TypeOK
  <2>6. UserKeysAreUnique'
    <3> DEFINE alike(u, v) == \/ u.user_id = v.user_id
                              \/ u.username = v.username
                              \/ u.email = v.email /\ u.email # NoEmail
    <3>1. \A u, v \in users : alike(u, v) => u = v
      BY DEF KeysInv, UserKeysAreUnique
    <3>2. \A u \in users : ~alike(u, row) /\ ~alike(row, u)
      BY <2>2, <2>3
    <3>3. \A u \in users : u.user_id \in 1 .. (nextUserId' - 1)
      BY <2>4 DEF KeysInv, UserKeysAreUnique
    <3>4. row.user_id \in 1 .. (nextUserId' - 1)
      BY <2>2, <2>4
    <3>5. \A u, v \in users' : alike(u, v) => u = v
      <4> HIDE DEF alike, row
      <4> QED BY <2>1, <3>1, <3>2
    <3>6. \A u \in users' : u.user_id \in 1 .. (nextUserId' - 1)
      <4> HIDE DEF row
      <4> QED BY <2>1, <3>3, <3>4
    <3> QED BY <3>5, <3>6 DEF UserKeysAreUnique
  <2>7. TakenIdsAreFree'
    BY <2>1, <2>2, <2>4, <2>5 DEF KeysInv, TakenIdsAreFree
  <2> QED BY <1>0, <2>6, <2>7 DEF KeysInv
<1>3. ASSUME NEW r \in Requests, GrantAdmin(r) PROVE KeysInv'
  <2>1. GrantAdminRole(uid[r]) /\ AfterGrant(r) /\ pc[r] \in Active /\ UNCHANGED uid
        /\ uid[r] \in Nat
    BY <1>3 DEF GrantAdmin, KeysInv, TypeOK
  <2>2. \A q \in Requests : pc'[q] = "profile" => pc[q] = "profile" /\ uid'[q] = uid[q]
    BY <2>1, AfterInsertionType DEF KeysInv
  <2> QED BY <1>0, <2>1, <2>2, RewriteKeepsKeys, SameKeys
<1>4. ASSUME NEW mail \in mails, VerifyEmail(mail) PROVE KeysInv'
  <2>1. MarkVerified(mail.sub) /\ UNCHANGED <<pc, uid>>
    BY <1>4 DEF VerifyEmail, handlers
  <2> QED BY <1>0, <2>1, RewriteKeepsKeys, SameKeys
<1>5. ASSUME NEW r \in Requests, Undo(r) PROVE KeysInv'
  <2>1. users' \subseteq users /\ UNCHANGED <<nextUserId, uid>>
    BY <1>5 DEF Undo, DeleteUserRows
  <2>2. \A q \in Requests : pc'[q] = "profile" => pc[q] = "profile" /\ uid'[q] = uid[q]
    BY <1>5 DEF Undo, Answer, KeysInv, TypeOK
  <2>3. \A v, w \in users' : v.user_id = w.user_id => v = w
    BY <2>1 DEF KeysInv, UserKeysAreUnique
  <2> QED BY <1>0, <2>1, <2>2, <2>3, SameKeys
<1>6. ASSUME NEW r \in Requests, LoseCommit(r) PROVE KeysInv'
  <2>1. /\ UNCHANGED <<users, nextUserId>>
        /\ pc[r] \in Active /\ AfterInsertion(r, InsertedId(r)) /\ InsertedId(r) \in Nat
    BY <1>6, InsertedIdIsFree DEF LoseCommit, EndsInsertion, userTables
  <2>2. pc'[r] \in {"grant", "mail", "done"} /\ \A q \in Requests \ {r} : pc'[q] = pc[q]
    BY <2>1, AfterInsertionType DEF KeysInv
  <2>3. \A q \in Requests : pc'[q] = "profile" => pc[q] = "profile" /\ uid'[q] = uid[q]
    BY <1>6, <2>2 DEF LoseCommit, KeysInv, TypeOK
  <2> QED BY <1>0, <2>1, <2>3, SameUsers
<1>7. ASSUME NEW r \in Requests, FailToGrant(r) PROVE KeysInv'
  <2>1. UNCHANGED <<users, nextUserId, uid>> /\ AfterGrant(r) /\ pc[r] \in Active
        /\ uid[r] \in Nat
    BY <1>7 DEF FailToGrant, userTables, KeysInv, TypeOK
  <2>2. \A q \in Requests : pc'[q] = "profile" => pc[q] = "profile" /\ uid'[q] = uid[q]
    BY <2>1, AfterInsertionType DEF KeysInv
  <2> QED BY <1>0, <2>1, <2>2, SameUsers
<1>8. ASSUME NEW r \in Requests,
             \/ Submit(r) \/ Reject(r) \/ RefuseUser(r) \/ SendMail(r) \/ FailToSendMail(r)
             \/ FailToUndo(r) \/ FailInDatabase(r) \/ Abandon(r)
      PROVE  KeysInv'
  <2>1. UNCHANGED <<users, nextUserId, uid>>
    BY <1>8 DEF Submit, Reject, RefuseUser, SendMail, FailToSendMail, FailToUndo,
       FailInDatabase, Abandon, userTables
  <2>2. \A q \in Requests : pc'[q] = "profile" => pc[q] = "profile"
    BY <1>8 DEF Submit, Reject, RefuseUser, SendMail, FailToSendMail, FailToUndo,
       FailInDatabase, Abandon, GoTo, Answer, KeysInv, TypeOK
  <2> QED BY <1>0, <2>1, <2>2, SameUsers
<1>9. CASE Registered \/ UNCHANGED vars
  BY <1>0, <1>9, SameUsers DEF Registered, vars, handlers, userTables
<1> QED BY <1>1, <1>2, <1>3, <1>4, <1>5, <1>6, <1>7, <1>8, <1>9
    DEF Next, RegistrationStep

\* No two users ever share an id, a name or an address, however registrations
\* overlap, in SQLite and in MySQL, and whatever fails (sqlite.rs:54-114).
THEOREM KeysStayUnique == Spec => []UserKeysAreUnique
<1>1. KeysInv => UserKeysAreUnique
  BY DEF KeysInv
<1> QED BY <1>1, KeysInvInit, KeysInvNext, PTL DEF Spec

-----------------------------------------------------------------------------
(* Mails *)

\* SQLite hands the id of a lost COMMIT out again: the one case left out.
CommitsAreKept == ~ ("commit" \in Faults /\ RollbackFreesId)

\* What a handler says of the username and the address of its account, and a mail
\* under way of the address, is right, and stays right because no insertion that
\* is still open holds the same id.
AccountsAgree ==
  /\ \A r \in Requests : pc[r] \in {"grant", "mail", "undo"} =>
       /\ uid[r] < nextUserId
       /\ \A u \in users : u.user_id = uid[r] =>
            u.username = form[r].username /\ u.email = EmailOf(r)
       /\ \A q \in Requests : pc[q] = "profile" => uid[q] # uid[r]
  /\ \A m \in mails :
       /\ m.sub < nextUserId
       /\ \A u \in users : u.user_id = m.sub => u.email = m.to
       /\ \A q \in Requests : pc[q] = "profile" => uid[q] # m.sub

MailInv == KeysInv /\ AccountsAgree /\ VerifiedByOwner

LEMMA MailInvInit == Init => MailInv
BY KeysInvInit DEF Init, UserTablesInit, MailInv, AccountsAgree, VerifiedByOwner

\* A step that adds no user, verifies none, sends no mail and takes no id.
LEMMA SameAccounts ==
  ASSUME MailInv, KeysInv', UNCHANGED <<nextUserId, form, mails>>,
         \A v \in users' : \E u \in users :
           /\ v.user_id = u.user_id /\ v.username = u.username
           /\ v.email = u.email /\ v.email_verified = u.email_verified,
         \A q \in Requests :
           /\ pc'[q] = "profile" => pc[q] = "profile" /\ uid'[q] = uid[q]
           /\ pc'[q] \in {"grant", "mail", "undo"} =>
                pc[q] \in {"grant", "mail", "undo"} /\ uid'[q] = uid[q]
  PROVE  MailInv'
<1>1. \A q \in Requests : EmailOf(q)' = EmailOf(q)
  BY DEF EmailOf
<1>2. AccountsAgree'
  BY <1>1 DEF MailInv, AccountsAgree
<1>3. VerifiedByOwner'
  BY DEF MailInv, VerifiedByOwner
<1> QED BY <1>2, <1>3 DEF MailInv

LEMMA MailInvNext ==
  ASSUME CommitsAreKept, MailInv, [Next]_vars PROVE MailInv'
<1>0. KeysInv'
  BY KeysInvNext DEF MailInv
<1>00. \A q \in Requests : uid[q] \in Nat
  BY DEF MailInv, KeysInv, TypeOK
<1>1. ASSUME NEW r \in Requests, TakeId(r) PROVE MailInv'
  <2>1. /\ nextUserId \in Nat /\ nextUserId' = nextUserId + 1
        /\ UNCHANGED <<users, form, mails>>
        /\ uid' = [uid EXCEPT ![r] = nextUserId] /\ pc' = [pc EXCEPT ![r] = "profile"]
    BY <1>1 DEF TakeId, GoTo, MailInv, KeysInv, TypeOK, UserTablesTypeOK
  <2>2. AccountsAgree'
    <3>1. \A q \in Requests : EmailOf(q)' = EmailOf(q)
      BY <2>1 DEF EmailOf
    <3>2. \A m \in mails : m.sub \in Nat
      BY DEF MailInv, KeysInv, TypeOK, Mail
    <3>3. \A q \in Requests \ {r} : pc'[q] = pc[q] /\ uid'[q] = uid[q]
      BY <2>1 DEF MailInv, KeysInv, TypeOK
    <3>4. pc'[r] = "profile" /\ uid'[r] = nextUserId
      BY <2>1 DEF MailInv, KeysInv, TypeOK
    <3> QED BY <2>1, <3>1, <3>2, <3>3, <3>4, <1>00 DEF MailInv, AccountsAgree
  <2>3. VerifiedByOwner'
    BY <2>1 DEF MailInv, VerifiedByOwner
  <2> QED BY <1>0, <2>2, <2>3 DEF MailInv
<1>2. ASSUME NEW r \in Requests, InsertUser(r) \/ LoseCommit(r) PROVE MailInv'
  <2>1. EndsInsertion(r) /\ AfterInsertion(r, InsertedId(r))
        /\ UNCHANGED <<form, mails>> /\ uid' = [uid EXCEPT ![r] = InsertedId(r)]
    BY <1>2 DEF InsertUser, LoseCommit
  <2>2. /\ InsertedId(r) \in Nat \ {0}
        /\ InsertedId(r) < nextUserId \/ (RollbackFreesId /\ InsertedId(r) = nextUserId)
        /\ \A u \in users : u.user_id # InsertedId(r)
        /\ \A q \in Requests \ {r} : pc[q] = "profile" => uid[q] # InsertedId(r)
    BY <2>1, InsertedIdIsFree DEF MailInv
  <2>3. /\ pc'[r] \in {"grant", "mail", "done"} /\ uid'[r] = InsertedId(r)
        /\ \A q \in Requests \ {r} : pc'[q] = pc[q] /\ uid'[q] = uid[q]
    <3>1. pc[r] \in Active
      BY <2>1 DEF EndsInsertion
    <3>2. pc'[r] \in {"grant", "mail", "done"} /\ \A q \in Requests \ {r} : pc'[q] = pc[q]
      BY <2>1, <2>2, <3>1, AfterInsertionType DEF MailInv, KeysInv
    <3> QED BY <2>1, <3>2 DEF MailInv, KeysInv, TypeOK
  <2>4. /\ nextUserId \in Nat /\ nextUserId' \in Nat /\ nextUserId <= nextUserId'
        /\ InsertedId(r) < nextUserId'
    BY <1>2, <2>2 DEF InsertUser, LoseCommit, userTables, CommitsAreKept,
       MailInv, KeysInv, TypeOK, UserTablesTypeOK
  <2>5. \A u \in users' : \/ u \in users
                          \/ /\ u.user_id = InsertedId(r) /\ u.username = form[r].username
                             /\ u.email = EmailOf(r) /\ ~u.email_verified
    BY <1>2 DEF InsertUser, InsertUserRows, LoseCommit, userTables
  <2>6. \A q \in Requests : EmailOf(q)' = EmailOf(q)
    BY <2>1 DEF EmailOf
  <2>7. \A m \in mails : m.sub \in Nat /\ m.sub # InsertedId(r)
    <3> SUFFICES ASSUME NEW m \in mails PROVE m.sub \in Nat /\ m.sub # InsertedId(r)
      OBVIOUS
    <3>1. m.sub \in Nat /\ m.sub < nextUserId
      BY DEF MailInv, AccountsAgree, KeysInv, TypeOK, Mail
    <3>2. ~RollbackFreesId => pc[r] = "profile" /\ InsertedId(r) = uid[r]
      BY <2>1 DEF EndsInsertion, InsertedId
    <3>3. RollbackFreesId => InsertedId(r) = nextUserId
      BY DEF InsertedId
    <3>4. pc[r] = "profile" => uid[r] # m.sub
      BY DEF MailInv, AccountsAgree
    <3> QED BY <2>4, <3>1, <3>2, <3>3, <3>4
  <2>8. \A q \in Requests : pc[q] \in {"grant", "mail", "undo"} => uid[q] # InsertedId(r)
    <3> SUFFICES ASSUME NEW q \in Requests, pc[q] \in {"grant", "mail", "undo"}
                 PROVE  uid[q] # InsertedId(r)
      OBVIOUS
    <3>1. uid[q] \in Nat /\ uid[q] < nextUserId
      BY <1>00 DEF MailInv, AccountsAgree
    <3>2. ~RollbackFreesId => pc[r] = "profile" /\ InsertedId(r) = uid[r]
      BY <2>1 DEF EndsInsertion, InsertedId
    <3>3. RollbackFreesId => InsertedId(r) = nextUserId
      BY DEF InsertedId
    <3>4. pc[r] = "profile" => uid[q] # uid[r]
      BY DEF MailInv, AccountsAgree
    <3> QED BY <2>4, <3>1, <3>2, <3>3, <3>4
  <2>9. ASSUME NEW q \in Requests, pc'[q] \in {"grant", "mail", "undo"}
        PROVE  /\ uid'[q] < nextUserId'
               /\ \A u \in users' : u.user_id = uid'[q] =>
                    u.username = form[q].username /\ u.email = EmailOf(q)
               /\ \A p \in Requests : pc'[p] = "profile" => uid'[p] # uid'[q]
    <3>1. CASE q = r
      BY <2>2, <2>3, <2>4, <2>5, <3>1
    <3>2. CASE q # r
      <4>1. pc[q] \in {"grant", "mail", "undo"} /\ uid'[q] = uid[q] /\ uid[q] \in Nat
        BY <2>3, <2>9, <3>2, <1>00
      <4>2. /\ uid[q] < nextUserId /\ uid[q] # InsertedId(r)
            /\ \A u \in users : u.user_id = uid[q] =>
                 u.username = form[q].username /\ u.email = EmailOf(q)
            /\ \A p \in Requests : pc[p] = "profile" => uid[p] # uid[q]
        BY <2>8, <4>1 DEF MailInv, AccountsAgree
      <4> QED BY <2>3, <2>4, <2>5, <4>1, <4>2
    <3> QED BY <3>1, <3>2
  <2>10. ASSUME NEW m \in mails
         PROVE  /\ m.sub < nextUserId'
                /\ \A u \in users' : u.user_id = m.sub => u.email = m.to
                /\ \A p \in Requests : pc'[p] = "profile" => uid'[p] # m.sub
    BY <2>3, <2>4, <2>5, <2>7 DEF MailInv, AccountsAgree
  <2>11. AccountsAgree'
    BY <2>1, <2>6, <2>9, <2>10 DEF AccountsAgree
  <2>12. VerifiedByOwner'
    BY <2>1, <2>5 DEF MailInv, VerifiedByOwner
  <2> QED BY <1>0, <2>11, <2>12 DEF MailInv
<1>3. ASSUME NEW r \in Requests, GrantAdmin(r) \/ FailToGrant(r) PROVE MailInv'
  <2>1. AfterGrant(r) /\ pc[r] = "grant" /\ UNCHANGED <<nextUserId, form, uid, mails>>
        /\ uid[r] \in Nat
    BY <1>3, <1>00 DEF GrantAdmin, FailToGrant, GrantAdminRole, userTables
  <2>2. \A v \in users' : \E u \in users :
          /\ v.user_id = u.user_id /\ v.username = u.username
          /\ v.email = u.email /\ v.email_verified = u.email_verified
    BY <1>3 DEF GrantAdmin, FailToGrant, GrantAdminRole, userTables,
       MailInv, KeysInv, TypeOK, UserTablesTypeOK, UserRow
  <2>3. pc'[r] \in {"grant", "mail", "done"} /\ \A q \in Requests \ {r} : pc'[q] = pc[q]
    BY <2>1, AfterInsertionType DEF MailInv, KeysInv
  <2>4. \A q \in Requests :
          /\ pc'[q] = "profile" => pc[q] = "profile" /\ uid'[q] = uid[q]
          /\ pc'[q] \in {"grant", "mail", "undo"} =>
               pc[q] \in {"grant", "mail", "undo"} /\ uid'[q] = uid[q]
    BY <2>1, <2>3
  <2> QED BY <1>0, <2>1, <2>2, <2>4, SameAccounts
<1>4. ASSUME NEW r \in Requests, SendMail(r) \/ FailToSendMail(r) PROVE MailInv'
  <2>1. /\ pc[r] = "mail" /\ UNCHANGED <<users, nextUserId, form, uid>>
        /\ mails' = mails \cup {[to |-> EmailOf(r), sub |-> uid[r]]} \/ UNCHANGED mails
    BY <1>4 DEF SendMail, FailToSendMail, Deliver, userTables
  <2>2. /\ pc'[r] \in {"undo", "done"}
        /\ \A q \in Requests \ {r} : pc'[q] = pc[q]
    BY <1>4 DEF SendMail, FailToSendMail, GoTo, Answer, MailInv, KeysInv, TypeOK
  <2>3. \A q \in Requests : EmailOf(q)' = EmailOf(q)
    BY <2>1 DEF EmailOf
  <2>4. AccountsAgree'
    BY <2>1, <2>2, <2>3 DEF MailInv, AccountsAgree
  <2>5. VerifiedByOwner'
    BY <2>1 DEF MailInv, VerifiedByOwner
  <2> QED BY <1>0, <2>4, <2>5 DEF MailInv
<1>5. ASSUME NEW mail \in mails, VerifyEmail(mail) PROVE MailInv'
  <2> DEFINE verified(u) == IF u.user_id = mail.sub THEN [u EXCEPT !.email_verified = TRUE] ELSE u
  <2>1. users' = {verified(u) : u \in users} /\ UNCHANGED <<nextUserId, pc, form, uid, mails>>
    BY <1>5 DEF VerifyEmail, MarkVerified, handlers
  <2>2. \A u \in users : /\ verified(u).user_id = u.user_id
                         /\ verified(u).username = u.username
                         /\ verified(u).email = u.email
                         /\ u.user_id # mail.sub => verified(u) = u
    BY DEF MailInv, KeysInv, TypeOK, UserTablesTypeOK, UserRow
  <2>3. \A q \in Requests : EmailOf(q)' = EmailOf(q)
    BY <2>1 DEF EmailOf
  <2>4. AccountsAgree'
    <3> HIDE DEF verified
    <3> QED BY <2>1, <2>2, <2>3 DEF MailInv, AccountsAgree
  <2>5. VerifiedByOwner'
    <3>1. [to |-> mail.to, sub |-> mail.sub] = mail
      BY DEF MailInv, KeysInv, TypeOK, Mail
    <3>2. \A u \in users : u.user_id = mail.sub => u.email = mail.to
      BY DEF MailInv, AccountsAgree
    <3> HIDE DEF verified
    <3> QED BY <2>1, <2>2, <3>1, <3>2 DEF MailInv, VerifiedByOwner
  <2> QED BY <1>0, <2>4, <2>5 DEF MailInv
<1>6. ASSUME NEW r \in Requests, Undo(r) PROVE MailInv'
  <2>1. users' \subseteq users /\ UNCHANGED <<nextUserId, form, uid, mails>>
    BY <1>6 DEF Undo, DeleteUserRows
  <2>2. \A q \in Requests :
          /\ pc'[q] = "profile" => pc[q] = "profile" /\ uid'[q] = uid[q]
          /\ pc'[q] \in {"grant", "mail", "undo"} =>
               pc[q] \in {"grant", "mail", "undo"} /\ uid'[q] = uid[q]
    BY <1>6, <2>1 DEF Undo, Answer, MailInv, KeysInv, TypeOK
  <2> QED BY <1>0, <2>1, <2>2, SameAccounts
<1>7. ASSUME NEW r \in Requests,
             Reject(r) \/ RefuseUser(r) \/ FailToUndo(r) \/ FailInDatabase(r) \/ Abandon(r)
      PROVE  MailInv'
  <2>1. UNCHANGED <<users, nextUserId, form, uid, mails>>
    BY <1>7 DEF Reject, RefuseUser, FailToUndo, FailInDatabase, Abandon, userTables
  <2>2. pc' = [pc EXCEPT ![r] = "done"]
    BY <1>7 DEF Reject, RefuseUser, FailToUndo, FailInDatabase, Abandon, Answer
  <2>3. \A q \in Requests :
          /\ pc'[q] = "profile" => pc[q] = "profile" /\ uid'[q] = uid[q]
          /\ pc'[q] \in {"grant", "mail", "undo"} =>
               pc[q] \in {"grant", "mail", "undo"} /\ uid'[q] = uid[q]
    BY <2>1, <2>2 DEF MailInv, KeysInv, TypeOK
  <2> QED BY <1>0, <2>1, <2>3, SameAccounts
<1>8. ASSUME NEW r \in Requests, Submit(r) PROVE MailInv'
  <2>1. /\ pc[r] = "idle" /\ pc' = [pc EXCEPT ![r] = "insert"]
        /\ \A q \in Requests \ {r} : form'[q] = form[q]
        /\ UNCHANGED <<users, nextUserId, uid, mails>>
    BY <1>8 DEF Submit, GoTo, userTables, MailInv, KeysInv, TypeOK
  <2>2. \A q \in Requests \ {r} : pc'[q] = pc[q] /\ EmailOf(q)' = EmailOf(q)
    BY <2>1 DEF EmailOf, MailInv, KeysInv, TypeOK
  <2>3. pc'[r] = "insert"
    BY <2>1 DEF MailInv, KeysInv, TypeOK
  <2>4. AccountsAgree'
    BY <2>1, <2>2, <2>3 DEF MailInv, AccountsAgree
  <2>5. VerifiedByOwner'
    BY <2>1 DEF MailInv, VerifiedByOwner
  <2> QED BY <1>0, <2>4, <2>5 DEF MailInv
<1>9. CASE Registered \/ UNCHANGED vars
  BY <1>0, <1>9, SameAccounts DEF Registered, vars, handlers, userTables
<1> QED BY <1>1, <1>2, <1>3, <1>4, <1>5, <1>6, <1>7, <1>8, <1>9
    DEF Next, RegistrationStep

\* Unless a COMMIT is lost in SQLite, an address is verified only by a link that
\* was mailed to it for the account that bears it, although the link names the
\* account by id alone and outlives it (services/user.rs:156-184).
THEOREM OnlyOwnersVerify ==
  ASSUME CommitsAreKept
  PROVE  Spec => []VerifiedByOwner
<1>1. MailInv => VerifiedByOwner
  BY DEF MailInv
<1>2. MailInv /\ [Next]_vars => MailInv'
  BY MailInvNext
<1> QED BY <1>1, <1>2, MailInvInit, PTL DEF Spec

-----------------------------------------------------------------------------
(* The undoing of registrations *)

\* Only the undoing of a registration deletes users, those with the id it holds.
LEMMA OnlyUndoDeletes ==
  ASSUME MailInv, NEW r \in Requests, RegistrationStep(r),
         NEW u \in users, UsersWithId(u.user_id)' = {}
  PROVE  Undo(r) /\ u.user_id = uid[r]
<1>1. \A v \in users' : v.user_id # u.user_id
  BY DEF UsersWithId
<1>2. ~ (users \subseteq users')
  BY <1>1
<1>3. ASSUME GrantAdmin(r) PROVE FALSE
  <2> DEFINE granted(w) == IF w.user_id = uid[r] THEN [w EXCEPT !.administrator = TRUE] ELSE w
  <2>1. users' = {granted(w) : w \in users}
    BY <1>3 DEF GrantAdmin, GrantAdminRole
  <2>2. granted(u).user_id = u.user_id
    BY DEF MailInv, KeysInv, TypeInv, TypeOK, UserTablesTypeOK, UserRow
  <2>3. granted(u) \in users'
    BY <2>1
  <2> QED BY <1>1, <2>2, <2>3
<1>4. ASSUME Undo(r) PROVE u.user_id = uid[r]
  BY <1>1, <1>4 DEF Undo, DeleteUserRows, UsersWithId
<1>5. ASSUME InsertUser(r) PROVE FALSE
  BY <1>2, <1>5 DEF InsertUser, InsertUserRows
<1>6. ASSUME \/ Submit(r) \/ Reject(r) \/ TakeId(r) \/ RefuseUser(r) \/ LoseCommit(r)
             \/ FailToGrant(r) \/ SendMail(r) \/ FailToSendMail(r) \/ FailToUndo(r)
             \/ FailInDatabase(r) \/ Abandon(r)
      PROVE  FALSE
  BY <1>2, <1>6 DEF Submit, Reject, TakeId, RefuseUser, LoseCommit, FailToGrant, SendMail,
     FailToSendMail, FailToUndo, FailInDatabase, Abandon, userTables
<1> QED BY <1>3, <1>4, <1>5, <1>6 DEF RegistrationStep

\* Unless a COMMIT is lost in SQLite, a registration that could not be mailed
\* deletes its own account and no other, although it deletes by an id it has held
\* since before the mail (services/user.rs:138-143).
THEOREM RegistrationsUndoOnlyThemselves ==
  ASSUME CommitsAreKept
  PROVE  Spec => RegistrationRemovesOnlyItsOwn
<1>1. ASSUME MailInv, NEW r \in Requests, RegistrationStep(r),
             NEW u \in users, UsersWithId(u.user_id)' = {}
      PROVE  u.username = form[r].username /\ u.user_id = uid[r]
  <2>1. Undo(r) /\ u.user_id = uid[r]
    BY <1>1, OnlyUndoDeletes
  <2> QED BY <1>1, <2>1 DEF Undo, MailInv, AccountsAgree
<1>2. MailInv =>
        [\A r \in Requests : RegistrationStep(r) =>
           \A u \in users : UsersWithId(u.user_id)' = {} =>
             u.username = form[r].username /\ u.user_id = uid[r]]_vars
  BY <1>1
<1>3. MailInv /\ [Next]_vars => MailInv'
  BY MailInvNext
<1> QED BY <1>2, <1>3, MailInvInit, PTL DEF Spec, RegistrationRemovesOnlyItsOwn

-----------------------------------------------------------------------------
(* What the answers promise: an account for a success, none for a refusal. *)
(* A handler holds the id of its account while others register and undo,   *)
(* and that id must stay its own also after it has answered.               *)

USE RegistrationAssumption

HasAccount(r) ==
  \E u \in users : u.user_id = uid[r] /\ u.username = form[r].username

\* An id is held by one request only, and is not given out any more.
IdsAreOwn ==
  \A r \in Requests : uid[r] # 0 =>
    /\ uid[r] < nextUserId
    /\ \A q \in Requests \ {r} : uid[q] # uid[r]

\* An answer is the last step, and there is no id before the insertion.
HandlersAreOrderly ==
  \A r \in Requests :
    /\ pc[r] \in {"idle", "insert"} => uid[r] = 0
    /\ response[r] # "none" => pc[r] = "done"

\* The account of a request that has one as long as no error is dropped.
Created(r) == pc[r] \in {"grant", "mail"} \/ response[r] = "created"

CreatedExist == \A r \in Requests \ dropped : Created(r) => HasAccount(r)

RefusedAreGone ==
  \A r \in Requests \ dropped : response[r] \in Refusals => \A u \in users : u.user_id # uid[r]

AnswersInv == KeysInv /\ IdsAreOwn /\ HandlersAreOrderly /\ CreatedExist /\ RefusedAreGone

LEMMA AnswersInvInit == Init => AnswersInv
BY KeysInvInit DEF Init, UserTablesInit, AnswersInv, IdsAreOwn, HandlersAreOrderly, CreatedExist,
   RefusedAreGone, Created, Refusals

-----------------------------------------------------------------------------
(* What a step of a handler does to the others *)

\* The handler keeps its id or gets a fresh one; a new user has that id, and a
\* user that is gone had it.
OneMoves(r) ==
  /\ \A q \in Requests \ {r} :
       /\ pc'[q] = pc[q] /\ uid'[q] = uid[q] /\ response'[q] = response[q] /\ form'[q] = form[q]
       /\ q \in dropped' <=> q \in dropped
  /\ \/ uid'[r] = uid[r] /\ nextUserId' = nextUserId
     \/ uid'[r] = nextUserId /\ nextUserId' = nextUserId + 1
  /\ \A v \in users' : \/ \E u \in users : u.user_id = v.user_id
                       \/ v.user_id = uid'[r] /\ uid'[r] # 0
  /\ \A u \in users : \/ \E v \in users' : v.user_id = u.user_id /\ v.username = u.username
                      \/ u.user_id = uid[r] /\ uid[r] # 0 /\ uid'[r] = uid[r]

LEMMA OthersKeep ==
  ASSUME AnswersInv, KeysInv', NEW r \in Requests, OneMoves(r)
  PROVE  /\ IdsAreOwn'
         /\ \A q \in Requests \ {r} :
              /\ pc'[q] \in {"idle", "insert"} => uid'[q] = 0
              /\ response'[q] # "none" => pc'[q] = "done"
              /\ q \notin dropped' /\ Created(q)' => HasAccount(q)'
              /\ q \notin dropped' /\ response'[q] \in Refusals => \A u \in users' : u.user_id # uid'[q]
<1>1. /\ nextUserId \in Nat \ {0} /\ \A q \in Requests : uid[q] \in Nat
      /\ \A u \in users : u.user_id \in 1 .. (nextUserId - 1)
  BY DEF AnswersInv, KeysInv, TypeOK, UserTablesTypeOK, UserKeysAreUnique
<1>2. \A q \in Requests : uid[q] # 0 =>
        uid[q] < nextUserId /\ \A p \in Requests \ {q} : uid[p] # uid[q]
  BY DEF AnswersInv, IdsAreOwn
<1>3. IdsAreOwn'
  <2>1. CASE uid'[r] = uid[r] /\ nextUserId' = nextUserId
    <3>1. \A q \in Requests : uid'[q] = uid[q]
      BY <2>1 DEF OneMoves
    <3> QED BY <1>2, <2>1, <3>1 DEF IdsAreOwn
  <2>2. CASE uid'[r] = nextUserId /\ nextUserId' = nextUserId + 1
    <3>1. \A q \in Requests \ {r} : uid'[q] = uid[q]
      BY DEF OneMoves
    <3> QED BY <1>1, <1>2, <2>2, <3>1 DEF IdsAreOwn
  <2> QED BY <2>1, <2>2 DEF OneMoves
<1>4. ASSUME NEW q \in Requests \ {r}, q \notin dropped', Created(q)'
      PROVE  HasAccount(q)'
  <2>1. HasAccount(q) /\ uid'[q] = uid[q] /\ form'[q] = form[q]
    BY <1>4 DEF AnswersInv, CreatedExist, Created, OneMoves
  <2>2. PICK u \in users : u.user_id = uid[q] /\ u.username = form[q].username
    BY <2>1 DEF HasAccount
  <2>3. u.user_id # uid[r]
    BY <1>1, <1>2, <2>2
  <2>4. PICK v \in users' : v.user_id = u.user_id /\ v.username = u.username
    BY <2>3 DEF OneMoves
  <2> QED BY <2>1, <2>2, <2>4 DEF HasAccount
<1>5. ASSUME NEW q \in Requests \ {r}, q \notin dropped', response'[q] \in Refusals,
             NEW v \in users'
      PROVE  v.user_id # uid'[q]
  <2>1. /\ uid'[q] = uid[q] /\ \A u \in users : u.user_id # uid[q]
    BY <1>5 DEF AnswersInv, RefusedAreGone, OneMoves
  <2>2. uid'[r] # 0 => uid'[r] # uid[q]
    BY <1>1, <1>2 DEF OneMoves
  <2> QED BY <2>1, <2>2 DEF OneMoves
<1>6. \A q \in Requests \ {r} :
        /\ pc'[q] \in {"idle", "insert"} => uid'[q] = 0
        /\ response'[q] # "none" => pc'[q] = "done"
  BY DEF AnswersInv, HandlersAreOrderly, OneMoves
<1> QED BY <1>3, <1>4, <1>5, <1>6

\* It is left to show what a step does to its own handler.
LEMMA OwnIsEnough ==
  ASSUME AnswersInv, KeysInv', NEW r \in Requests, OneMoves(r),
         pc'[r] \in {"idle", "insert"} => uid'[r] = 0,
         response'[r] # "none" => pc'[r] = "done",
         r \notin dropped' /\ Created(r)' => HasAccount(r)',
         r \notin dropped' /\ response'[r] \in Refusals => \A u \in users' : u.user_id # uid'[r]
  PROVE  AnswersInv'
BY OthersKeep DEF AnswersInv, HandlersAreOrderly, CreatedExist, RefusedAreGone

-----------------------------------------------------------------------------
(* The steps *)

LEMMA AnswersInvNext ==
  ASSUME CommitsAreKept, AnswersInv, [Next]_vars PROVE AnswersInv'
<1>0. KeysInv'
  BY KeysInvNext DEF AnswersInv
<1>1. /\ nextUserId \in Nat \ {0} /\ users \subseteq UserRow
      /\ pc \in [Requests -> {"idle", "insert", "profile", "grant", "mail", "undo", "done"}]
      /\ uid \in [Requests -> Nat]
      /\ form \in [Requests -> Form \cup {NoForm}]
      /\ response \in [Requests -> {"none", "created", "abandoned"} \cup Refusals]
      /\ dropped \in SUBSET Requests
      /\ \A u \in users : u.user_id # 0
  BY DEF AnswersInv, KeysInv, TypeOK, UserTablesTypeOK, UserKeysAreUnique
<1>2. \A r \in Requests : /\ pc[r] \in {"idle", "insert"} => uid[r] = 0
                          /\ pc[r] # "done" => response[r] = "none"
                          /\ r \notin dropped /\ Created(r) => HasAccount(r)
                          /\ r \notin dropped /\ response[r] \in Refusals =>
                               \A u \in users : u.user_id # uid[r]
  BY DEF AnswersInv, HandlersAreOrderly, CreatedExist, RefusedAreGone
<1>3. ASSUME NEW r \in Requests, Submit(r) PROVE AnswersInv'
  <2>1. OneMoves(r)
    BY <1>1, <1>3 DEF Submit, GoTo, OneMoves, userTables
  <2>2. uid'[r] = 0 /\ response'[r] = "none" /\ ~Created(r)'
    BY <1>1, <1>2, <1>3 DEF Submit, GoTo, Created
  <2> QED BY <1>0, <2>1, <2>2, OwnIsEnough DEF Refusals
<1>4. ASSUME NEW r \in Requests, Reject(r) PROVE AnswersInv'
  <2>1. OneMoves(r)
    BY <1>1, <1>4 DEF Reject, Answer, OneMoves, userTables
  <2>2. pc'[r] = "done" /\ response'[r] = "rejected" /\ uid'[r] = 0 /\ users' = users
    BY <1>1, <1>2, <1>4 DEF Reject, Answer, userTables
  <2> QED BY <1>0, <1>1, <2>1, <2>2, OwnIsEnough DEF Created
<1>5. ASSUME NEW r \in Requests, TakeId(r) PROVE AnswersInv'
  <2>1. OneMoves(r)
    BY <1>1, <1>5 DEF TakeId, GoTo, OneMoves
  <2>2. pc'[r] = "profile" /\ response'[r] = "none"
    BY <1>1, <1>2, <1>5 DEF TakeId, GoTo
  <2> QED BY <1>0, <2>1, <2>2, OwnIsEnough DEF Created, Refusals
<1>6. ASSUME NEW r \in Requests, EndsInsertion(r)
      PROVE  /\ InsertedId(r) \in Nat \ {0} /\ \A u \in users : u.user_id # InsertedId(r)
             /\ InsertedId(r) = IF RollbackFreesId THEN nextUserId ELSE uid[r]
             /\ \A u \in users : u.user_id # uid[r]
             /\ pc[r] \in {"insert", "profile"}
  <2>1. /\ InsertedId(r) \in Nat \ {0} /\ \A u \in users : u.user_id # InsertedId(r)
    BY <1>6, InsertedIdIsFree DEF AnswersInv
  <2> QED BY <1>1, <1>2, <1>6, <2>1 DEF EndsInsertion, InsertedId
<1>7. ASSUME NEW r \in Requests, InsertUser(r) PROVE AnswersInv'
  <2> DEFINE row == [user_id |-> InsertedId(r), username |-> form[r].username,
                     email |-> EmailOf(r), email_verified |-> FALSE, administrator |-> FALSE]
  <2>1. /\ users' = users \cup {row} /\ uid' = [uid EXCEPT ![r] = InsertedId(r)]
        /\ nextUserId' = IF RollbackFreesId THEN nextUserId + 1 ELSE nextUserId
        /\ UNCHANGED <<form, dropped>> /\ AfterInsertion(r, InsertedId(r))
    BY <1>7 DEF InsertUser, InsertUserRows
  <2>2. /\ InsertedId(r) \in Nat \ {0} /\ pc[r] \in {"insert", "profile"}
        /\ InsertedId(r) = IF RollbackFreesId THEN nextUserId ELSE uid[r]
    BY <1>6, <1>7 DEF InsertUser
  <2>3. uid'[r] = InsertedId(r) /\ \A q \in Requests \ {r} : uid'[q] = uid[q]
    BY <1>1, <2>1
  <2>4. /\ pc'[r] \in {"grant", "mail", "done"} /\ response'[r] \in {"none", "created"}
        /\ response'[r] # "none" => pc'[r] = "done"
        /\ \A q \in Requests \ {r} : pc'[q] = pc[q] /\ response'[q] = response[q]
    BY <1>1, <1>2, <2>1, <2>2 DEF AfterInsertion, AfterGrant, GoTo, Answer
  <2>5. OneMoves(r)
    BY <2>1, <2>2, <2>3, <2>4 DEF OneMoves
  <2>6. HasAccount(r)'
    <3>1. row \in users' /\ row.user_id = uid'[r] /\ row.username = form'[r].username
      BY <2>1, <2>3
    <3> HIDE DEF row
    <3> QED BY <3>1 DEF HasAccount
  <2>7. pc'[r] \notin {"idle", "insert"} /\ response'[r] \notin Refusals
    BY <2>4 DEF Refusals
  <2> QED BY <1>0, <2>4, <2>5, <2>6, <2>7, OwnIsEnough
<1>8. ASSUME NEW r \in Requests, LoseCommit(r) PROVE AnswersInv'
  <2>1. /\ ~RollbackFreesId /\ uid' = [uid EXCEPT ![r] = InsertedId(r)]
        /\ UNCHANGED <<userTables, form>> /\ dropped' = dropped \cup {r}
        /\ AfterInsertion(r, InsertedId(r))
    BY <1>8 DEF LoseCommit, CommitsAreKept
  <2>2. InsertedId(r) = uid[r] /\ pc[r] \in {"insert", "profile"}
    BY <1>6, <1>8, <2>1 DEF LoseCommit
  <2>3. \A q \in Requests : uid'[q] = uid[q]
    BY <1>1, <2>1, <2>2
  <2>4. /\ pc'[r] \in {"grant", "mail", "done"} /\ response'[r] \in {"none", "created"}
        /\ response'[r] # "none" => pc'[r] = "done"
        /\ \A q \in Requests \ {r} : pc'[q] = pc[q] /\ response'[q] = response[q]
    BY <1>1, <1>2, <2>1, <2>2 DEF AfterInsertion, AfterGrant, GoTo, Answer
  <2>5. OneMoves(r)
    BY <2>1, <2>3, <2>4 DEF OneMoves, userTables
  <2> QED BY <1>0, <2>1, <2>4, <2>5, OwnIsEnough
<1>9. ASSUME NEW r \in Requests, RefuseUser(r) \/ FailInDatabase(r) PROVE AnswersInv'
  <2>1. /\ EndsInsertion(r) /\ UNCHANGED <<users, nextUserId, form, uid, dropped>>
        /\ \E answer \in {"username_taken", "email_taken", "error"} : Answer(r, answer)
    BY <1>9 DEF RefuseUser, FailInDatabase, UserConflicts, userTables
  <2>2. OneMoves(r)
    BY <1>1, <2>1 DEF Answer, OneMoves
  <2>3. pc'[r] = "done" /\ response'[r] # "created" /\ \A u \in users : u.user_id # uid[r]
    BY <1>1, <1>6, <2>1 DEF Answer
  <2> QED BY <1>0, <2>1, <2>2, <2>3, OwnIsEnough DEF Created
<1>10. ASSUME NEW r \in Requests, GrantAdmin(r) \/ FailToGrant(r) PROVE AnswersInv'
  <2>1. /\ pc[r] = "grant" /\ AfterGrant(r) /\ UNCHANGED <<nextUserId, form, uid>>
        /\ dropped' = dropped \/ (dropped' = dropped \cup {r} /\ users' = users)
    BY <1>10 DEF GrantAdmin, FailToGrant, GrantAdminRole, userTables
  <2>2. /\ \A v \in users' : \E u \in users : v.user_id = u.user_id
        /\ \A u \in users : \E v \in users' : v.user_id = u.user_id /\ v.username = u.username
    <3> DEFINE granted(u) == IF u.user_id = uid[r] THEN [u EXCEPT !.administrator = TRUE] ELSE u
    <3>1. users' = users \/ users' = {granted(u) : u \in users}
      BY <1>10 DEF GrantAdmin, FailToGrant, GrantAdminRole, userTables
    <3>2. \A u \in users : granted(u).user_id = u.user_id /\ granted(u).username = u.username
      BY <1>1 DEF UserRow
    <3> HIDE DEF granted
    <3> QED BY <3>1, <3>2
  <2>3. /\ pc'[r] \in {"mail", "done"} /\ response'[r] \in {"none", "created"}
        /\ response'[r] # "none" => pc'[r] = "done"
        /\ \A q \in Requests \ {r} : pc'[q] = pc[q] /\ response'[q] = response[q]
    BY <1>1, <1>2, <2>1 DEF AfterGrant, GoTo, Answer
  <2>4. OneMoves(r)
    BY <2>1, <2>2, <2>3 DEF OneMoves
  <2>5. r \notin dropped' => HasAccount(r)'
    <3>1. r \notin dropped' => HasAccount(r)
      BY <1>2, <2>1 DEF Created
    <3> QED BY <2>1, <2>2, <3>1 DEF HasAccount
  <2> QED BY <1>0, <2>3, <2>4, <2>5, OwnIsEnough DEF Refusals
<1>11. ASSUME NEW r \in Requests, SendMail(r) \/ FailToSendMail(r) PROVE AnswersInv'
  <2>1. /\ pc[r] = "mail" /\ UNCHANGED <<users, nextUserId, form, uid, dropped>>
        /\ Answer(r, "created") \/ GoTo(r, "undo")
    BY <1>11 DEF SendMail, FailToSendMail, userTables
  <2>2. OneMoves(r)
    BY <1>1, <2>1 DEF Answer, GoTo, OneMoves
  <2>3. /\ pc'[r] \in {"undo", "done"} /\ response'[r] \in {"none", "created"}
        /\ response'[r] # "none" => pc'[r] = "done"
    BY <1>1, <1>2, <2>1 DEF Answer, GoTo
  <2>4. r \notin dropped' => HasAccount(r)'
    BY <1>2, <2>1 DEF Created, HasAccount
  <2> QED BY <1>0, <2>2, <2>3, <2>4, OwnIsEnough DEF Refusals
<1>12. ASSUME NEW r \in Requests, Undo(r) PROVE AnswersInv'
  <2>1. /\ users' = users \ UsersWithId(uid[r]) /\ UNCHANGED <<nextUserId, form, uid, dropped>>
        /\ Answer(r, "mail_failed")
    BY <1>12 DEF Undo, DeleteUserRows
  <2>2. \A u \in users : u \in users' \/ (u.user_id = uid[r] /\ uid[r] # 0)
    BY <1>1, <2>1 DEF UsersWithId
  <2>3. OneMoves(r)
    BY <1>1, <2>1, <2>2 DEF Answer, OneMoves
  <2>4. pc'[r] = "done" /\ response'[r] = "mail_failed" /\ \A u \in users' : u.user_id # uid'[r]
    BY <1>1, <2>1 DEF Answer, UsersWithId
  <2> QED BY <1>0, <2>3, <2>4, OwnIsEnough DEF Created
<1>13. ASSUME NEW r \in Requests, FailToUndo(r) \/ Abandon(r) PROVE AnswersInv'
  <2>1. /\ UNCHANGED <<users, nextUserId, form, uid>>
        /\ \/ Answer(r, "mail_failed") /\ dropped' = dropped \cup {r}
           \/ Answer(r, "abandoned") /\ UNCHANGED dropped
    BY <1>13 DEF FailToUndo, Abandon, userTables
  <2>2. OneMoves(r)
    BY <1>1, <2>1 DEF Answer, OneMoves
  <2>3. pc'[r] = "done" /\ ~Created(r)' /\ (r \in dropped' \/ response'[r] \notin Refusals)
    BY <1>1, <2>1 DEF Answer, Created, Refusals
  <2> QED BY <1>0, <2>2, <2>3, OwnIsEnough
<1>14. ASSUME NEW mail \in mails, VerifyEmail(mail) PROVE AnswersInv'
  <2> DEFINE verified(u) == IF u.user_id = mail.sub THEN [u EXCEPT !.email_verified = TRUE] ELSE u
  <2>1. users' = {verified(u) : u \in users} /\ UNCHANGED <<nextUserId, pc, form, uid, response, dropped>>
    BY <1>14 DEF VerifyEmail, MarkVerified, handlers
  <2>2. \A u \in users : verified(u).user_id = u.user_id /\ verified(u).username = u.username
    BY <1>1 DEF UserRow
  <2> HIDE DEF verified
  <2>3. \A r \in Requests : HasAccount(r) => HasAccount(r)'
    BY <2>1, <2>2 DEF HasAccount
  <2>4. IdsAreOwn' /\ HandlersAreOrderly'
    BY <2>1 DEF AnswersInv, IdsAreOwn, HandlersAreOrderly
  <2>5. CreatedExist'
    BY <2>1, <2>3 DEF AnswersInv, CreatedExist, Created
  <2>6. RefusedAreGone'
    BY <2>1, <2>2 DEF AnswersInv, RefusedAreGone
  <2> QED BY <1>0, <2>4, <2>5, <2>6 DEF AnswersInv
<1>15. CASE Registered \/ UNCHANGED vars
  BY <1>0, <1>15 DEF Registered, vars, handlers, userTables, AnswersInv, IdsAreOwn,
     HandlersAreOrderly, CreatedExist, Created, HasAccount, RefusedAreGone
<1> QED BY <1>3, <1>4, <1>5, <1>7, <1>8, <1>9, <1>10, <1>11, <1>12, <1>13, <1>14, <1>15
    DEF Next, RegistrationStep

\* Unless a COMMIT is lost in SQLite, a registration that was answered with success
\* and dropped no error has its account: no other registration that is undone takes
\* it along (services/user.rs:97-153).
THEOREM AckedRegistrationsExist ==
  ASSUME CommitsAreKept
  PROVE  Spec => []AckedRegistrationExists
<1>1. AnswersInv => AckedRegistrationExists
  BY DEF AnswersInv, CreatedExist, Created, HasAccount, AckedRegistrationExists
<1>2. AnswersInv /\ [Next]_vars => AnswersInv'
  BY AnswersInvNext
<1> QED BY <1>1, <1>2, AnswersInvInit, PTL DEF Spec

\* Unless a COMMIT is lost in SQLite, a registration that was refused leaves no
\* account, and none takes its place under its id, unless the handler dropped the
\* error of the deletion (services/user.rs:138-143).
THEOREM RefusedRegistrationsAreUndone ==
  ASSUME CommitsAreKept
  PROVE  Spec => []RefusedRegistrationIsUndone
<1>1. AnswersInv => RefusedRegistrationIsUndone
  BY DEF AnswersInv, RefusedAreGone, RefusedRegistrationIsUndone
<1>2. AnswersInv /\ [Next]_vars => AnswersInv'
  BY AnswersInvNext
<1> QED BY <1>1, <1>2, AnswersInvInit, PTL DEF Spec

=============================================================================
