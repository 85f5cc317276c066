----------------------------- MODULE UserTables -----------------------------
(***************************************************************************)
(* The users of the index: torrust_users with torrust_user_profiles, whose *)
(* rows are inserted in one transaction and deleted together by the        *)
(* foreign keys, and the statements that change them.                      *)
(***************************************************************************)
EXTENDS Naturals

CONSTANTS
  Usernames,
  Emails,
  NoEmail,         \* NULL, what an empty address is stored as
  RollbackFreesId  \* TRUE: SQLite, one writer at a time and the id of a rolled
                   \* back insert is free again; FALSE: MySQL, an id is used up
                   \* by the INSERT that takes it, whatever becomes of it

ASSUME UserAssumption == RollbackFreesId \in BOOLEAN /\ NoEmail \notin Emails

VARIABLES
  users,       \* rows of torrust_users and torrust_user_profiles
  nextUserId   \* the next value of the AUTOINCREMENT key user_id

userTables == <<users, nextUserId>>

Address == Emails \cup {NoEmail}

UserRow == [user_id : Nat, username : Usernames, email : Address,
            email_verified : BOOLEAN, administrator : BOOLEAN]

UserTablesTypeOK == users \in SUBSET UserRow /\ nextUserId \in Nat \ {0}

UserTablesInit == users = {} /\ nextUserId = 1

UsersWithId(id) == {u \in users : u.user_id = id}

\* The UNIQUE columns a new profile runs into.
UserConflicts(username, email) ==
  {conflict \in {"username_taken"} : \E u \in users : u.username = username}
  \cup {conflict \in {"email_taken"} :
          email # NoEmail /\ \E u \in users : u.email = email}

\* Mutant: a user without a profile.
InsertUserRows_NoProfile(id, username, email) ==
  /\ UserConflicts(username, email) = {}
  /\ users' = users \cup {[user_id |-> id, administrator |-> FALSE]}

\* insert_user_and_get_id, committed.
InsertUserRows(id, username, email) ==
  /\ UserConflicts(username, email) = {}
  /\ users' = users \cup
       {[user_id |-> id, username |-> username, email |-> email,
         email_verified |-> FALSE, administrator |-> FALSE]}

\* grant_admin_role: no effect when no row has the id (UserNotFound).
GrantAdminRole(id) ==
  /\ users' = {IF u.user_id = id THEN [u EXCEPT !.administrator = TRUE] ELSE u : u \in users}
  /\ UNCHANGED nextUserId

\* verify_email: the number of rows it changed is not looked at.
MarkVerified(id) ==
  /\ users' = {IF u.user_id = id THEN [u EXCEPT !.email_verified = TRUE] ELSE u : u \in users}
  /\ UNCHANGED nextUserId

\* Mutant: user_id without AUTOINCREMENT, the largest id is given out again.
DeleteUserRows_FreeId(id) ==
  /\ users' = users \ UsersWithId(id)
  /\ nextUserId' = IF UsersWithId(id) # {} /\ id = nextUserId - 1 THEN id ELSE nextUserId

\* delete_user
DeleteUserRows(id) ==
  /\ users' = users \ UsersWithId(id)
  /\ UNCHANGED nextUserId

=============================================================================
