------------------------------- MODULE Accounts -------------------------------
(***************************************************************************)
(* The accounts of the Node backend: signup (auth.controller.js) and the   *)
(* handlers of user.controller.js.  A handler decides on what it read of   *)
(* the database before its last await; mongoose saves the fields that      *)
(* differ from the document as it was read, and a save whose document is   *)
(* gone is an error.  The e-mail stands for the two unique fields.         *)
(*                                                                         *)
(* Which administrator asks decides about deleting oneself only, which the *)
(* model leaves open.  Verification, passwords and tokens are left out.    *)
(***************************************************************************)
EXTENDS Naturals, FiniteSets

CONSTANTS
    User,           \* bound: _id's, used once each
    Mail,
    Handler         \* bound: the requests under way at once

VARIABLES
    users,          \* the collection: users[u] is Unused, Deleted or a document
    handler         \* handler[h]: the request

accountVars == <<users, handler>>

Role == {"super_admin", "admin", "analyst"}
Unused == [role |-> "unused"]
Deleted == [role |-> "deleted"]
NoHandler == [pc |-> "none"]

Present(u) == users[u].role \in Role
Roots == {u \in User : users[u].role = "super_admin"}
Taken(mail) == \E u \in User : Present(u) /\ users[u].mail = mail

AccountsInit ==
    /\ users = [u \in User |-> Unused]
    /\ handler = [h \in Handler |-> NoHandler]

Becomes(h, to) == handler' = [handler EXCEPT ![h] = to]

-------------------------------------------------------------------------------
\* signup: countDocuments, then the code is made up and the user created.
SignupCounts(h) ==
    /\ handler[h] = NoHandler
    /\ ~\E u \in User : Present(u)
    /\ \E m \in Mail : Becomes(h, [pc |-> "create", by |-> "signup", role |-> "super_admin", mail |-> m])
    /\ UNCHANGED users

\* protect and authorize.
Authorized == \E u \in User : users[u].role \in {"super_admin", "admin"}

\* addUser, up to findOne.
AddFinds(h) ==
    /\ handler[h] = NoHandler /\ Authorized
    /\ \E r \in Role \ {"super_admin"}, m \in Mail :
        /\ ~Taken(m)
        /\ Becomes(h, [pc |-> "create", by |-> "add", role |-> r, mail |-> m])
    /\ UNCHANGED users

\* User.create; the index refuses a second e-mail.
CreateUser(h) ==
    /\ handler[h].pc = "create"
    /\ \/ /\ ~Taken(handler[h].mail)
          /\ \E u \in User :
                /\ users[u] = Unused
                /\ users' = [users EXCEPT ![u] = [role |-> handler[h].role, mail |-> handler[h].mail]]
       \/ Taken(handler[h].mail) /\ UNCHANGED users
    /\ Becomes(h, NoHandler)

\* deleteUser.
DeleteFinds(h) ==
    /\ handler[h] = NoHandler /\ Authorized
    /\ \E u \in User :
        /\ Present(u) /\ users[u].role # "super_admin"
        /\ Becomes(h, [pc |-> "delete", user |-> u])
    /\ UNCHANGED users

DeleteOne(h) ==
    /\ handler[h].pc = "delete"
    /\ users' = [users EXCEPT ![handler[h].user] = Deleted]
    /\ Becomes(h, NoHandler)

\* updateUser: the checks on the document as it was found; the role or the
\* e-mail of the request may be missing, and is then the document's.
MayBecome_Unless(old, role) == ~(role = "super_admin" /\ old # "super_admin")

MayBecome(old, role) == role = "super_admin" <=> old = "super_admin"

UpdateFinds(h) ==
    /\ handler[h] = NoHandler /\ Authorized
    /\ \E u \in User, r \in Role, m \in Mail :
        /\ Present(u) /\ MayBecome(users[u].role, r)
        /\ m # users[u].mail => ~Taken(m)
        /\ Becomes(h, [pc |-> "save", user |-> u, old |-> users[u], new |-> [role |-> r, mail |-> m]])
    /\ UNCHANGED users

\* user.save().
Saved_Whole(doc, old, new) == new

Saved(doc, old, new) ==
    [role |-> IF new.role = old.role THEN doc.role ELSE new.role,
     mail |-> IF new.mail = old.mail THEN doc.mail ELSE new.mail]

SaveUser(h) ==
    /\ handler[h].pc = "save"
    /\ LET u == handler[h].user
           new == handler[h].new
       IN IF Present(u) /\ (new.mail # handler[h].old.mail =>
                                ~\E v \in User \ {u} : Present(v) /\ users[v].mail = new.mail)
          THEN users' = [users EXCEPT ![u] = Saved(@, handler[h].old, new)]
          ELSE UNCHANGED users
    /\ Becomes(h, NoHandler)

AccountsNext ==
    \E h \in Handler :
        \/ SignupCounts(h) \/ AddFinds(h) \/ CreateUser(h)
        \/ DeleteFinds(h) \/ DeleteOne(h)
        \/ UpdateFinds(h) \/ SaveUser(h)

AccountsSpec == AccountsInit /\ [][AccountsNext]_accountVars

-------------------------------------------------------------------------------
(* The documents are well typed, and an e-mail address has one account.    *)
AccountsTypeOK ==
    /\ users \in [User -> {Unused, Deleted} \cup [role : Role, mail : Mail]]
    /\ \A u, v \in User : Present(u) /\ Present(v) /\ users[u].mail = users[v].mail => u = v

SigningUp == {h \in Handler : handler[h].pc = "create" /\ handler[h].by = "signup"}

(* What addUser, updateUser and deleteUser say of the super administrator  *)
(* (user.controller.js:12, 121, 128): they make none, demote none and      *)
(* delete none, although they check roles on documents that others may     *)
(* have changed or deleted since.  Whether signup, the one handler that    *)
(* may make one, makes one only is the question of OneSuperAdmin.          *)
RootStays ==
    [][/\ Roots \subseteq Roots'
       /\ (Roots' # Roots => \E h \in SigningUp : handler'[h] = NoHandler)]_accountVars

(* What signup's comment says (auth.controller.js:18): only one super      *)
(* administrator is allowed.                                               *)
OneSuperAdmin == Cardinality(Roots) <= 1

ChangeAsked ==
    \A u \in User :
        Present(u) /\ Present(u)' /\ users'[u] # users[u]
        => \E h \in Handler :
            /\ handler[h].pc = "save" /\ handler[h].user = u /\ handler'[h] = NoHandler
            /\ LET old == handler[h].old
                   new == handler[h].new
               IN /\ users'[u].role # users[u].role => new.role = users'[u].role /\ new.role # old.role
                  /\ users'[u].mail # users[u].mail => new.mail = users'[u].mail /\ new.mail # old.mail

(* No update is lost: a role or an e-mail changes only in a request that   *)
(* asks for the new one, whatever other updates of the account it crosses. *)
ChangesAreAsked == [][ChangeAsked]_accountVars

===============================================================================
