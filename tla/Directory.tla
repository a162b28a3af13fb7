----------------------------- MODULE Directory -----------------------------
(***************************************************************************)
(* The MySQL tables that say who there is: user (ids, names, the state     *)
(* column), friend, chat_group and group_member, through UserDAO,          *)
(* FriendDAO and GroupDAO.  As in ChatStore a DAO call is one statement on *)
(* a connection of its own, and at most MaxDbFaults calls fail.  A call    *)
(* with a result takes the result as its last parameter.                   *)
(*                                                                         *)
(* The schema is not part of the repository: ids are given out by          *)
(* auto_increment, and a name is taken once (the client reports a failed   *)
(* insert as "name is already exist").                                     *)
(***************************************************************************)
EXTENDS Naturals, Sequences, Functions

CONSTANTS
    NoId,          \* the id -1 of a default entity
    MaxDbFaults    \* bound on failing DAO calls

ASSUME DirectoryAssumption == NoId \notin Nat /\ MaxDbFaults \in Nat

VARIABLES
    user,          \* user[id]: name of user id
    online,        \* the ids whose state is "online"
    friend,        \* rows <<userid, friendid>>
    chat_group,    \* chat_group[id]: groupname of group id
    group_member,  \* rows [userid, groupid, grouprole]
    db_faults

directoryVars == <<user, online, friend, chat_group, group_member, db_faults>>

DirectoryInit(names) ==
    /\ user = names
    /\ online = {} /\ friend = {} /\ chat_group = <<>> /\ group_member = {}
    /\ db_faults = 0

DirectoryFault ==
    /\ db_faults < MaxDbFaults
    /\ db_faults' = db_faults + 1
    /\ UNCHANGED <<user, online, friend, chat_group, group_member>>

(* Faulty variant: the id is that of the row before. *)
InsertStaleId(name, id) ==
    /\ name \notin Range(user)
    /\ user' = Append(user, name) /\ id = Len(user)
    /\ UNCHANGED <<online, friend, chat_group, group_member, db_faults>>

(* UserDAO::Insert; NoId when it returns false. *)
Insert(name, id) ==
    \/ /\ name \notin Range(user)
       /\ user' = Append(user, name) /\ id = Len(user) + 1
       /\ UNCHANGED <<online, friend, chat_group, group_member, db_faults>>
    \/ name \in Range(user) /\ id = NoId /\ UNCHANGED directoryVars
    \/ id = NoId /\ DirectoryFault

UpdateState(id, state) ==
    /\ online' = IF state = "online" THEN online \cup {id} ELSE online \ {id}
    /\ UNCHANGED <<user, friend, chat_group, group_member, db_faults>>

AddFriend(user_id, friend_id) ==
    \/ /\ friend' = friend \cup {<<user_id, friend_id>>}
       /\ UNCHANGED <<user, online, chat_group, group_member, db_faults>>
    \/ DirectoryFault

(* The friends that have a row in table user. *)
GetFriends(user_id) == {f \in DOMAIN user : <<user_id, f>> \in friend}

CreateGroup(groupname, id) ==
    \/ /\ chat_group' = Append(chat_group, groupname) /\ id = Len(chat_group) + 1
       /\ UNCHANGED <<user, online, friend, group_member, db_faults>>
    \/ id = NoId /\ DirectoryFault

JoinGroup(user_id, group_id, role) ==
    \/ /\ group_member' = group_member
                            \cup {[userid |-> user_id, groupid |-> group_id, grouprole |-> role]}
       /\ UNCHANGED <<user, online, friend, chat_group, db_faults>>
    \/ DirectoryFault

(* The statement reads "selcet ...", which MySQL refuses: no member is found, *)
(* whatever the arguments are.                                               *)
GetOtherGroupMembers(group_id, exclude_user_id) == {}
=============================================================================
