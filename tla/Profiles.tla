------------------------------ MODULE Profiles ------------------------------
(***************************************************************************)
(* User profiles (internal/application/user with the repositories of users *)
(* and their roles, and the local file storage), on top of the accounts:   *)
(* the profile with its role codes, and the avatar, a file whose name is a *)
(* hash of its content.                                                    *)
(*                                                                         *)
(* No request here runs in a transaction.  An update of the profile and an *)
(* upload both write the name and the avatar column as they have read      *)
(* them; the roles are revoked and assigned one by one; the file of the    *)
(* old avatar is deleted by a goroutine after the request has returned.    *)
(***************************************************************************)
EXTENDS Accounts

CONSTANT Images     \* images, each with its own hash; a file is <<user, image>>

VARIABLES
    avatar,   \* users.avatar: the image the row names, or NoRow
    files,    \* the files in the storage, by the directory of their user
    torn,     \* files that an upload left incomplete
    trash,    \* files that a goroutine is about to delete
    asked,    \* history: the roles last asked for
    mixed,    \* history: users whose role updates overlapped or failed
    clash     \* history: users two of whose requests overlapped, or who uploaded
              \* an image whose file was about to be deleted or incomplete

profileVars == <<avatar, files, torn, trash, asked, mixed, clash>>
vars == <<accountVars, call, served, profileVars>>

Init ==
    /\ InitAccounts
    /\ call = [c \in Calls |-> Returned]
    /\ served = 0
    /\ avatar = [u \in Ids |-> NoRow]
    /\ files = {} /\ torn = {} /\ trash = {}
    /\ asked = [u \in Ids |-> IF owner[u] = 0 THEN {"user"} ELSE roles[u]]
    /\ mixed = {} /\ clash = {}

\* UserRepository.findOneBy: the row, with the user's role codes.
findOneBy(u) == [avatar |-> avatar[u], codes |-> roles[u]]

ProfileSteps == {"name", "roles", "revoke", "assign"}
UploadSteps == {"stat", "write", "exists", "row"}
Others(c, u, steps) == {d \in Calls \ {c} : call[d].pc \in steps /\ call[d].u = u}

Clashes(c, u) ==
    IF Others(c, u, UploadSteps \cup ProfileSteps) # {} THEN clash \cup {u} ELSE clash

-----------------------------------------------------------------------------
\* The avatar

\* UploadAvatarUseCase: read the row, decode the image and name its file, ...
UploadFind(c, u, img) ==
    /\ owner[u] # 0
    /\ Start(c, [Returned EXCEPT !.pc = "stat", !.u = u, !.old = findOneBy(u).avatar, !.new = img])
    /\ clash' = IF <<u, img>> \in trash \cup torn THEN clash \cup {u} ELSE Clashes(c, u)
    /\ UNCHANGED <<accountVars, avatar, files, torn, trash, asked, mixed>>

\* ... see in LocalFileStorage.Save whether the file exists, ...
Stat(c) ==
    /\ call[c].pc = "stat"
    /\ Goto(c, IF <<call[c].u, call[c].new>> \in files THEN "exists" ELSE "write")
    /\ UNCHANGED <<accountVars, profileVars>>

\* ... write it, which may fail half-way, ...
Save(c) ==
    /\ call[c].pc = "write"
    /\ files' = files \cup {<<call[c].u, call[c].new>>}
    /\ torn' = torn \ {<<call[c].u, call[c].new>>}
    /\ Goto(c, "row")
    /\ UNCHANGED <<accountVars, avatar, trash, asked, mixed, clash>>

SaveFails(c) ==
    /\ call[c].pc = "write"
    /\ \/ UNCHANGED <<files, torn>>
       \/ /\ files' = files \cup {<<call[c].u, call[c].new>>}
          /\ torn' = torn \cup {<<call[c].u, call[c].new>>}
    /\ Return(c)
    /\ UNCHANGED <<accountVars, avatar, trash, asked, mixed, clash>>

\* UserRepository.Update: the name and the avatar.
UserUpdate(u, img) == [avatar EXCEPT ![u] = img]

\* ... or, for a file that exists, only correct the row, ...
UploadExists(c) ==
    /\ call[c].pc = "exists"
    /\ avatar' = IF call[c].old # call[c].new THEN UserUpdate(call[c].u, call[c].new) ELSE avatar
    /\ Return(c)
    /\ UNCHANGED <<accountVars, files, torn, trash, asked, mixed, clash>>

\* ... else write the row and have the old file deleted.
Obsolete(c) == call[c].old # NoRow /\ call[c].old # call[c].new

\* Mutant: the old file is deleted even if the update of the row fails.
UploadRow_Anyway(c) ==
    /\ call[c].pc = "row"
    /\ avatar' \in {avatar, UserUpdate(call[c].u, call[c].new)}
    /\ trash' = IF Obsolete(c) THEN trash \cup {<<call[c].u, call[c].old>>} ELSE trash
    /\ Return(c)
    /\ UNCHANGED <<accountVars, files, torn, asked, mixed, clash>>

UploadRow(c) ==
    /\ call[c].pc = "row"
    /\ avatar' = UserUpdate(call[c].u, call[c].new)
    /\ trash' = IF Obsolete(c) THEN trash \cup {<<call[c].u, call[c].old>>} ELSE trash
    /\ Return(c)
    /\ UNCHANGED <<accountVars, files, torn, asked, mixed, clash>>

\* The goroutine: the file is removed, or the removal fails and is logged.
DeleteFile(f) ==
    /\ f \in trash
    /\ trash' = trash \ {f}
    /\ files' \in {files \ {f}, files}
    /\ torn' = torn \cap files'
    /\ UNCHANGED <<accountVars, call, served, avatar, asked, mixed, clash>>

-----------------------------------------------------------------------------
\* The profile

\* UpdateProfileUseCase: read the row; an update without role codes leaves the
\* roles, one with the old name leaves the row.
ProfileFind(c, u, renamed, codes) ==
    /\ owner[u] # 0
    /\ renamed \/ codes # {}
    /\ Start(c, [Returned EXCEPT !.pc = IF renamed THEN "name" ELSE "roles", !.u = u,
                                 !.old = findOneBy(u).avatar, !.codes = codes])
    /\ clash' = Clashes(c, u)
    /\ UNCHANGED <<accountVars, avatar, files, torn, trash, asked, mixed>>

ProfileName(c) ==
    /\ call[c].pc = "name"
    /\ avatar' = UserUpdate(call[c].u, call[c].old)
    /\ IF call[c].codes # {} THEN Goto(c, "roles") ELSE Return(c)
    /\ UNCHANGED <<accountVars, files, torn, trash, asked, mixed, clash>>

\* UserRoleRepository: the roles of a user, a row inserted, a row deleted.
FindRolesByUser(u) == roles[u]
Assigned(u, code) == [roles EXCEPT ![u] = @ \cup {code}]

\* Mutant: nothing is revoked.
Revoked_Kept(u, code) == roles

Revoked(u, code) == [roles EXCEPT ![u] = @ \ {code}]

ProfileRoles(c) ==
    LET u == call[c].u IN
    /\ call[c].pc = "roles"
    /\ call' = [call EXCEPT ![c].pc = "revoke", ![c].todo = FindRolesByUser(u)]
    /\ asked' = [asked EXCEPT ![u] = call[c].codes]
    /\ mixed' = IF Others(c, u, {"revoke", "assign"}) # {} THEN mixed \cup {u} ELSE mixed \ {u}
    /\ UNCHANGED <<accountVars, served, avatar, files, torn, trash, clash>>

ProfileRevoke(c) ==
    /\ call[c].pc = "revoke"
    /\ IF call[c].todo = {}
       THEN call' = [call EXCEPT ![c].pc = "assign", ![c].todo = call[c].codes] /\ UNCHANGED roles
       ELSE \E code \in call[c].todo :
            /\ roles' = Revoked(call[c].u, code)
            /\ call' = [call EXCEPT ![c].todo = @ \ {code}]
    /\ UNCHANGED <<account, owner, nextId, store, inbox, history, served, profileVars>>

ProfileAssign(c) ==
    /\ call[c].pc = "assign"
    /\ \E code \in call[c].todo :
        /\ roles' = Assigned(call[c].u, code)
        /\ IF call[c].todo = {code} THEN Return(c)
           ELSE call' = [call EXCEPT ![c].todo = @ \ {code}] /\ UNCHANGED served
    /\ UNCHANGED <<account, owner, nextId, store, inbox, history, profileVars>>

\* A statement fails, and with it the request.
ProfileFails(c) ==
    /\ call[c].pc \in ProfileSteps \cup {"exists", "row"}
    /\ mixed' = IF call[c].pc \in {"revoke", "assign"} THEN mixed \cup {call[c].u} ELSE mixed
    /\ Return(c)
    /\ UNCHANGED <<accountVars, avatar, files, torn, trash, asked, clash>>

ProfilesNext ==
    \/ \E c \in Calls, u \in Ids :
        \/ \E img \in Images : UploadFind(c, u, img)
        \/ \E renamed \in BOOLEAN, codes \in SUBSET Codes : ProfileFind(c, u, renamed, codes)
    \/ \E c \in Calls :
        \/ Stat(c) \/ Save(c) \/ SaveFails(c) \/ UploadExists(c) \/ UploadRow(c)
        \/ ProfileName(c) \/ ProfileRoles(c) \/ ProfileRevoke(c) \/ ProfileAssign(c)
        \/ ProfileFails(c)
    \/ \E f \in trash : DeleteFile(f)

Next ==
    \/ AccountsNext /\ UNCHANGED profileVars
    \/ ProfilesNext

Spec == Init /\ [][Next]_vars

-----------------------------------------------------------------------------
\* Properties

\* The file that a user's row names is there and complete, also while old files
\* are deleted in the background and uploads fail half-way.  It is missing only
\* if requests of the user overlapped, or if an image was uploaded again whose
\* file was about to be deleted, or had been left incomplete: Save takes either
\* for the image itself.
AvatarIsKept ==
    \A u \in Ids : avatar[u] = NoRow \/ u \in clash \/ <<u, avatar[u]>> \in files \ torn

\* Between role updates a user has exactly the roles of the last one, although
\* they are revoked and assigned one at a time; a mixture, or none at all, only
\* after an update that failed or overlapped another, until the next one.
RolesOfOneUpdate ==
    \A u \in Ids :
        \/ owner[u] = 0 \/ u \in mixed
        \/ \E c \in Calls : call[c].u = u /\ call[c].pc \in {"revoke", "assign"}
        \/ roles[u] = asked[u]
=============================================================================
