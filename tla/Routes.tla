------------------------------- MODULE Routes -------------------------------
(***************************************************************************)
(* The HTTP handlers (internal/interface/http/handler) as the rest of the  *)
(* pipeline sees them: whether the route requires a session, the statuses  *)
(* of a request whose input does not parse, of a use case that succeeded,  *)
(* and of one that failed, which an error translator chooses.  What the    *)
(* use cases do is the subject of the other modules.                       *)
(*                                                                         *)
(* An error that a translator does not know goes through c.Error to the    *)
(* ErrorHandler middleware, which answers 500.                             *)
(***************************************************************************)
EXTENDS Naturals

Route(does, auth, bad, ok, err) == [does |-> does, auth |-> auth, bad |-> bad, ok |-> ok, err |-> err]
Public(bad, ok, err) == Route("other", FALSE, bad, ok, err)
Protected(bad, ok, err) == Route("other", TRUE, bad, ok, err)

Success == {101, 200, 201, 204}

-----------------------------------------------------------------------------
\* The ErrorHandler middleware: the status of a code; 500 for all others.
statusFromCode == [NOT_FOUND |-> 404, INVALID |-> 400, AUTH_FAILED |-> 401, RATE_LIMIT_EXCEEDED |-> 429]

\* Error translators: the statuses a failed use case can be answered with.
AccountError == {400, 401, 403, 404, 409, 500}
UserError == {400, 401, 403, 404, 409, 413, 500}
DeviceError == {400, 401, 404, 409, 500}
ChatRoomError == {400, 403, 404, 409, 413, 500}
E2EEError == {400, 403, 404, 500}
FriendshipError == {400, 403, 404, 409, 500}
ParticipantError == {404, 409, 500}
OllamaError == {401, 502}

-----------------------------------------------------------------------------
\* Handlers.  In the account, user and e2ee packages input that does not parse is
\* handed to the translator, which does not know the error: 500.
healthCheck == Public({}, {200}, {})

register == Public({500}, {201}, AccountError)
login == Route("login", FALSE, {500}, {200}, AccountError)
logout == Route("logout", TRUE, {}, {200}, AccountError)
accountGetProfile == Protected({}, {200}, AccountError)
verifyEmail == Public({400}, {200}, AccountError)

userGetProfile == Public({500}, {200}, UserError)
updateProfile == Protected({500}, {200}, UserError)
uploadAvatar == Protected({400, 413, 500}, {200}, UserError)
searchUsers == Protected({}, {200}, UserError)

registerDeviceId == Public({400}, {201}, DeviceError)
listDevices == Protected({}, {200}, DeviceError)
getDeviceInfo == Public({}, {200}, DeviceError)
updateDeviceInfo == Public({400}, {200}, DeviceError)
bindDevice == Protected({}, {200}, DeviceError)
deleteDevice == Protected({}, {204}, DeviceError)

\* createRoom answers 200 for a direct room that existed.
createRoom == Protected({400}, {201, 200}, ChatRoomError)
joinRoom == Protected({400}, {200}, ChatRoomError)
getUserChatRooms == Protected({}, {200}, ChatRoomError)
getChatRoomDetail == Protected({400}, {200}, ChatRoomError)
getChatRoomMessages == Protected({400}, {200}, ChatRoomError)
updateMemberStatus == Protected({400}, {200}, ChatRoomError)
sendMessage == Protected({400}, {201}, ChatRoomError)
uploadRoomMedia == Protected({400, 500}, {200}, ChatRoomError)
resolveInvitation == Protected({400}, {200}, ChatRoomError)
getMyRoomInvitation == Protected({400}, {200}, ChatRoomError)
respondToInvitation == Protected({400}, {200}, ChatRoomError)

uploadIdentityKey == Protected({500}, {200}, E2EEError)
uploadSignedPreKey == Protected({500}, {204}, E2EEError)
uploadOTPPreKeys == Protected({500}, {200}, E2EEError)
countOTPPreKeys == Protected({}, {200}, E2EEError)
getKeyBundle == Protected({}, {200}, E2EEError)
uploadSenderKey == Protected({500}, {204}, E2EEError)
getSenderKeys == Protected({400}, {200}, E2EEError)
getSenderKeyDistributionStatus == Protected({400}, {200}, E2EEError)
createSenderKeyRequest == Protected({500}, {204}, E2EEError)

getFriends == Protected({}, {200}, FriendshipError)
applyFriend == Protected({500}, {200}, FriendshipError)
acceptFriend == Protected({400}, {200}, FriendshipError)
getFriendRequests == Protected({}, {200}, FriendshipError)
removeFriend == Protected({400}, {200}, FriendshipError)
getSentRequests == Protected({}, {200}, FriendshipError)
cancelSentRequest == Protected({400}, {200}, FriendshipError)
blockUser == Protected({400}, {200}, FriendshipError)
unblockUser == Protected({400}, {200}, FriendshipError)

createUserParticipant == Protected({}, {201}, ParticipantError)
getUserParticipant == Protected({}, {200}, ParticipantError)

\* Its own API key is checked by the use case.  A stream that breaks off after
\* its first byte was answered with 200.
Stream == Public({400}, {200}, OllamaError)

\* The upgrade to a WebSocket, which is not under /api: a request that is no
\* valid handshake is answered by the upgrader.
websocket == Protected({400, 403, 405, 500}, {101}, {})

-----------------------------------------------------------------------------
RegisterAuthRoutes == {register, login, logout, accountGetProfile, verifyEmail}
RegisterUserRoutes == {userGetProfile, updateProfile, uploadAvatar, searchUsers}
RegisterDeviceRoutes ==
    {registerDeviceId, listDevices, getDeviceInfo, updateDeviceInfo, bindDevice, deleteDevice}
RegisterChatRoomRoutes ==
    {createRoom, joinRoom, getUserChatRooms, getChatRoomDetail, getChatRoomMessages,
     updateMemberStatus, sendMessage, uploadRoomMedia, resolveInvitation,
     getMyRoomInvitation, respondToInvitation}
RegisterE2EERoutes ==
    {uploadIdentityKey, uploadSignedPreKey, uploadOTPPreKeys, countOTPPreKeys, getKeyBundle,
     uploadSenderKey, getSenderKeys, getSenderKeyDistributionStatus, createSenderKeyRequest}
RegisterFriendshipRoutes ==
    {getFriends, applyFriend, acceptFriend, getFriendRequests, removeFriend,
     getSentRequests, cancelSentRequest, blockUser, unblockUser}
RegisterParticipantRoutes == {createUserParticipant, getUserParticipant}

RegisterRestRoutes ==
    {healthCheck, Stream} \cup RegisterAuthRoutes \cup RegisterUserRoutes
    \cup RegisterDeviceRoutes \cup RegisterChatRoomRoutes \cup RegisterE2EERoutes
    \cup RegisterFriendshipRoutes \cup RegisterParticipantRoutes
=============================================================================
