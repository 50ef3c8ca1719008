---------------------------- MODULE FunctionTable ----------------------------
(***************************************************************************)
(* The functions of the Corelink server as the client calls them:          *)
(* corelink_functions_request_response_handlers                            *)
(* (core/corelink_client_request_response_handlers.hpp), the parameters    *)
(* they take (core/corelink_client_request_response_payload_prototypes.hpp)*)
(* and the JSON objects they are sent and answered with (utils/json.hpp).  *)
(*                                                                         *)
(* A JSON object is a function from the names of its members to their      *)
(* values.  A member of an answer is a pair, of its type and its value.    *)
(***************************************************************************)
EXTENDS Integers

-----------------------------------------------------------------------------
(* json *)

EmptyObject == <<>>

\* append(map): every pair is added, and a lookup finds the first of a name.
WithMembers(object, members) ==
  [m \in DOMAIN object \cup DOMAIN members |->
     IF m \in DOMAIN object THEN object[m] ELSE members[m]]

\* append(key, value): a member that is there already stays as it is.
WithMember(object, name, value) == WithMembers(object, [m \in {name} |-> value])

\* get_int: the default for a member that is missing and for one of another type.
GetInt(object, name, default) ==
  IF name \in DOMAIN object /\ object[name][1] = "int" THEN object[name][2] ELSE default

GetStr(object, name, default) ==
  IF name \in DOMAIN object /\ object[name][1] = "string" THEN object[name][2] ELSE default

-----------------------------------------------------------------------------
(* The parameters of a call *)

SimpleParameters ==
  [corelink_server_request_base |-> {},
   authenticate_client_request  |-> {"username", "password"},
   describe_function_request    |-> {"function_name"},
   modify_workspace_request     |-> {"workspace_name"},
   modify_user_request          |-> {"username", "password", "first_name", "last_name",
                                     "email_id", "admin"}]

StreamParameters ==
  [modify_group_request   |-> {"group_name", "username"},
   list_streams_request   |-> {"workspaces", "types"},
   stream_info_request    |-> {"stream_id"},
   modify_stream_subscription_request |-> {"receiver_id", "stream_ids"}]

DataStreamBase == {"protocol", "alert", "echo", "workspace", "stream_type", "meta"}

DataStreamParameters ==
  [modify_sender_stream_request   |-> DataStreamBase \cup {"stream_id", "forwarded_from_stream"},
   modify_receiver_stream_request |-> DataStreamBase \cup {"receiver_stream_id", "stream_ids"},
   disconnect_streams_request     |-> {"workspace", "types", "streamIDs"}]

Parameters ==
  WithMembers(SimpleParameters, WithMembers(StreamParameters, DataStreamParameters))

-----------------------------------------------------------------------------
(* The table.  An entry says what the server calls the function; the type of  *)
(* its parameters; which member carries which of them; which members are left *)
(* out when the parameter is not set; whether the request is given its        *)
(* function's name and the session's token; what a missing statusCode becomes;*)
(* and whether the response hands on what the answer holds.                   *)

Entry(name, parameters, members) ==
  [name |-> name, parameters |-> parameters, members |-> members, optional |-> {},
   named |-> TRUE, token |-> TRUE, missing |-> 0, result |-> FALSE]

Asks(name) == Entry(name, "corelink_server_request_base", EmptyObject)
Strict(entry) == [entry EXCEPT !.missing = -1]
Returns(entry) == [Strict(entry) EXCEPT !.result = TRUE]
Relays(entry) == [entry EXCEPT !.result = TRUE]

\* The request is returned without the map that holds its name and the token.
Unnamed(entry) == [entry EXCEPT !.named = FALSE, !.token = FALSE]

\* authenticate is answered in the client: handle_authenticate.
SessionFunctions ==
  [authenticate |->
     [Strict(Entry("auth", "authenticate_client_request",
                   [username |-> "username", password |-> "password"])) EXCEPT !.token = FALSE],
   list_client_functions |-> Returns(Asks("listFunctions")),
   list_server_functions |-> Returns(Asks("listServerFunctions")),
   keep_alive            |-> Asks("keepAlive")]

Describe(name) ==
  Relays(Entry(name, "describe_function_request", [functionName |-> "function_name"]))

DescribeFunctions ==
  [describe_client_function |-> Describe("describeFunction"),
   describe_server_function |-> Describe("describeServerFunction")]

Workspace(name) == Entry(name, "modify_workspace_request", [workspace |-> "workspace_name"])

WorkspaceFunctions ==
  [list_workspaces       |-> Returns(Asks("listWorkspaces")),
   add_workspace         |-> Workspace("addWorkspace"),
   remove_workspace      |-> Workspace("rmWorkspace"),
   set_default_workspace |-> Workspace("setDefaultWorkspace"),
   get_default_workspace |-> Returns(Asks("getDefaultWorkspace"))]

\* list_users answers without the users.
UserFunctions ==
  [add_user |->
     Entry("addUser", "modify_user_request",
           [username |-> "username", password |-> "password", first |-> "first_name",
            last |-> "last_name", email |-> "email_id", admin |-> "admin"]),
   change_password |-> Entry("password", "modify_user_request", [password |-> "password"]),
   remove_user     |-> Entry("rmUser", "modify_user_request", [username |-> "username"]),
   list_users      |-> Asks("listUsers")]

Group(name) == Entry(name, "modify_group_request", [group |-> "group_name"])

\* Defective variant of GroupUser: the two members are swapped.
GroupUserSwapped(name) ==
  Entry(name, "modify_group_request", [group |-> "username", user |-> "group_name"])

GroupUser(name) ==
  Entry(name, "modify_group_request", [group |-> "group_name", user |-> "username"])

GroupFunctions ==
  [add_group          |-> Group("addGroup"),
   add_group_user     |-> GroupUser("addUserGroup"),
   remove_group_user  |-> GroupUser("rmUserGroup"),
   change_group_owner |-> GroupUser("changeOwner"),
   remove_group       |-> Group("rmGroup"),
   list_groups        |-> Returns(Asks("listGroups"))]

StreamFunctions ==
  [list_streams |->
     Relays(Entry("listStreams", "list_streams_request",
                  [workspaces |-> "workspaces", types |-> "types"])),
   stream_info |->
     Unnamed(Relays(Entry("streamInfo", "stream_info_request", [streamID |-> "stream_id"]))),
   subscribe |->
     Returns(Entry("subscribe", "modify_stream_subscription_request",
                 [receiverID |-> "receiver_id", streamIDs |-> "stream_ids"]))]

\* disconnect sends the types as workspaces, too.
EndFunctions ==
  [unsubscribe |->
     Unnamed(Relays(Entry("unsubscribe", "modify_stream_subscription_request",
                          [receiverID |-> "receiver_id", streamID |-> "stream_ids"]))),
   disconnect |->
     Returns(Entry("disconnect", "disconnect_streams_request",
                 [streamIDs |-> "streamIDs", types |-> "types", workspaces |-> "types"])),
   expire_user_session |-> Unnamed(Asks("expire"))]

\* What an empty or negative parameter would say is left out.
SenderFunction ==
  [Entry("sender", "modify_sender_stream_request",
         [proto |-> "protocol", alert |-> "alert", workspace |-> "workspace",
          streamID |-> "stream_id", from |-> "forwarded_from_stream",
          type |-> "stream_type", meta |-> "meta"])
     EXCEPT !.optional = {"workspace", "streamID", "from", "type", "meta"}]

ReceiverFunction ==
  [Entry("receiver", "modify_receiver_stream_request",
         [proto |-> "protocol", alert |-> "alert", echo |-> "echo", workspace |-> "workspace",
          receiverID |-> "receiver_stream_id", streamIDs |-> "stream_ids",
          type |-> "stream_type", meta |-> "meta"])
     EXCEPT !.optional = {"workspace", "receiverID", "streamIDs", "type", "meta"}]

Creates == {"create_sender", "create_receiver"}

CreateFunctions == [create_sender |-> SenderFunction, create_receiver |-> ReceiverFunction]

Table ==
  WithMembers(WithMembers(WithMembers(SessionFunctions, DescribeFunctions),
                          WithMembers(WorkspaceFunctions, UserFunctions)),
              WithMembers(WithMembers(GroupFunctions, StreamFunctions),
                          WithMembers(EndFunctions, CreateFunctions)))

Functions == DOMAIN Table

\* The members of a call's request that name a parameter.
Carried(f, unset) == {m \in DOMAIN Table[f].members :
                        ~(m \in Table[f].optional /\ Table[f].members[m] \in unset)}

\* The parameters that may be left unset.
Optional(f) == {Table[f].members[m] : m \in Table[f].optional}
=============================================================================
