------------------------- MODULE FunctionCallsProofs -------------------------
(***************************************************************************)
(* Proofs about FunctionCalls, for any calls of any of the functions in    *)
(* the table, any number of sessions and any forms of the server's answers.*)
(***************************************************************************)
EXTENDS FunctionCalls, SequenceTheorems, TLAPS

-----------------------------------------------------------------------------
(* The table *)

\* Members of a request that name no parameter.
Reserved == {"function", "token", "IP", "ID"}

\* Concerning(f), for an entry that need not be in the table yet.
Concerned(f, entry) ==
  LET all == Parameters[entry.parameters]
  IN  CASE f = "change_password" -> {"password"}
        [] f = "remove_user" -> {"username"}
        [] f \in {"add_group", "remove_group"} -> {"group_name"}
        [] f = "create_sender" -> all \ {"echo"}
        [] OTHER -> all

Fields == {"name", "parameters", "members", "optional", "named", "token", "missing", "result"}

\* Each member stands for a parameter that it means.
Meant(members) == \A m \in DOMAIN members : m \in DOMAIN Means /\ members[m] \in Means[m]

\* An entry sends each parameter that concerns its function under a member that
\* means it (but for the workspaces of disconnect), and leaves out a member only
\* where every member of the same parameter is left out.
EntryOK(f, entry) ==
  /\ DOMAIN entry = Fields
  /\ entry.named \in BOOLEAN
  /\ entry.missing \in {-1, 0}
  /\ (entry.name = "auth") <=> (f = "authenticate")
  /\ entry.parameters \in DOMAIN Parameters
  /\ \A m \in DOMAIN entry.members :
       /\ m \notin Reserved
       /\ entry.members[m] \in Concerned(f, entry)
       /\ \A o \in entry.optional : entry.members[m] = entry.members[o] => m \in entry.optional
  /\ \A m \in DOMAIN entry.members \ Misplaced(f) :
       m \in DOMAIN Means /\ entry.members[m] \in Means[m]
  /\ \A p \in Concerned(f, entry) \ Unsent(f) :
       \E m \in DOMAIN entry.members \ Misplaced(f) : entry.members[m] = p
  /\ entry.optional \subseteq DOMAIN entry.members
  /\ Concerned(f, entry) \subseteq Parameters[entry.parameters]

SectionOK(section) == \A f \in DOMAIN section : EntryOK(f, section[f])

\* No two of the three groups of parameters have one of a name.
LEMMA ParametersOf ==
  /\ DOMAIN Parameters =
       DOMAIN SimpleParameters \cup DOMAIN StreamParameters \cup DOMAIN DataStreamParameters
  /\ \A p \in DOMAIN SimpleParameters : Parameters[p] = SimpleParameters[p]
  /\ \A p \in DOMAIN StreamParameters : Parameters[p] = StreamParameters[p]
  /\ \A p \in DOMAIN DataStreamParameters : Parameters[p] = DataStreamParameters[p]
  BY DEF Parameters, SimpleParameters, StreamParameters, DataStreamParameters, WithMembers

\* What the members mean, one by one.
LEMMA MeaningOf ==
  /\ DOMAIN Means = DOMAIN AccountMembers \cup DOMAIN StreamMembers
  /\ \A m \in DOMAIN AccountMembers : Means[m] = AccountMembers[m]
  /\ \A m \in DOMAIN StreamMembers : Means[m] = StreamMembers[m]
  BY DEF Means, AccountMembers, StreamMembers, WithMembers

LEMMA AccountMeanings ==
  /\ {"username", "password", "first", "last", "email", "admin", "group", "user",
      "functionName"} \subseteq DOMAIN Means
  /\ "username" \in Means["username"] /\ "password" \in Means["password"]
  /\ "first_name" \in Means["first"] /\ "last_name" \in Means["last"]
  /\ "email_id" \in Means["email"] /\ "admin" \in Means["admin"]
  /\ "group_name" \in Means["group"] /\ "username" \in Means["user"]
  /\ "function_name" \in Means["functionName"]
  BY MeaningOf DEF AccountMembers

LEMMA StreamMeanings ==
  /\ {"workspace", "workspaces", "types", "type", "meta", "proto", "alert", "echo", "from",
      "streamID", "streamIDs", "receiverID"} \subseteq DOMAIN Means
  /\ {"workspace_name", "workspace"} \subseteq Means["workspace"]
  /\ "workspaces" \in Means["workspaces"] /\ "types" \in Means["types"]
  /\ "stream_type" \in Means["type"] /\ "meta" \in Means["meta"]
  /\ "protocol" \in Means["proto"] /\ "alert" \in Means["alert"]
  /\ "echo" \in Means["echo"] /\ "forwarded_from_stream" \in Means["from"]
  /\ {"stream_id", "stream_ids"} \subseteq Means["streamID"]
  /\ {"stream_ids", "streamIDs"} \subseteq Means["streamIDs"]
  /\ {"receiver_id", "receiver_stream_id"} \subseteq Means["receiverID"]
  BY MeaningOf DEF StreamMembers

\* An entry that leaves out no member.
LEMMA EntryIsOK ==
  ASSUME NEW f, NEW name, NEW parameters \in DOMAIN Parameters, NEW members,
         (name = "auth") <=> (f = "authenticate"),
         NEW ps, ps = Concerned(f, Entry(name, parameters, members)),
         ps \subseteq Parameters[parameters],
         DOMAIN members \cap Reserved = {},
         \A m \in DOMAIN members : members[m] \in ps,
         \A m \in DOMAIN members \ Misplaced(f) : m \in DOMAIN Means /\ members[m] \in Means[m],
         \A p \in ps \ Unsent(f) : \E m \in DOMAIN members \ Misplaced(f) : members[m] = p
  PROVE  EntryOK(f, Entry(name, parameters, members))
  <1> DEFINE e == Entry(name, parameters, members)
  <1>1. /\ DOMAIN e = Fields
        /\ e.name = name /\ e.parameters = parameters /\ e.members = members
        /\ e.optional = {} /\ e.named = TRUE /\ e.missing = 0
    BY DEF Entry, Fields
  <1>2. ps = Concerned(f, e)
    OBVIOUS
  <1> HIDE DEF e
  <1>3. EntryOK(f, e)
    BY <1>1, <1>2 DEF EntryOK
  <1> QED
    BY <1>3 DEF e

\* So do those of every function but disconnect, when each member means what it says.
LEMMA EntryWholeIsOK ==
  ASSUME NEW f, NEW name, NEW parameters \in DOMAIN Parameters, NEW members,
         (name = "auth") <=> (f = "authenticate"), f # "disconnect",
         NEW ps, ps = Concerned(f, Entry(name, parameters, members)),
         ps \subseteq Parameters[parameters],
         DOMAIN members \cap Reserved = {}, Meant(members),
         \A m \in DOMAIN members : members[m] \in ps,
         \A p \in ps : \E m \in DOMAIN members : members[m] = p
  PROVE  EntryOK(f, Entry(name, parameters, members))
  <1>1. Misplaced(f) = {} /\ Unsent(f) = {}
    BY DEF Misplaced, Unsent
  <1>2. \A m \in DOMAIN members \ Misplaced(f) : m \in DOMAIN Means /\ members[m] \in Means[m]
    BY DEF Meant
  <1>3. \A p \in ps \ Unsent(f) : \E m \in DOMAIN members \ Misplaced(f) : members[m] = p
    BY <1>1
  <1> QED
    BY <1>2, <1>3, EntryIsOK

\* Most functions are concerned with every parameter they can be given.
LEMMA ConcernedByAll ==
  ASSUME NEW f, NEW name, NEW parameters, NEW members,
         f \notin {"change_password", "remove_user", "add_group", "remove_group",
                   "create_sender", "disconnect"}
  PROVE  Concerned(f, Entry(name, parameters, members)) = Parameters[parameters]
  <1> DEFINE e == Entry(name, parameters, members)
  <1>1. e.parameters = parameters
    BY DEF Entry, Fields
  <1> HIDE DEF e
  <1>2. Concerned(f, e) = Parameters[parameters]
    BY <1>1 DEF Concerned
  <1> QED
    BY <1>2 DEF e

\* The variants of an entry send what it sends.
LEMMA VariantsOK ==
  ASSUME NEW f, NEW e, EntryOK(f, e)
  PROVE  EntryOK(f, Strict(e)) /\ EntryOK(f, Relays(e)) /\ EntryOK(f, Returns(e))
         /\ EntryOK(f, Unnamed(e))
  <1>1. DOMAIN e = Fields
    BY DEF EntryOK
  <1>2. ASSUME NEW d, DOMAIN d = Fields, d.name = e.name, d.parameters = e.parameters,
               d.members = e.members, d.optional = e.optional, d.named \in BOOLEAN,
               d.missing \in {-1, 0}
        PROVE  EntryOK(f, d)
    <2>1. Concerned(f, d) = Concerned(f, e)
      BY <1>2 DEF Concerned
    <2> QED
      BY <1>2, <2>1 DEF EntryOK
  <1>3. e.named \in BOOLEAN /\ e.missing \in {-1, 0}
    BY DEF EntryOK
  <1>4. EntryOK(f, Strict(e))
    <2> DEFINE d == Strict(e)
    <2>1. /\ DOMAIN d = Fields /\ d.name = e.name /\ d.parameters = e.parameters
          /\ d.members = e.members /\ d.optional = e.optional
      BY <1>1 DEF Fields, Strict
    <2>2. d.named = e.named /\ d.missing = -1
      BY <1>1 DEF Fields, Strict
    <2> QED
      BY <1>2, <1>3, <2>1, <2>2
  <1>5. EntryOK(f, Relays(e))
    <2> DEFINE d == Relays(e)
    <2>1. /\ DOMAIN d = Fields /\ d.name = e.name /\ d.parameters = e.parameters
          /\ d.members = e.members /\ d.optional = e.optional
      BY <1>1 DEF Fields, Relays
    <2>2. d.named = e.named /\ d.missing = e.missing
      BY <1>1 DEF Fields, Relays
    <2> QED
      BY <1>2, <1>3, <2>1, <2>2
  <1>6. EntryOK(f, Returns(e))
    <2> DEFINE d == Returns(e)
    <2>1. /\ DOMAIN d = Fields /\ d.name = e.name /\ d.parameters = e.parameters
          /\ d.members = e.members /\ d.optional = e.optional
      BY <1>1 DEF Fields, Returns, Strict
    <2>2. d.named = e.named /\ d.missing = -1
      BY <1>1 DEF Fields, Returns, Strict
    <2> QED
      BY <1>2, <1>3, <2>1, <2>2
  <1>7. EntryOK(f, Unnamed(e))
    <2> DEFINE d == Unnamed(e)
    <2>1. /\ DOMAIN d = Fields /\ d.name = e.name /\ d.parameters = e.parameters
          /\ d.members = e.members /\ d.optional = e.optional
      BY <1>1 DEF Fields, Unnamed
    <2>2. d.named = FALSE /\ d.missing = e.missing
      BY <1>1 DEF Fields, Unnamed
    <2> QED
      BY <1>2, <1>3, <2>1, <2>2
  <1> QED
    BY <1>4, <1>5, <1>6, <1>7

\* A function without parameters.
LEMMA AsksOK ==
  ASSUME NEW f, NEW name, name # "auth",
         f \notin {"authenticate", "change_password", "remove_user", "add_group", "remove_group",
                   "create_sender", "disconnect"}
  PROVE  EntryOK(f, Asks(name))
  <1>1. /\ "corelink_server_request_base" \in DOMAIN Parameters
        /\ Parameters["corelink_server_request_base"] = {}
    BY ParametersOf DEF SimpleParameters
  <1>2. DOMAIN EmptyObject = {} /\ Meant(EmptyObject)
    BY DEF EmptyObject, Meant
  <1>3. Concerned(f, Entry(name, "corelink_server_request_base", EmptyObject)) = {}
    BY <1>1, ConcernedByAll
  <1>4. EntryOK(f, Entry(name, "corelink_server_request_base", EmptyObject))
    BY <1>1, <1>2, <1>3, EntryWholeIsOK
  <1> QED
    BY <1>4 DEF Asks
\* A function that takes all its parameters.
LEMMA SendsOK ==
  ASSUME NEW f, NEW name, NEW parameters \in DOMAIN Parameters, NEW members,
         name # "auth",
         f \notin {"authenticate", "change_password", "remove_user", "add_group", "remove_group",
                   "create_sender", "disconnect"},
         DOMAIN members \cap Reserved = {}, Meant(members),
         \A m \in DOMAIN members : members[m] \in Parameters[parameters],
         \A p \in Parameters[parameters] : \E m \in DOMAIN members : members[m] = p
  PROVE  EntryOK(f, Entry(name, parameters, members))
  <1>1. Concerned(f, Entry(name, parameters, members)) = Parameters[parameters]
    BY ConcernedByAll
  <1> QED
    BY <1>1, EntryWholeIsOK

\* The entries of each section of the table.
LEMMA SessionOK == SectionOK(SessionFunctions)
  <1>1. EntryOK("authenticate", SessionFunctions["authenticate"])
    <2> DEFINE ms == [username |-> "username", password |-> "password"]
               e == Entry("auth", "authenticate_client_request", ms)
    <2>1. /\ "authenticate_client_request" \in DOMAIN Parameters
          /\ Parameters["authenticate_client_request"] = {"username", "password"}
      BY ParametersOf DEF SimpleParameters
    <2>2. /\ DOMAIN ms = {"username", "password"}
          /\ ms["username"] = "username" /\ ms["password"] = "password"
      OBVIOUS
    <2> HIDE DEF ms
    <2>3. DOMAIN ms \cap Reserved = {} /\ Meant(ms)
      BY <2>2, AccountMeanings DEF Reserved, Meant
    <2>4. Concerned("authenticate", e) = {"username", "password"}
      BY <2>1, ConcernedByAll
    <2>5. EntryOK("authenticate", e)
      BY <2>1, <2>2, <2>3, <2>4, EntryWholeIsOK
    <2>6. EntryOK("authenticate", Strict(e))
      BY <2>5, VariantsOK
    <2>7. EntryOK("authenticate", [Strict(e) EXCEPT !.token = FALSE])
      <3> HIDE DEF e
      <3> DEFINE s == Strict(e)
                 d == [s EXCEPT !.token = FALSE]
      <3>1. EntryOK("authenticate", s)
        BY <2>6
      <3> HIDE DEF s
      <3>2. DOMAIN s = Fields
        BY <3>1 DEF EntryOK
      <3>3. /\ DOMAIN d = Fields /\ d.name = s.name /\ d.parameters = s.parameters
            /\ d.members = s.members /\ d.optional = s.optional
            /\ d.named = s.named /\ d.missing = s.missing
        BY <3>2 DEF Fields
      <3> HIDE DEF d
      <3>4. Concerned("authenticate", d) = Concerned("authenticate", s)
        BY <3>3 DEF Concerned
      <3>5. EntryOK("authenticate", d)
        BY <3>1, <3>3, <3>4 DEF EntryOK
      <3> QED
        BY <3>5 DEF d, s
    <2>8. SessionFunctions["authenticate"] = [Strict(e) EXCEPT !.token = FALSE]
      BY DEF SessionFunctions, ms
    <2> QED
      BY <2>7, <2>8
  <1>2. EntryOK("list_client_functions", SessionFunctions["list_client_functions"])
    BY AsksOK, VariantsOK DEF SessionFunctions
  <1>3. EntryOK("list_server_functions", SessionFunctions["list_server_functions"])
    BY AsksOK, VariantsOK DEF SessionFunctions
  <1>4. EntryOK("keep_alive", SessionFunctions["keep_alive"])
    BY AsksOK DEF SessionFunctions
  <1> QED
    BY <1>1, <1>2, <1>3, <1>4 DEF SectionOK, SessionFunctions

LEMMA DescribeOK == SectionOK(DescribeFunctions)
  <1>0. /\ "describe_function_request" \in DOMAIN Parameters
        /\ Parameters["describe_function_request"] =
             {"function_name"}
    BY ParametersOf DEF SimpleParameters
  <1>1. ASSUME NEW f, NEW name, name # "auth",
               f \notin {"authenticate", "change_password", "remove_user", "add_group",
                         "remove_group", "create_sender", "disconnect"}
        PROVE  EntryOK(f, Describe(name))
    <2> DEFINE ms == [functionName |-> "function_name"]
    <2>1. /\ DOMAIN ms = {"functionName"}
          /\ ms["functionName"] = "function_name"
      OBVIOUS
    <2> HIDE DEF ms
    <2>2. DOMAIN ms \cap Reserved = {} /\ Meant(ms)
      BY <2>1, AccountMeanings DEF Reserved, Meant
    <2>3. EntryOK(f, Entry(name, "describe_function_request", ms))
      BY <1>0, <1>1, <2>1, <2>2, SendsOK
    <2>4. EntryOK(f, Relays(Entry(name, "describe_function_request", ms)))
      BY <2>3, VariantsOK
    <2> QED
      BY <2>4 DEF Describe, ms
  <1>2. EntryOK("describe_client_function", DescribeFunctions["describe_client_function"])
    BY <1>1 DEF DescribeFunctions
  <1>3. EntryOK("describe_server_function", DescribeFunctions["describe_server_function"])
    BY <1>1 DEF DescribeFunctions
  <1> QED
    BY <1>2, <1>3 DEF SectionOK, DescribeFunctions

LEMMA WorkspaceOK == SectionOK(WorkspaceFunctions)
  <1>0. /\ "modify_workspace_request" \in DOMAIN Parameters
        /\ Parameters["modify_workspace_request"] =
             {"workspace_name"}
    BY ParametersOf DEF SimpleParameters
  <1>1. ASSUME NEW f, NEW name, name # "auth",
               f \notin {"authenticate", "change_password", "remove_user", "add_group",
                         "remove_group", "create_sender", "disconnect"}
        PROVE  EntryOK(f, Workspace(name))
    <2> DEFINE ms == [workspace |-> "workspace_name"]
    <2>1. DOMAIN ms = {"workspace"} /\ ms["workspace"] = "workspace_name"
      OBVIOUS
    <2> HIDE DEF ms
    <2>2. DOMAIN ms \cap Reserved = {} /\ Meant(ms)
      BY <2>1, StreamMeanings DEF Reserved, Meant
    <2>3. EntryOK(f, Entry(name, "modify_workspace_request", ms))
      BY <1>0, <1>1, <2>1, <2>2, SendsOK
    <2> QED
      BY <2>3 DEF Workspace, ms
  <1>2. EntryOK("list_workspaces", WorkspaceFunctions["list_workspaces"])
    BY AsksOK, VariantsOK DEF WorkspaceFunctions
  <1>3. EntryOK("add_workspace", WorkspaceFunctions["add_workspace"])
    BY <1>1 DEF WorkspaceFunctions
  <1>4. EntryOK("remove_workspace", WorkspaceFunctions["remove_workspace"])
    BY <1>1 DEF WorkspaceFunctions
  <1>5. EntryOK("set_default_workspace", WorkspaceFunctions["set_default_workspace"])
    BY <1>1 DEF WorkspaceFunctions
  <1>6. EntryOK("get_default_workspace", WorkspaceFunctions["get_default_workspace"])
    BY AsksOK, VariantsOK DEF WorkspaceFunctions
  <1> QED
    BY <1>2, <1>3, <1>4, <1>5, <1>6 DEF SectionOK, WorkspaceFunctions

LEMMA UserOK == SectionOK(UserFunctions)
  <1>0. /\ "modify_user_request" \in DOMAIN Parameters
        /\ Parameters["modify_user_request"] =
             {"username", "password", "first_name", "last_name", "email_id", "admin"}
    BY ParametersOf DEF SimpleParameters
  <1>1. EntryOK("add_user", UserFunctions["add_user"])
    <2> DEFINE ms == [username |-> "username", password |-> "password", first |-> "first_name",
                      last |-> "last_name", email |-> "email_id", admin |-> "admin"]
    <2>1. /\ DOMAIN ms = {"username", "password", "first", "last", "email", "admin"}
          /\ ms["username"] = "username"
          /\ ms["password"] = "password"
          /\ ms["first"] = "first_name"
          /\ ms["last"] = "last_name"
          /\ ms["email"] = "email_id"
          /\ ms["admin"] = "admin"
      OBVIOUS
    <2> HIDE DEF ms
    <2>2. DOMAIN ms \cap Reserved = {} /\ Meant(ms)
      BY <2>1, AccountMeanings DEF Reserved, Meant
    <2> DEFINE e == Entry("addUser", "modify_user_request", ms)
    <2>4. EntryOK("add_user", e)
      BY <2>1, <2>2, <1>0, SendsOK
    <2>5. UserFunctions["add_user"] = e
      BY DEF UserFunctions, ms
    <2> QED
      BY <2>4, <2>5
  <1>2. EntryOK("change_password", UserFunctions["change_password"])
    <2> DEFINE ms == [password |-> "password"]
    <2>1. DOMAIN ms = {"password"} /\ ms["password"] = "password"
      OBVIOUS
    <2> HIDE DEF ms
    <2>2. DOMAIN ms \cap Reserved = {} /\ Meant(ms)
      BY <2>1, AccountMeanings DEF Reserved, Meant
    <2> DEFINE e == Entry("password", "modify_user_request", ms)
    <2>3. Concerned("change_password", e) = {"password"}
      <3>1. e.parameters = "modify_user_request"
        BY DEF Entry
      <3> HIDE DEF e
      <3> QED
        BY <3>1, <1>0 DEF Concerned
    <2>4. EntryOK("change_password", e)
      BY <2>1, <2>2, <2>3, <1>0, EntryWholeIsOK
    <2>5. UserFunctions["change_password"] = e
      BY DEF UserFunctions, ms
    <2> QED
      BY <2>4, <2>5
  <1>3. EntryOK("remove_user", UserFunctions["remove_user"])
    <2> DEFINE ms == [username |-> "username"]
    <2>1. DOMAIN ms = {"username"} /\ ms["username"] = "username"
      OBVIOUS
    <2> HIDE DEF ms
    <2>2. DOMAIN ms \cap Reserved = {} /\ Meant(ms)
      BY <2>1, AccountMeanings DEF Reserved, Meant
    <2> DEFINE e == Entry("rmUser", "modify_user_request", ms)
    <2>3. Concerned("remove_user", e) = {"username"}
      <3>1. e.parameters = "modify_user_request"
        BY DEF Entry
      <3> HIDE DEF e
      <3> QED
        BY <3>1, <1>0 DEF Concerned
    <2>4. EntryOK("remove_user", e)
      BY <2>1, <2>2, <2>3, <1>0, EntryWholeIsOK
    <2>5. UserFunctions["remove_user"] = e
      BY DEF UserFunctions, ms
    <2> QED
      BY <2>4, <2>5
  <1>4. EntryOK("list_users", UserFunctions["list_users"])
    BY AsksOK DEF UserFunctions
  <1> QED
    BY <1>1, <1>2, <1>3, <1>4 DEF SectionOK, UserFunctions

LEMMA GroupOK == SectionOK(GroupFunctions)
  <1>0. /\ "modify_group_request" \in DOMAIN Parameters
        /\ Parameters["modify_group_request"] =
             {"group_name", "username"}
    BY ParametersOf DEF StreamParameters
  <1>1. ASSUME NEW f \in {"add_group", "remove_group"}, NEW name, name # "auth"
        PROVE  EntryOK(f, Group(name))
    <2> DEFINE ms == [group |-> "group_name"]
    <2>1. DOMAIN ms = {"group"} /\ ms["group"] = "group_name"
      OBVIOUS
    <2> HIDE DEF ms
    <2>2. DOMAIN ms \cap Reserved = {} /\ Meant(ms)
      BY <2>1, AccountMeanings DEF Reserved, Meant
    <2> DEFINE e == Entry(name, "modify_group_request", ms)
    <2>3. Concerned(f, e) = {"group_name"}
      <3>1. e.parameters = "modify_group_request"
        BY DEF Entry
      <3> HIDE DEF e
      <3> QED
        BY <3>1, <1>0 DEF Concerned
    <2>4. EntryOK(f, e)
      BY <1>0, <1>1, <2>1, <2>2, <2>3, EntryWholeIsOK
    <2> QED
      BY <2>4 DEF Group, ms
  <1>2. ASSUME NEW f, NEW name, name # "auth",
               f \notin {"authenticate", "change_password", "remove_user", "add_group",
                         "remove_group", "create_sender", "disconnect"}
        PROVE  EntryOK(f, GroupUser(name))
    <2> DEFINE ms == [group |-> "group_name", user |-> "username"]
    <2>1. /\ DOMAIN ms = {"group", "user"}
          /\ ms["group"] = "group_name"
          /\ ms["user"] = "username"
      OBVIOUS
    <2> HIDE DEF ms
    <2>2. DOMAIN ms \cap Reserved = {} /\ Meant(ms)
      BY <2>1, AccountMeanings DEF Reserved, Meant
    <2>3. EntryOK(f, Entry(name, "modify_group_request", ms))
      BY <1>0, <1>2, <2>1, <2>2, SendsOK
    <2> QED
      BY <2>3 DEF GroupUser, ms
  <1>3. EntryOK("add_group", GroupFunctions["add_group"])
    BY <1>1 DEF GroupFunctions
  <1>4. EntryOK("add_group_user", GroupFunctions["add_group_user"])
    BY <1>2 DEF GroupFunctions
  <1>5. EntryOK("remove_group_user", GroupFunctions["remove_group_user"])
    BY <1>2 DEF GroupFunctions
  <1>6. EntryOK("change_group_owner", GroupFunctions["change_group_owner"])
    BY <1>2 DEF GroupFunctions
  <1>7. EntryOK("remove_group", GroupFunctions["remove_group"])
    BY <1>1 DEF GroupFunctions
  <1>8. EntryOK("list_groups", GroupFunctions["list_groups"])
    BY AsksOK, VariantsOK DEF GroupFunctions
  <1> QED
    BY <1>3, <1>4, <1>5, <1>6, <1>7, <1>8 DEF SectionOK, GroupFunctions

LEMMA StreamOK == SectionOK(StreamFunctions)
  <1>0. /\ "list_streams_request" \in DOMAIN Parameters
        /\ Parameters["list_streams_request"] =
             {"workspaces", "types"}
        /\ "stream_info_request" \in DOMAIN Parameters
        /\ Parameters["stream_info_request"] =
             {"stream_id"}
        /\ "modify_stream_subscription_request" \in DOMAIN Parameters
        /\ Parameters["modify_stream_subscription_request"] =
             {"receiver_id", "stream_ids"}
    BY ParametersOf DEF StreamParameters
  <1>1. EntryOK("list_streams", StreamFunctions["list_streams"])
    <2> DEFINE ms == [workspaces |-> "workspaces", types |-> "types"]
    <2>1. /\ DOMAIN ms = {"workspaces", "types"}
          /\ ms["workspaces"] = "workspaces"
          /\ ms["types"] = "types"
      OBVIOUS
    <2> HIDE DEF ms
    <2>2. DOMAIN ms \cap Reserved = {} /\ Meant(ms)
      BY <2>1, StreamMeanings DEF Reserved, Meant
    <2> DEFINE e == Entry("listStreams", "list_streams_request", ms)
    <2>4. EntryOK("list_streams", e)
      BY <2>1, <2>2, <1>0, SendsOK
    <2> HIDE DEF e
    <2>5. EntryOK("list_streams", Relays(e))
      BY <2>4, VariantsOK
    <2>6. StreamFunctions["list_streams"] = Relays(e)
      BY DEF StreamFunctions, ms, e
    <2> QED
      BY <2>5, <2>6
  <1>2. EntryOK("stream_info", StreamFunctions["stream_info"])
    <2> DEFINE ms == [streamID |-> "stream_id"]
    <2>1. DOMAIN ms = {"streamID"} /\ ms["streamID"] = "stream_id"
      OBVIOUS
    <2> HIDE DEF ms
    <2>2. DOMAIN ms \cap Reserved = {} /\ Meant(ms)
      BY <2>1, StreamMeanings DEF Reserved, Meant
    <2> DEFINE e == Entry("streamInfo", "stream_info_request", ms)
    <2>4. EntryOK("stream_info", e)
      BY <2>1, <2>2, <1>0, SendsOK
    <2> HIDE DEF e
    <2>5. EntryOK("stream_info", Unnamed(Relays(e)))
      BY <2>4, VariantsOK
    <2>6. StreamFunctions["stream_info"] = Unnamed(Relays(e))
      BY DEF StreamFunctions, ms, e
    <2> QED
      BY <2>5, <2>6
  <1>3. EntryOK("subscribe", StreamFunctions["subscribe"])
    <2> DEFINE ms == [receiverID |-> "receiver_id", streamIDs |-> "stream_ids"]
    <2>1. /\ DOMAIN ms = {"receiverID", "streamIDs"}
          /\ ms["receiverID"] = "receiver_id"
          /\ ms["streamIDs"] = "stream_ids"
      OBVIOUS
    <2> HIDE DEF ms
    <2>2. DOMAIN ms \cap Reserved = {} /\ Meant(ms)
      BY <2>1, StreamMeanings DEF Reserved, Meant
    <2> DEFINE e == Entry("subscribe", "modify_stream_subscription_request", ms)
    <2>4. EntryOK("subscribe", e)
      BY <2>1, <2>2, <1>0, SendsOK
    <2> HIDE DEF e
    <2>5. EntryOK("subscribe", Returns(e))
      BY <2>4, VariantsOK
    <2>6. StreamFunctions["subscribe"] = Returns(e)
      BY DEF StreamFunctions, ms, e
    <2> QED
      BY <2>5, <2>6
  <1> QED
    BY <1>1, <1>2, <1>3 DEF SectionOK, StreamFunctions

LEMMA EndOK == SectionOK(EndFunctions)
  <1>0. /\ "modify_stream_subscription_request" \in DOMAIN Parameters
        /\ Parameters["modify_stream_subscription_request"] =
             {"receiver_id", "stream_ids"}
        /\ "disconnect_streams_request" \in DOMAIN Parameters
        /\ Parameters["disconnect_streams_request"] =
             {"workspace", "types", "streamIDs"}
    BY ParametersOf DEF DataStreamParameters, StreamParameters
  <1>1. EntryOK("unsubscribe", EndFunctions["unsubscribe"])
    <2> DEFINE ms == [receiverID |-> "receiver_id", streamID |-> "stream_ids"]
    <2>1. /\ DOMAIN ms = {"receiverID", "streamID"}
          /\ ms["receiverID"] = "receiver_id"
          /\ ms["streamID"] = "stream_ids"
      OBVIOUS
    <2> HIDE DEF ms
    <2>2. DOMAIN ms \cap Reserved = {} /\ Meant(ms)
      BY <2>1, StreamMeanings DEF Reserved, Meant
    <2> DEFINE e == Entry("unsubscribe", "modify_stream_subscription_request", ms)
    <2>4. EntryOK("unsubscribe", e)
      BY <2>1, <2>2, <1>0, SendsOK
    <2> HIDE DEF e
    <2>5. EntryOK("unsubscribe", Unnamed(Relays(e)))
      BY <2>4, VariantsOK
    <2>6. EndFunctions["unsubscribe"] = Unnamed(Relays(e))
      BY DEF EndFunctions, ms, e
    <2> QED
      BY <2>5, <2>6
  <1>2. EntryOK("disconnect", EndFunctions["disconnect"])
    <2> DEFINE ms == [streamIDs |-> "streamIDs", types |-> "types", workspaces |-> "types"]
    <2>1. /\ DOMAIN ms = {"streamIDs", "types", "workspaces"}
          /\ ms["streamIDs"] = "streamIDs"
          /\ ms["types"] = "types"
          /\ ms["workspaces"] = "types"
      OBVIOUS
    <2> HIDE DEF ms
    <2>2. /\ DOMAIN ms \cap Reserved = {}
          /\ \A m \in DOMAIN ms \ {"workspaces"} : m \in DOMAIN Means /\ ms[m] \in Means[m]
      BY <2>1, StreamMeanings DEF Reserved
    <2> DEFINE e == Entry("disconnect", "disconnect_streams_request", ms)
    <2>3. Concerned("disconnect", e) = {"workspace", "types", "streamIDs"}
      <3>1. e.parameters = "disconnect_streams_request"
        BY DEF Entry
      <3> HIDE DEF e
      <3> QED
        BY <3>1, <1>0 DEF Concerned
    <2> HIDE DEF e
    <2>4. EntryOK("disconnect", Entry("disconnect", "disconnect_streams_request", ms))
      <3>1. Misplaced("disconnect") = {"workspaces"} /\ Unsent("disconnect") = {"workspace"}
        BY DEF Misplaced, Unsent
      <3>2. \A p \in {"workspace", "types", "streamIDs"} \ Unsent("disconnect") :
              \E m \in DOMAIN ms \ Misplaced("disconnect") : ms[m] = p
        BY <2>1, <3>1
      <3> QED
        BY <2>1, <2>2, <2>3, <3>1, <3>2, <1>0, EntryIsOK DEF e
    <2>9. EntryOK("disconnect", e)
      BY <2>4 DEF e
    <2>5. EntryOK("disconnect", Returns(e))
      BY <2>9, VariantsOK
    <2>6. EndFunctions["disconnect"] = Returns(e)
      BY DEF EndFunctions, ms, e
    <2> QED
      BY <2>5, <2>6
  <1>3. EntryOK("expire_user_session", EndFunctions["expire_user_session"])
    BY AsksOK, VariantsOK DEF EndFunctions
  <1> QED
    BY <1>1, <1>2, <1>3 DEF SectionOK, EndFunctions

\* The entries of the functions that create a stream leave out what is not set.
LEMMA CreateOK == SectionOK(CreateFunctions)
  <1>0. /\ "modify_sender_stream_request" \in DOMAIN Parameters
        /\ Parameters["modify_sender_stream_request"] =
             DataStreamBase \cup {"stream_id", "forwarded_from_stream"}
        /\ "modify_receiver_stream_request" \in DOMAIN Parameters
        /\ Parameters["modify_receiver_stream_request"] =
             DataStreamBase \cup {"receiver_stream_id", "stream_ids"}
    BY ParametersOf DEF DataStreamParameters
  <1>1. EntryOK("create_sender", SenderFunction)
    <2> DEFINE ms == [proto |-> "protocol", alert |-> "alert", workspace |-> "workspace",
                      streamID |-> "stream_id", from |-> "forwarded_from_stream",
                      type |-> "stream_type", meta |-> "meta"]
               left == {"workspace", "streamID", "from", "type", "meta"}
               d == [Entry("sender", "modify_sender_stream_request", ms) EXCEPT !.optional = left]
    <2>1. /\ DOMAIN ms = {"proto", "alert", "workspace", "streamID", "from", "type", "meta"}
          /\ ms["proto"] = "protocol"
          /\ ms["alert"] = "alert"
          /\ ms["workspace"] = "workspace"
          /\ ms["streamID"] = "stream_id"
          /\ ms["from"] = "forwarded_from_stream"
          /\ ms["type"] = "stream_type"
          /\ ms["meta"] = "meta"
      OBVIOUS
    <2> HIDE DEF ms
    <2>2. /\ DOMAIN ms \cap Reserved = {} /\ left \subseteq DOMAIN ms /\ Meant(ms)
          /\ \A m \in DOMAIN ms, o \in left : ms[m] = ms[o] => m \in left
      BY <2>1, StreamMeanings DEF Reserved, Meant
    <2> HIDE DEF left
    <2>3. /\ DOMAIN d = Fields /\ d.name = "sender" /\ d.members = ms /\ d.optional = left
          /\ d.parameters = "modify_sender_stream_request" /\ d.named = TRUE /\ d.missing = 0
      BY DEF Entry, Fields
    <2>4. Concerned("create_sender", d) = Parameters["modify_sender_stream_request"] \ {"echo"}
      <3>1. d.parameters = "modify_sender_stream_request"
        BY <2>3
      <3> HIDE DEF d
      <3> QED
        BY <3>1 DEF Concerned
    <2> HIDE DEF d
    <2> DEFINE ps == Parameters["modify_sender_stream_request"] \ {"echo"}
    <2>5. /\ \A m \in DOMAIN ms : ms[m] \in ps
          /\ \A v \in ps : \E m \in DOMAIN ms : ms[m] = v
      BY <1>0, <2>1 DEF DataStreamBase
    <2>6. ps \subseteq Parameters["modify_sender_stream_request"]
      OBVIOUS
    <2>7. ps = Concerned("create_sender", d)
      BY <2>4
    <2> HIDE DEF ps
    <2>8. EntryOK("create_sender", d)
      BY <1>0, <2>2, <2>3, <2>5, <2>6, <2>7 DEF EntryOK, Meant, Misplaced, Unsent
    <2> QED
      BY <2>8 DEF SenderFunction, d, ms, left
  <1>2. EntryOK("create_receiver", ReceiverFunction)
    <2> DEFINE ms == [proto |-> "protocol", alert |-> "alert", echo |-> "echo",
                      workspace |-> "workspace", receiverID |-> "receiver_stream_id",
                      streamIDs |-> "stream_ids", type |-> "stream_type", meta |-> "meta"]
               left == {"workspace", "receiverID", "streamIDs", "type", "meta"}
               d == [Entry("receiver", "modify_receiver_stream_request", ms)
                       EXCEPT !.optional = left]
    <2>1. /\ DOMAIN ms = {"proto", "alert", "echo", "workspace", "receiverID", "streamIDs",
                          "type", "meta"}
          /\ ms["proto"] = "protocol"
          /\ ms["alert"] = "alert"
          /\ ms["echo"] = "echo"
          /\ ms["workspace"] = "workspace"
          /\ ms["receiverID"] = "receiver_stream_id"
          /\ ms["streamIDs"] = "stream_ids"
          /\ ms["type"] = "stream_type"
          /\ ms["meta"] = "meta"
      OBVIOUS
    <2> HIDE DEF ms
    <2>2. /\ DOMAIN ms \cap Reserved = {} /\ left \subseteq DOMAIN ms /\ Meant(ms)
          /\ \A m \in DOMAIN ms, o \in left : ms[m] = ms[o] => m \in left
      BY <2>1, StreamMeanings DEF Reserved, Meant
    <2> HIDE DEF left
    <2>3. /\ DOMAIN d = Fields /\ d.name = "receiver" /\ d.members = ms /\ d.optional = left
          /\ d.parameters = "modify_receiver_stream_request" /\ d.named = TRUE /\ d.missing = 0
      BY DEF Entry, Fields
    <2>4. Concerned("create_receiver", d) = Parameters["modify_receiver_stream_request"]
      <3>1. d.parameters = "modify_receiver_stream_request"
        BY <2>3
      <3> HIDE DEF d
      <3> QED
        BY <3>1 DEF Concerned
    <2> HIDE DEF d
    <2> DEFINE ps == Parameters["modify_receiver_stream_request"]
    <2>5. /\ \A m \in DOMAIN ms : ms[m] \in ps
          /\ \A v \in ps : \E m \in DOMAIN ms : ms[m] = v
      BY <1>0, <2>1 DEF DataStreamBase
    <2>6. ps \subseteq Parameters["modify_receiver_stream_request"]
      OBVIOUS
    <2>7. ps = Concerned("create_receiver", d)
      BY <2>4
    <2> HIDE DEF ps
    <2>8. EntryOK("create_receiver", d)
      BY <1>0, <2>2, <2>3, <2>5, <2>6, <2>7 DEF EntryOK, Meant, Misplaced, Unsent
    <2> QED
      BY <2>8 DEF ReceiverFunction, d, ms, left
  <1>3. /\ DOMAIN CreateFunctions = {"create_sender", "create_receiver"}
        /\ CreateFunctions["create_sender"] = SenderFunction
        /\ CreateFunctions["create_receiver"] = ReceiverFunction
    BY DEF CreateFunctions
  <1> QED
    BY <1>1, <1>2, <1>3 DEF SectionOK

\* A lookup in a merged object finds the first of a name.
LEMMA Merged ==
  ASSUME NEW object, NEW members
  PROVE  /\ DOMAIN WithMembers(object, members) = DOMAIN object \cup DOMAIN members
         /\ \A m \in DOMAIN object : WithMembers(object, members)[m] = object[m]
         /\ \A m \in DOMAIN members \ DOMAIN object :
              WithMembers(object, members)[m] = members[m]
  BY DEF WithMembers

LEMMA FoundFirst ==
  ASSUME NEW object, NEW members, NEW m \in DOMAIN object
  PROVE  m \in DOMAIN WithMembers(object, members) /\ WithMembers(object, members)[m] = object[m]
  BY Merged

\* Merging sections keeps the entries of both.
LEMMA SectionsMerged ==
  ASSUME NEW s, NEW t, SectionOK(s), SectionOK(t)
  PROVE  SectionOK(WithMembers(s, t))
  <1> DEFINE w == WithMembers(s, t)
  <1>1. ASSUME NEW f \in DOMAIN w
        PROVE  EntryOK(f, w[f])
    <2>1. /\ DOMAIN w = DOMAIN s \cup DOMAIN t
          /\ \A m \in DOMAIN s : w[m] = s[m]
          /\ \A m \in DOMAIN t \ DOMAIN s : w[m] = t[m]
      BY Merged
    <2> HIDE DEF w
    <2>2. CASE f \in DOMAIN s
      BY <2>1, <2>2 DEF SectionOK
    <2>3. CASE f \notin DOMAIN s
      BY <1>1, <2>1, <2>3 DEF SectionOK
    <2> QED
      BY <2>2, <2>3
  <1> QED
    BY <1>1 DEF SectionOK

\* The entries of every function of the table.
LEMMA TableOK == SectionOK(Table)
  <1> DEFINE a == WithMembers(SessionFunctions, DescribeFunctions)
             b == WithMembers(WorkspaceFunctions, UserFunctions)
             c == WithMembers(GroupFunctions, StreamFunctions)
             d == WithMembers(EndFunctions, CreateFunctions)
  <1>1. SectionOK(a) /\ SectionOK(b) /\ SectionOK(c) /\ SectionOK(d)
    BY SectionsMerged, SessionOK, DescribeOK, WorkspaceOK, UserOK, GroupOK, StreamOK, EndOK,
       CreateOK
  <1>2. SectionOK(WithMembers(a, b)) /\ SectionOK(WithMembers(c, d))
    BY <1>1, SectionsMerged
  <1>3. SectionOK(WithMembers(WithMembers(a, b), WithMembers(c, d)))
    BY <1>2, SectionsMerged
  <1> QED
    BY <1>3 DEF Table

\* authenticate takes a missing statusCode for a failure.
LEMMA AuthenticateStrict ==
  "authenticate" \in DOMAIN Table /\ Table["authenticate"].missing = -1
  <1> DEFINE a == WithMembers(SessionFunctions, DescribeFunctions)
             b == WithMembers(WorkspaceFunctions, UserFunctions)
             c == WithMembers(WithMembers(GroupFunctions, StreamFunctions),
                              WithMembers(EndFunctions, CreateFunctions))
             e == SessionFunctions["authenticate"]
  <1>1. "authenticate" \in DOMAIN SessionFunctions
    BY DEF SessionFunctions
  <1> HIDE DEF c, e
  <1>2. "authenticate" \in DOMAIN a /\ a["authenticate"] = e
    BY <1>1, FoundFirst DEF e
  <1> HIDE DEF a
  <1> DEFINE ab == WithMembers(a, b)
  <1>3. "authenticate" \in DOMAIN ab /\ ab["authenticate"] = e
    BY <1>2, FoundFirst
  <1> HIDE DEF ab
  <1>4. "authenticate" \in DOMAIN WithMembers(ab, c) /\ WithMembers(ab, c)["authenticate"] = e
    BY <1>3, FoundFirst
  <1>5. SessionFunctions["authenticate"].missing = -1
    BY DEF SessionFunctions, Strict, Entry
  <1> QED
    BY <1>4, <1>5 DEF Table, a, c, ab, e
-----------------------------------------------------------------------------
(* The calls *)

\* What is known of the entry of a function that can be called.
LEMMA EntryOf ==
  ASSUME NEW f \in Functions
  PROVE  EntryOK(f, Table[f]) /\ Concerning(f) = Concerned(f, Table[f])
  BY TableOK DEF SectionOK, Functions, Concerning, Concerned

\* A document that names the call and its function, and carries the token and the
\* parameters that are set.
DocumentOf(d, c, call, t) ==
  LET entry == Table[call.function] IN
  /\ d # NoDocument /\ "ID" \in DOMAIN d /\ d.ID = c
  /\ DOMAIN d \ Reserved = Carried(call.function, call.unset)
  /\ "function" \in DOMAIN d <=> entry.named
  /\ entry.named => d.function = entry.name
  /\ "token" \in DOMAIN d => d.token = t
  /\ \A m \in Carried(call.function, call.unset) : d[m] = <<c, entry.members[m]>>

\* The members of a request do not hide each other.
LEMMA DocumentIs ==
  ASSUME NEW c, NEW call, call.function \in Functions, NEW t
  PROVE  DocumentOf(Document(c, call, t), c, call, t)
  <1> DEFINE f == call.function
             entry == Table[f]
             own == [function |-> entry.name, token |-> t, IP |-> t]
             given == (IF entry.named THEN {"function"} ELSE {})
                        \cup (IF entry.token THEN {"token"} ELSE {})
                        \cup (IF f \in Creates THEN {"IP"} ELSE {})
             head == [m \in given |-> own[m]]
             body == Asking(c, call)
             most == WithMembers(head, body)
             last == [m \in {"ID"} |-> c]
             d == WithMembers(most, last)
  <1>1. Document(c, call, t) = d
    BY DEF Document, WithMember
  <1>2. EntryOK(f, entry)
    BY EntryOf
  <1>3. /\ DOMAIN head = given /\ given \subseteq {"function", "token", "IP"}
        /\ "function" \in given <=> entry.named
        /\ "function" \in given => head["function"] = entry.name
        /\ "token" \in given => head["token"] = t
    OBVIOUS
  <1>4. /\ DOMAIN body = Carried(f, call.unset)
        /\ \A m \in DOMAIN body : body[m] = <<c, entry.members[m]>>
    BY DEF Asking
  <1>5. Carried(f, call.unset) \cap Reserved = {}
    BY <1>2 DEF EntryOK, Carried
  <1>6. DOMAIN last = {"ID"} /\ last["ID"] = c
    OBVIOUS
  <1> HIDE DEF head, body, last, given
  <1>7. /\ DOMAIN most = DOMAIN head \cup DOMAIN body
        /\ \A m \in DOMAIN head : most[m] = head[m]
        /\ \A m \in DOMAIN body \ DOMAIN head : most[m] = body[m]
    BY Merged
  <1> HIDE DEF most
  <1>8. /\ DOMAIN d = DOMAIN most \cup DOMAIN last
        /\ \A m \in DOMAIN most : d[m] = most[m]
        /\ \A m \in DOMAIN last \ DOMAIN most : d[m] = last[m]
    BY Merged
  <1> HIDE DEF d, entry
  <1>9. "ID" \in DOMAIN d /\ d["ID"] = c
    BY <1>3, <1>4, <1>5, <1>6, <1>7, <1>8 DEF Reserved
  <1>10. DOMAIN d \ Reserved = Carried(f, call.unset)
    BY <1>3, <1>4, <1>5, <1>6, <1>7, <1>8 DEF Reserved
  <1>11. ("function" \in DOMAIN d <=> entry.named)
         /\ (entry.named => d["function"] = entry.name)
    BY <1>3, <1>4, <1>5, <1>6, <1>7, <1>8 DEF Reserved
  <1>12. "token" \in DOMAIN d => d["token"] = t
    BY <1>3, <1>4, <1>5, <1>6, <1>7, <1>8 DEF Reserved
  <1>13. \A m \in Carried(f, call.unset) : d[m] = <<c, entry.members[m]>>
    BY <1>3, <1>4, <1>5, <1>6, <1>7, <1>8 DEF Reserved
  <1>14. d # NoDocument
    BY <1>9 DEF NoDocument, EmptyObject
  <1>15. DocumentOf(d, c, call, t)
    BY <1>9, <1>10, <1>11, <1>12, <1>13, <1>14 DEF DocumentOf, entry
  <1> QED
    BY <1>1, <1>15

\* What a call's document says is what was asked.
LEMMA SaysWhatIsAsked ==
  ASSUME NEW c, NEW call, NEW t, NEW d, DocumentOf(d, c, call, t), call.function \in Functions,
         call.unset \subseteq Optional(call.function)
  PROVE  LET set == Concerning(call.function) \ call.unset
             members == DOMAIN d \ (Reserved \cup Misplaced(call.function))
         IN  /\ \A m \in members :
                  m \in DOMAIN Means
                  /\ \E p \in Means[m] \cap set : d[m] = <<c, p>>
             /\ \A p \in set \ Unsent(call.function) : \E m \in members : d[m] = <<c, p>>
  <1> DEFINE f == call.function
             entry == Table[f]
             sent == DOMAIN d \ Reserved
             members == DOMAIN d \ (Reserved \cup Misplaced(f))
             meant == Concerning(f) \ call.unset
  <1>1. EntryOK(f, entry) /\ Concerning(f) = Concerned(f, entry)
    BY EntryOf
  <1>2. sent = Carried(f, call.unset) /\ \A m \in sent : d[m] = <<c, entry.members[m]>>
    BY DEF DocumentOf
  <1>3. ASSUME NEW m \in sent
        PROVE  entry.members[m] \in meant
    <2>1. /\ m \in DOMAIN entry.members
          /\ ~(m \in entry.optional /\ entry.members[m] \in call.unset)
      BY <1>2, <1>3 DEF Carried
    <2>2. entry.members[m] \in Concerning(f)
      BY <1>1, <2>1 DEF EntryOK
    <2>3. ASSUME entry.members[m] \in call.unset
          PROVE  FALSE
      <3>1. PICK o \in entry.optional : entry.members[m] = entry.members[o]
        BY <2>3 DEF Optional
      <3>2. m \in entry.optional
        BY <1>1, <2>1, <3>1 DEF EntryOK
      <3> QED
        BY <2>1, <2>3, <3>2
    <2> QED
      BY <2>2, <2>3
  <1>4. ASSUME NEW p \in meant \ Unsent(f)
        PROVE  \E m \in sent \ Misplaced(f) : entry.members[m] = p
    <2>1. PICK m \in DOMAIN entry.members \ Misplaced(f) : entry.members[m] = p
      BY <1>1, <1>4 DEF EntryOK
    <2>2. m \in Carried(f, call.unset)
      BY <1>4, <2>1 DEF Carried
    <2> QED
      BY <1>2, <2>1, <2>2
  <1>5. ASSUME NEW m \in sent \ Misplaced(f)
        PROVE  m \in DOMAIN Means /\ entry.members[m] \in Means[m]
    <2>1. m \in DOMAIN entry.members \ Misplaced(f)
      BY <1>2, <1>5 DEF Carried
    <2> QED
      BY <1>1, <2>1 DEF EntryOK
  <1>6. members = sent \ Misplaced(f)
    OBVIOUS
  <1> HIDE DEF sent, meant, entry, members
  <1>7. \A m \in members : m \in DOMAIN Means /\ \E p \in Means[m] \cap meant : d[m] = <<c, p>>
    BY <1>2, <1>3, <1>5, <1>6
  <1>8. \A p \in meant \ Unsent(f) : \E m \in members : d[m] = <<c, p>>
    BY <1>2, <1>4, <1>6
  <1> QED
    BY <1>7, <1>8 DEF members, meant
-----------------------------------------------------------------------------
(* The invariants *)

\* What was asked stays, as it was asked.
AskedInv ==
  /\ Made \subseteq Calls
  /\ \A c \in Made : /\ asked[c] \in Call
                     /\ asked[c].unset \subseteq Optional(asked[c].function)

\* One call is outstanding, as a request, as an answer or in its handler, and
\* its request is its document with the token the client has.
ChannelInv ==
  /\ outstanding \in Made \cup {NoCall}
  /\ pc \in {"idle", "callback"}
  /\ outstanding = NoCall => request = NoDocument /\ answer = NoDocument /\ pc = "idle"
  /\ pc = "callback" => request = NoDocument /\ answer = NoDocument
  /\ request # NoDocument =>
       /\ answer = NoDocument
       /\ DocumentOf(request, outstanding, asked[outstanding], auth_token)
  /\ answer # NoDocument => answer.ID = outstanding

\* A call waits, is on its way, is answered and is reported once each.
Done == DOMAIN performed \cup unstated

FreshInv ==
  /\ waiting \in Seq(Made)
  /\ \A i, j \in 1..Len(waiting) : waiting[i] = waiting[j] => i = j
  /\ \A i \in 1..Len(waiting) :
       waiting[i] # outstanding /\ waiting[i] \notin Done \cup DOMAIN reported
  /\ Done \subseteq Made /\ DOMAIN reported \subseteq Made
  /\ request # NoDocument => outstanding \notin Done \cup DOMAIN reported
  /\ answer # NoDocument => outstanding \notin DOMAIN reported

\* Only an answer that says authenticate succeeded holds a later token.
SessionInv ==
  /\ sessions \in Nat
  /\ auth_token \in 0..sessions /\ granted \in 0..sessions
  /\ IF /\ answer # NoDocument
        /\ asked[outstanding].function = "authenticate"
        /\ GetInt(answer, "statusCode", -1) = 0
       THEN GetStr(answer, "token", 0) = granted
       ELSE auth_token = granted

\* The answer on its way says whether its call was performed.
AnswerInv ==
  answer # NoDocument =>
    /\ outstanding \notin unstated =>
         /\ "statusCode" \in DOMAIN answer /\ answer["statusCode"][1] = "int"
         /\ answer["statusCode"][2] = IF outstanding \in DOMAIN performed THEN 0 ELSE 1
    /\ outstanding \in unstated =>
         ~("statusCode" \in DOMAIN answer /\ answer["statusCode"][1] = "int")
    /\ "result" \in DOMAIN answer =>
         answer["result"][2] = outstanding /\ outstanding \in DOMAIN performed

ReportedInv ==
  \A c \in DOMAIN reported :
    LET response == reported[c] IN
      /\ response.status \in -1..1
      /\ response.given /\ c \notin unstated =>
           (response.status = 0 <=> c \in DOMAIN performed)
      /\ response.given /\ c \in unstated =>
           response.status = Table[asked[c].function].missing
      /\ response.result # NoCall => response.result = c /\ c \in DOMAIN performed

PerformedInv ==
  \A c \in DOMAIN performed :
    /\ Table[asked[c].function].named
    /\ \E t : DocumentOf(performed[c], c, asked[c], t)

EventInv ==
  /\ event.kind \in Kinds \cup {"none"}
  /\ event.kind = "subscriber" => event.handed = event.sent

CallsInv ==
  /\ AskedInv /\ ChannelInv /\ FreshInv /\ SessionInv /\ AnswerInv /\ ReportedInv
  /\ PerformedInv /\ EventInv
\* A member that is added leaves the others alone.
LEMMA Added ==
  ASSUME NEW object, NEW name, NEW value
  PROVE  /\ DOMAIN WithMember(object, name, value) = DOMAIN object \cup {name}
         /\ \A m \in DOMAIN object : WithMember(object, name, value)[m] = object[m]
         /\ name \notin DOMAIN object => WithMember(object, name, value)[name] = value
  BY DEF WithMember, WithMembers

LEMMA CallsInvInit == Init => CallsInv
  <1> SUFFICES ASSUME Init PROVE CallsInv
    OBVIOUS
  <1> USE DEF Init
  <1>0. Made = {} /\ DOMAIN performed = {} /\ DOMAIN reported = {} /\ Done = {}
    BY DEF Made, EmptyObject, Done
  <1>1. AskedInv
    BY <1>0 DEF AskedInv
  <1>2. ChannelInv
    BY DEF ChannelInv
  <1>3. FreshInv
    BY <1>0 DEF FreshInv
  <1>4. SessionInv
    BY DEF SessionInv
  <1>5. AnswerInv
    BY DEF AnswerInv
  <1>6. ReportedInv
    BY <1>0 DEF ReportedInv
  <1>7. PerformedInv
    BY <1>0 DEF PerformedInv
  <1>8. EventInv
    BY DEF EventInv, NoEvent
  <1> QED
    BY <1>1, <1>2, <1>3, <1>4, <1>5, <1>6, <1>7, <1>8 DEF CallsInv

\* A call that is made is sent, or waits behind the others.
LEMMA RequestKeeps ==
  ASSUME CallsInv, NEW c \in Calls, NEW f \in Offered[c], NEW unset \in Unset(f),
         Request(c, f, unset)
  PROVE  CallsInv'
  <1> DEFINE call == [function |-> f, unset |-> unset]
  <1> USE DEF CallsInv
  <1>1. /\ c \notin Made /\ asked' = WithMember(asked, c, call)
        /\ UNCHANGED <<auth_token, answer, pc, sessions, granted, performed, unstated, reported,
                       event>>
    BY DEF Request, serverVars
  <1>2. /\ Made' = Made \cup {c}
        /\ \A m \in Made : asked'[m] = asked[m]
        /\ asked'[c] = call
    <2> HIDE DEF call
    <2> DEFINE w == WithMember(asked, c, call)
    <2>1. /\ DOMAIN w = Made \cup {c} /\ \A m \in Made : w[m] = asked[m]
          /\ w[c] = call
      BY <1>1, Added DEF Made
    <2> HIDE DEF w
    <2>2. asked' = w
      BY <1>1 DEF w
    <2> QED
      BY <2>1, <2>2 DEF Made
  <1>3. f \in Functions
    BY CallsAssumption
  <1>4. /\ unset \subseteq Optional(f)
        /\ unset \subseteq UNION {Parameters[p] : p \in DOMAIN Parameters}
    <2>1. EntryOK(f, Table[f])
      BY <1>3, EntryOf
    <2>2. Optional(f) \subseteq Parameters[Table[f].parameters]
      BY <2>1 DEF EntryOK, Optional
    <2> QED
      BY <2>1, <2>2 DEF Unset, EntryOK
  <1>5. call \in Call /\ call.function = f /\ call.unset = unset
    BY <1>3, <1>4 DEF Call
  <1>6. \/ /\ outstanding # NoCall
           /\ waiting' = Append(waiting, c) /\ UNCHANGED <<outstanding, request>>
        \/ /\ outstanding = NoCall
           /\ outstanding' = c /\ request' = Document(c, call, auth_token) /\ UNCHANGED waiting
    BY DEF Request, Dispatch
  <1>7. DocumentOf(Document(c, call, auth_token), c, call, auth_token)
    BY <1>3, <1>5, DocumentIs
  <1> HIDE DEF call
  <1>8. /\ c \notin Done \cup DOMAIN reported /\ c # outstanding /\ c # NoCall
        /\ \A i \in 1..Len(waiting) : waiting[i] \in Made /\ waiting[i] # c
        /\ Done' = Done
    BY <1>1, CallsAssumption DEF FreshInv, ChannelInv, Done
  <1>9. AskedInv'
    BY <1>2, <1>4, <1>5 DEF AskedInv
  <1>10. ChannelInv'
    <2>1. CASE outstanding # NoCall
      BY <1>1, <1>2, <1>6, <2>1 DEF ChannelInv
    <2>2. CASE outstanding = NoCall
      BY <1>1, <1>2, <1>6, <1>7, <1>8, <2>2 DEF ChannelInv
    <2> QED
      BY <2>1, <2>2
  <1>11. FreshInv'
    <2>1. CASE outstanding # NoCall
      <3>1. waiting' = Append(waiting, c) /\ outstanding' = outstanding /\ request' = request
        BY <1>6, <2>1
      <3>2. waiting \in Seq(Made) /\ Len(waiting) \in Nat
        BY DEF FreshInv
      <3>3. waiting' \in Seq(Made \cup {c})
        BY <3>1, <3>2
      <3>4. /\ Len(waiting') = Len(waiting) + 1 /\ waiting'[Len(waiting) + 1] = c
            /\ \A i \in 1..Len(waiting) : waiting'[i] = waiting[i]
        BY <3>1, <3>2
      <3>5. \A i \in 1..Len(waiting') : i \in 1..Len(waiting) \/ i = Len(waiting) + 1
        BY <3>2, <3>4
      <3>6. \A i, j \in 1..Len(waiting') : waiting'[i] = waiting'[j] => i = j
        BY <1>8, <3>4, <3>5 DEF FreshInv
      <3>7. \A i \in 1..Len(waiting') :
              waiting'[i] # outstanding' /\ waiting'[i] \notin Done \cup DOMAIN reported
        BY <1>8, <3>1, <3>4, <3>5 DEF FreshInv
      <3> QED
        BY <1>1, <1>2, <1>8, <3>1, <3>3, <3>6, <3>7 DEF FreshInv
    <2>2. CASE outstanding = NoCall
      <3>1. waiting' = waiting /\ outstanding' = c
        BY <1>6, <2>2
      <3>2. waiting \in Seq(Made \cup {c})
        BY DEF FreshInv
      <3>3. answer' = NoDocument
        BY <1>1, <2>2 DEF ChannelInv
      <3> QED
        BY <1>1, <1>2, <1>8, <3>1, <3>2, <3>3 DEF FreshInv
    <2> QED
      BY <2>1, <2>2
  <1>12. answer # NoDocument =>
           outstanding' = outstanding /\ asked'[outstanding] = asked[outstanding]
    BY <1>2, <1>6 DEF ChannelInv
  <1>13. SessionInv'
    BY <1>1, <1>12 DEF SessionInv
  <1>14. AnswerInv'
    BY <1>1, <1>12 DEF AnswerInv
  <1>15. ReportedInv'
    BY <1>1, <1>2 DEF ReportedInv, FreshInv
  <1>16. PerformedInv'
    BY <1>1, <1>2 DEF PerformedInv, FreshInv, Done
  <1>17. EventInv'
    BY <1>1 DEF EventInv
  <1> QED
    BY <1>9, <1>10, <1>11, <1>13, <1>14, <1>15, <1>16, <1>17
\* An answer gives statusCode, as a number in one of its forms only, and the rest.
LEMMA AnswerIs ==
  ASSUME NEW code, NEW form \in StatusForms, NEW rest,
         "ID" \in DOMAIN rest, "statusCode" \notin DOMAIN rest
  PROVE  LET a == WithMembers(Status(code, form), rest) IN
         /\ a # NoDocument
         /\ form = "int" => "statusCode" \in DOMAIN a /\ a["statusCode"] = <<"int", code>>
         /\ form # "int" => ~("statusCode" \in DOMAIN a /\ a["statusCode"][1] = "int")
         /\ \A m \in DOMAIN rest : m \in DOMAIN a /\ a[m] = rest[m]
         /\ DOMAIN a \subseteq DOMAIN rest \cup {"statusCode"}
  <1> DEFINE s == Status(code, form)
             a == WithMembers(s, rest)
  <1>1. /\ DOMAIN s \subseteq {"statusCode"}
        /\ form = "int" => "statusCode" \in DOMAIN s /\ s["statusCode"] = <<"int", code>>
        /\ form # "int" /\ "statusCode" \in DOMAIN s => s["statusCode"] = <<"string", code>>
    <2>1. CASE form = "int"
      BY <2>1 DEF Status
    <2>2. CASE form = "string"
      BY <2>2 DEF Status
    <2>3. CASE form = "absent"
      BY <2>3 DEF Status, EmptyObject
    <2> QED
      BY <2>1, <2>2, <2>3, CallsAssumption
  <1> HIDE DEF s
  <1>2. /\ DOMAIN a = DOMAIN s \cup DOMAIN rest
        /\ \A m \in DOMAIN s : a[m] = s[m]
        /\ \A m \in DOMAIN rest \ DOMAIN s : a[m] = rest[m]
    BY Merged
  <1> HIDE DEF a
  <1>3. a # NoDocument
    BY <1>2 DEF NoDocument, EmptyObject
  <1>4. form # "int" => ~("statusCode" \in DOMAIN a /\ a["statusCode"][1] = "int")
    BY <1>1, <1>2
  <1>5. form = "int" => "statusCode" \in DOMAIN a /\ a["statusCode"] = <<"int", code>>
    BY <1>1, <1>2
  <1>6. /\ \A m \in DOMAIN rest : m \in DOMAIN a /\ a[m] = rest[m]
        /\ DOMAIN a \subseteq DOMAIN rest \cup {"statusCode"}
    BY <1>1, <1>2
  <1> QED
    BY <1>3, <1>4, <1>5, <1>6 DEF a, s

\* What every answer leaves alone, and what it must say.
LEMMA AnsweredKeeps ==
  ASSUME CallsInv, NEW form \in StatusForms, request # NoDocument, Answered(form),
         answer' # NoDocument, answer'.ID = Caller,
         performed' = performed \/ performed' = WithMember(performed, Caller, request)
  PROVE  /\ AskedInv' /\ ChannelInv' /\ FreshInv' /\ ReportedInv' /\ EventInv'
         /\ Caller = outstanding /\ answer = NoDocument
         /\ UNCHANGED <<asked, outstanding, auth_token>>
         /\ DocumentOf(request, outstanding, asked[outstanding], auth_token)
         /\ outstanding \in Made /\ outstanding \notin DOMAIN performed
         /\ outstanding \in unstated' <=> form # "int"
         /\ \A c \in DOMAIN performed' \ {outstanding} :
              c \in DOMAIN performed /\ performed'[c] = performed[c]
         /\ performed' # performed =>
              outstanding \in DOMAIN performed' /\ performed'[outstanding] = request
         /\ performed' = performed => outstanding \notin DOMAIN performed'
  <1> USE DEF CallsInv
  <1>1. /\ request' = NoDocument
        /\ unstated' = IF form = "int" THEN unstated ELSE unstated \cup {Caller}
        /\ UNCHANGED <<auth_token, waiting, outstanding, asked, pc, reported, event>>
    BY DEF Answered, clientVars
  <1>2. /\ DocumentOf(request, outstanding, asked[outstanding], auth_token)
        /\ answer = NoDocument /\ outstanding \in Made /\ pc = "idle"
    BY DEF ChannelInv
  <1>3. Caller = outstanding
    BY <1>2 DEF DocumentOf, Caller
  <1>4. outstanding \notin Done \cup DOMAIN reported
    BY DEF FreshInv
  <1>5. /\ DOMAIN performed \subseteq DOMAIN performed'
        /\ DOMAIN performed' \subseteq DOMAIN performed \cup {outstanding}
        /\ \A c \in DOMAIN performed : performed'[c] = performed[c]
        /\ performed' # performed =>
             outstanding \in DOMAIN performed' /\ performed'[outstanding] = request
    <2>1. CASE performed' = performed
      BY <2>1
    <2>2. CASE performed' = WithMember(performed, outstanding, request)
      <3> DEFINE w == WithMember(performed, outstanding, request)
      <3>1. /\ DOMAIN w = DOMAIN performed \cup {outstanding}
            /\ \A m \in DOMAIN performed : w[m] = performed[m]
            /\ w[outstanding] = request
        BY <1>4 DEF Done, WithMember, WithMembers
      <3> HIDE DEF w
      <3>2. performed' = w
        BY <2>2 DEF w
      <3> QED
        BY <3>1, <3>2
    <2> QED
      BY <1>3, <2>1, <2>2
  <1>6. Done \subseteq Done' /\ Done' \subseteq Done \cup {outstanding}
    BY <1>1, <1>3, <1>5 DEF Done
  <1>7. AskedInv'
    BY <1>1 DEF AskedInv, Made
  <1>8. ChannelInv'
    BY <1>1, <1>2, <1>3 DEF ChannelInv, Made
  <1>9. FreshInv'
    <2>1. waiting' = waiting /\ Made' = Made /\ outstanding' = outstanding /\ reported' = reported
      BY <1>1 DEF Made
    <2> QED
      BY <1>1, <1>2, <1>4, <1>6, <2>1 DEF FreshInv
  <1>10. \A c \in DOMAIN reported :
           /\ c # outstanding
           /\ c \in unstated' <=> c \in unstated
           /\ c \in DOMAIN performed' <=> c \in DOMAIN performed
    BY <1>1, <1>3, <1>4, <1>5
  <1>11. ReportedInv'
    BY <1>1, <1>10 DEF ReportedInv
  <1>12. EventInv'
    BY <1>1 DEF EventInv
  <1>13. outstanding \in unstated' <=> form # "int"
    BY <1>1, <1>3, <1>4 DEF Done
  <1> QED
    BY <1>1, <1>2, <1>3, <1>4, <1>5, <1>7, <1>8, <1>9, <1>11, <1>12, <1>13 DEF Done

\* The function a request names is that of its call.
LEMMA NamedAsAsked ==
  ASSUME NEW d, NEW c, NEW call, NEW t, DocumentOf(d, c, call, t), IsNamed(d),
         call.function \in Functions
  PROVE  /\ d # NoDocument
         /\ Table[call.function].named
         /\ (d.function = "auth") <=> (call.function = "authenticate")
  <1>1. EntryOK(call.function, Table[call.function])
    BY EntryOf
  <1>2. d # NoDocument /\ Table[call.function].named /\ d.function = Table[call.function].name
    BY DEF DocumentOf, IsNamed
  <1> QED
    BY <1>1, <1>2 DEF EntryOK
\* The server answers authenticate with a later session.
LEMMA OpenSessionKeeps ==
  ASSUME CallsInv, NEW form \in StatusForms, OpenSession(form)
  PROVE  CallsInv'
  <1> DEFINE c == outstanding
             f == asked[outstanding].function
             rest == [ID |-> Caller, token |-> <<"string", sessions'>>]
  <1>1. /\ IsNamed(request) /\ request.function = "auth"
        /\ Answered(form) /\ answer' = WithMembers(Status(0, form), rest)
        /\ performed' = WithMember(performed, Caller, request)
        /\ sessions' = sessions + 1 /\ granted' = IF form = "int" THEN sessions' ELSE granted
    BY DEF OpenSession
  <1>2. request # NoDocument
    BY <1>1 DEF IsNamed, NoDocument, EmptyObject
  <1>3. /\ DOMAIN rest = {"ID", "token"} /\ rest["ID"] = Caller
        /\ rest["token"] = <<"string", sessions'>>
    OBVIOUS
  <1> HIDE DEF rest
  <1>4. /\ answer' # NoDocument
        /\ form = "int" => "statusCode" \in DOMAIN answer' /\ answer'["statusCode"] = <<"int", 0>>
        /\ form # "int" => ~("statusCode" \in DOMAIN answer' /\ answer'["statusCode"][1] = "int")
        /\ \A m \in DOMAIN rest : m \in DOMAIN answer' /\ answer'[m] = rest[m]
        /\ DOMAIN answer' \subseteq DOMAIN rest \cup {"statusCode"}
    BY <1>1, <1>3, AnswerIs
  <1>5. answer'.ID = Caller
    BY <1>3, <1>4
  <1>6. /\ AskedInv' /\ ChannelInv' /\ FreshInv' /\ ReportedInv' /\ EventInv'
        /\ Caller = c /\ answer = NoDocument /\ UNCHANGED <<asked, outstanding, auth_token>>
        /\ DocumentOf(request, c, asked[c], auth_token)
        /\ c \in Made /\ c \notin DOMAIN performed
        /\ c \in unstated' <=> form # "int"
        /\ \A d \in DOMAIN performed' \ {c} :
             d \in DOMAIN performed /\ performed'[d] = performed[d]
        /\ performed' # performed => c \in DOMAIN performed' /\ performed'[c] = request
        /\ performed' = performed => c \notin DOMAIN performed'
    BY <1>1, <1>2, <1>4, <1>5, AnsweredKeeps
  <1>7. f \in Functions
    BY <1>6 DEF CallsInv, AskedInv, Call
  <1>8. /\ c \in DOMAIN performed' /\ performed'[c] = request /\ Table[f].named
        /\ request.function = "auth" <=> f = "authenticate"
    <2>1. c \in DOMAIN performed' /\ performed'[c] = request
      <3> DEFINE w == WithMember(performed, c, request)
      <3>1. c \in DOMAIN w /\ w[c] = request
        BY <1>6 DEF WithMember, WithMembers
      <3> HIDE DEF w
      <3>2. performed' = w
        BY <1>1, <1>6 DEF w
      <3> QED
        BY <3>1, <3>2
    <2> QED
      BY <1>1, <1>6, <1>7, <2>1, NamedAsAsked
  <1>9. PerformedInv'
    <2>1. ASSUME NEW d \in DOMAIN performed'
          PROVE  /\ Table[asked'[d].function].named
                 /\ \E t : DocumentOf(performed'[d], d, asked'[d], t)
      <3>1. CASE d = c
        BY <1>6, <1>8, <3>1
      <3>2. CASE d # c
        BY <1>6, <2>1, <3>2 DEF CallsInv, PerformedInv
      <3> QED
        BY <3>1, <3>2
    <2> QED
      BY <2>1 DEF PerformedInv
  <1>10. AnswerInv'
    BY <1>3, <1>4, <1>6, <1>8 DEF AnswerInv
  <1>11. SessionInv'
    <2>1. /\ sessions \in Nat /\ auth_token \in 0..sessions /\ granted \in 0..sessions
          /\ auth_token = granted
      BY <1>6 DEF CallsInv, SessionInv
    <2>2. /\ sessions' \in Nat /\ auth_token' \in 0..sessions' /\ granted' \in 0..sessions'
      BY <1>1, <1>6, <2>1
    <2>3. CASE form = "int"
      <3>1. GetStr(answer', "token", 0) = sessions'
        BY <1>3, <1>4 DEF GetStr
      <3>2. GetInt(answer', "statusCode", -1) = 0
        BY <1>4, <2>3 DEF GetInt
      <3>3. asked'[outstanding'].function = "authenticate"
        BY <1>1, <1>6, <1>8
      <3> QED
        BY <1>1, <1>4, <2>2, <2>3, <3>1, <3>2, <3>3 DEF SessionInv
    <2>4. CASE form # "int"
      <3>1. GetInt(answer', "statusCode", -1) = -1
        BY <1>4, <2>4 DEF GetInt
      <3> QED
        BY <1>1, <1>6, <2>1, <2>2, <2>4, <3>1 DEF SessionInv
    <2> QED
      BY <2>3, <2>4
  <1> QED
    BY <1>6, <1>9, <1>10, <1>11 DEF CallsInv

\* The server answers a call of a session with its result.
LEMMA PerformKeeps ==
  ASSUME CallsInv, NEW form \in StatusForms, Perform(form)
  PROVE  CallsInv'
  <1> DEFINE c == outstanding
             f == asked[outstanding].function
             rest == [ID |-> Caller, result |-> <<"result", Caller>>]
  <1>1. /\ IsNamed(request) /\ request.function # "auth"
        /\ Answered(form) /\ answer' = WithMembers(Status(0, form), rest)
        /\ performed' = WithMember(performed, Caller, request)
        /\ UNCHANGED <<sessions, granted>>
    BY DEF Perform
  <1>2. request # NoDocument
    BY <1>1 DEF IsNamed, NoDocument, EmptyObject
  <1>3. /\ DOMAIN rest = {"ID", "result"} /\ rest["ID"] = Caller
        /\ rest["result"] = <<"result", Caller>>
    OBVIOUS
  <1> HIDE DEF rest
  <1>4. /\ answer' # NoDocument
        /\ form = "int" => "statusCode" \in DOMAIN answer' /\ answer'["statusCode"] = <<"int", 0>>
        /\ form # "int" => ~("statusCode" \in DOMAIN answer' /\ answer'["statusCode"][1] = "int")
        /\ \A m \in DOMAIN rest : m \in DOMAIN answer' /\ answer'[m] = rest[m]
        /\ DOMAIN answer' \subseteq DOMAIN rest \cup {"statusCode"}
    BY <1>1, <1>3, AnswerIs
  <1>5. answer'.ID = Caller
    BY <1>3, <1>4
  <1>6. /\ AskedInv' /\ ChannelInv' /\ FreshInv' /\ ReportedInv' /\ EventInv'
        /\ Caller = c /\ answer = NoDocument /\ UNCHANGED <<asked, outstanding, auth_token>>
        /\ DocumentOf(request, c, asked[c], auth_token)
        /\ c \in Made /\ c \notin DOMAIN performed
        /\ c \in unstated' <=> form # "int"
        /\ \A d \in DOMAIN performed' \ {c} :
             d \in DOMAIN performed /\ performed'[d] = performed[d]
        /\ performed' # performed => c \in DOMAIN performed' /\ performed'[c] = request
        /\ performed' = performed => c \notin DOMAIN performed'
    BY <1>1, <1>2, <1>4, <1>5, AnsweredKeeps
  <1>7. f \in Functions
    BY <1>6 DEF CallsInv, AskedInv, Call
  <1>8. /\ c \in DOMAIN performed' /\ performed'[c] = request /\ Table[f].named
        /\ request.function = "auth" <=> f = "authenticate"
    <2>1. c \in DOMAIN performed' /\ performed'[c] = request
      <3> DEFINE w == WithMember(performed, c, request)
      <3>1. c \in DOMAIN w /\ w[c] = request
        BY <1>6 DEF WithMember, WithMembers
      <3> HIDE DEF w
      <3>2. performed' = w
        BY <1>1, <1>6 DEF w
      <3> QED
        BY <3>1, <3>2
    <2> QED
      BY <1>1, <1>6, <1>7, <2>1, NamedAsAsked
  <1>9. PerformedInv'
    <2>1. ASSUME NEW d \in DOMAIN performed'
          PROVE  /\ Table[asked'[d].function].named
                 /\ \E t : DocumentOf(performed'[d], d, asked'[d], t)
      <3>1. CASE d = c
        BY <1>6, <1>8, <3>1
      <3>2. CASE d # c
        BY <1>6, <2>1, <3>2 DEF CallsInv, PerformedInv
      <3> QED
        BY <3>1, <3>2
    <2> QED
      BY <2>1 DEF PerformedInv
  <1>10. AnswerInv'
    BY <1>3, <1>4, <1>6, <1>8 DEF AnswerInv
  <1>11. SessionInv'
    <2>1. /\ sessions \in Nat /\ auth_token \in 0..sessions /\ granted \in 0..sessions
          /\ auth_token = granted
      BY <1>6 DEF CallsInv, SessionInv
    <2>2. asked'[outstanding'].function # "authenticate"
      BY <1>1, <1>6, <1>8
    <2> QED
      BY <1>1, <1>6, <2>1, <2>2 DEF SessionInv
  <1> QED
    BY <1>6, <1>9, <1>10, <1>11 DEF CallsInv

\* The server answers that it does not do what is asked.
LEMMA RefuseKeeps ==
  ASSUME CallsInv, NEW form \in StatusForms, Refuse(form)
  PROVE  CallsInv'
  <1> DEFINE c == outstanding
             f == asked[outstanding].function
             rest == [ID |-> Caller]
  <1>1. /\ request # NoDocument
        /\ Answered(form) /\ answer' = WithMembers(Status(1, form), rest)
        /\ UNCHANGED <<sessions, granted, performed>>
    BY DEF Refuse
  <1>2. request # NoDocument
    BY <1>1 DEF IsNamed, NoDocument, EmptyObject
  <1>3. /\ DOMAIN rest = {"ID"} /\ rest["ID"] = Caller
    OBVIOUS
  <1> HIDE DEF rest
  <1>4. /\ answer' # NoDocument
        /\ form = "int" => "statusCode" \in DOMAIN answer' /\ answer'["statusCode"] = <<"int", 1>>
        /\ form # "int" => ~("statusCode" \in DOMAIN answer' /\ answer'["statusCode"][1] = "int")
        /\ \A m \in DOMAIN rest : m \in DOMAIN answer' /\ answer'[m] = rest[m]
        /\ DOMAIN answer' \subseteq DOMAIN rest \cup {"statusCode"}
    BY <1>1, <1>3, AnswerIs
  <1>5. answer'.ID = Caller
    BY <1>3, <1>4
  <1>6. /\ AskedInv' /\ ChannelInv' /\ FreshInv' /\ ReportedInv' /\ EventInv'
        /\ Caller = c /\ answer = NoDocument /\ UNCHANGED <<asked, outstanding, auth_token>>
        /\ DocumentOf(request, c, asked[c], auth_token)
        /\ c \in Made /\ c \notin DOMAIN performed
        /\ c \in unstated' <=> form # "int"
        /\ \A d \in DOMAIN performed' \ {c} :
             d \in DOMAIN performed /\ performed'[d] = performed[d]
        /\ performed' # performed => c \in DOMAIN performed' /\ performed'[c] = request
        /\ performed' = performed => c \notin DOMAIN performed'
    BY <1>1, <1>2, <1>4, <1>5, AnsweredKeeps
  <1>7. f \in Functions
    BY <1>6 DEF CallsInv, AskedInv, Call
  <1>8. c \notin DOMAIN performed'
    BY <1>1, <1>6
  <1>9. PerformedInv'
    BY <1>1, <1>6 DEF CallsInv, PerformedInv
  <1>10. AnswerInv'
    BY <1>3, <1>4, <1>6, <1>8 DEF AnswerInv
  <1>11. SessionInv'
    <2>1. /\ sessions \in Nat /\ auth_token \in 0..sessions /\ granted \in 0..sessions
          /\ auth_token = granted
      BY <1>6 DEF CallsInv, SessionInv
    <2>2. GetInt(answer', "statusCode", -1) \in {1, -1}
      BY <1>4 DEF GetInt
    <2>3. GetInt(answer', "statusCode", -1) # 0
      BY <2>2
    <2> QED
      BY <1>1, <1>6, <2>1, <2>3 DEF SessionInv
  <1> QED
    BY <1>6, <1>9, <1>10, <1>11 DEF CallsInv

\* The server does not answer.
LEMMA IgnoreKeeps ==
  ASSUME CallsInv, Ignore
  PROVE  CallsInv'
  <1>1. /\ request' = NoDocument
        /\ UNCHANGED <<auth_token, waiting, outstanding, asked, answer, pc, sessions, granted,
                       performed, unstated, reported, event>>
    BY DEF Ignore, clientVars, serverVars
  <1>2. Made' = Made /\ Done' = Done
    BY <1>1 DEF Made, Done
  <1>3. AskedInv' /\ EventInv'
    BY <1>1, <1>2 DEF CallsInv, AskedInv, EventInv
  <1>4. ChannelInv' /\ FreshInv'
    BY <1>1, <1>2 DEF CallsInv, ChannelInv, FreshInv
  <1>5. SessionInv' /\ AnswerInv'
    BY <1>1 DEF CallsInv, SessionInv, AnswerInv
  <1>6. ReportedInv' /\ PerformedInv'
    BY <1>1 DEF CallsInv, ReportedInv, PerformedInv
  <1> QED
    BY <1>3, <1>4, <1>5, <1>6 DEF CallsInv
\* The answer is reported, and the token of a session that was opened kept.
LEMMA ReportKeeps ==
  ASSUME CallsInv, Report
  PROVE  CallsInv'
  <1> DEFINE c == outstanding
             f == asked[c].function
             response == Response(f, answer)
             status == GetInt(answer, "statusCode", Table[f].missing)
  <1>1. /\ pc = "idle" /\ answer # NoDocument /\ answer' = NoDocument /\ pc' = "callback"
        /\ UNCHANGED <<asked, waiting, outstanding, request, sessions, granted, performed,
                       unstated, event>>
    BY DEF Report, serverVars
  <1>2. /\ answer.ID = c /\ c \in Made /\ request = NoDocument /\ outstanding # NoCall
    BY <1>1 DEF CallsInv, ChannelInv
  <1>3. /\ reported' = WithMember(reported, c, response)
        /\ auth_token' = IF f = "authenticate" /\ response.status = 0
                           THEN GetStr(answer, "token", 0) ELSE auth_token
    BY <1>2 DEF Report
  <1>4. c \notin DOMAIN reported
    BY <1>1 DEF CallsInv, FreshInv
  <1>5. f \in Functions
    BY <1>2 DEF CallsInv, AskedInv, Call
  <1>6. Table[f].missing \in {-1, 0}
    BY <1>5, EntryOf DEF EntryOK
  <1>7. /\ c \notin unstated => status = IF c \in DOMAIN performed THEN 0 ELSE 1
        /\ c \in unstated => status = Table[f].missing
    BY <1>1 DEF CallsInv, AnswerInv, GetInt
  <1>9. /\ response.status \in -1..1
        /\ response.given /\ c \notin unstated => (response.status = 0 <=> c \in DOMAIN performed)
        /\ response.given /\ c \in unstated => response.status = Table[f].missing
        /\ response.result # NoCall => response.result = c /\ c \in DOMAIN performed
        /\ f = "authenticate" => response.status = GetInt(answer, "statusCode", -1)
    <2>1. CASE f \in Creates
      <3>1. response = [given |-> FALSE, status |-> 0, result |-> NoCall]
        BY <2>1 DEF Response, NoResponse
      <3> HIDE DEF response
      <3>2. response.status = 0 /\ response.given = FALSE /\ response.result = NoCall
        BY <3>1
      <3>3. f # "authenticate"
        BY <2>1 DEF Creates
      <3> QED
        BY <3>2, <3>3
    <2>2. CASE f \notin Creates
      <3> DEFINE listed == Table[f].result /\ "result" \in DOMAIN answer
                             /\ (status = 0 \/ Table[f].missing = 0)
                 result == IF listed THEN answer["result"][2] ELSE NoCall
      <3>1. response = [given |-> TRUE, status |-> status, result |-> result]
        BY <2>2 DEF Response
      <3>2. result # NoCall => result = c /\ c \in DOMAIN performed
        BY <1>1 DEF CallsInv, AnswerInv
      <3>3. status \in -1..1 /\ (c \notin unstated => (status = 0 <=> c \in DOMAIN performed))
        BY <1>6, <1>7
      <3>4. f = "authenticate" => status = GetInt(answer, "statusCode", -1)
        BY AuthenticateStrict
      <3> HIDE DEF response, status, result
      <3>5. response.status = status /\ response.given = TRUE /\ response.result = result
        BY <3>1
      <3> QED
        BY <1>7, <3>2, <3>3, <3>4, <3>5 DEF status
    <2> QED
      BY <2>1, <2>2
  <1> HIDE DEF response
  <1>10. /\ DOMAIN reported' = DOMAIN reported \cup {c}
         /\ \A d \in DOMAIN reported : reported'[d] = reported[d]
         /\ reported'[c] = response
    <2> DEFINE w == WithMember(reported, c, response)
    <2>1. /\ DOMAIN w = DOMAIN reported \cup {c}
          /\ \A d \in DOMAIN reported : w[d] = reported[d]
          /\ w[c] = response
      BY <1>4 DEF WithMember, WithMembers
    <2> HIDE DEF w
    <2>2. reported' = w
      BY <1>3 DEF w
    <2> QED
      BY <2>1, <2>2
  <1>11. Made' = Made /\ Done' = Done
    BY <1>1 DEF Made, Done
  <1>12. AskedInv' /\ EventInv' /\ PerformedInv'
    BY <1>1, <1>11 DEF CallsInv, AskedInv, EventInv, PerformedInv
  <1>13. ChannelInv' /\ AnswerInv'
    BY <1>1, <1>2, <1>11 DEF CallsInv, ChannelInv, AnswerInv
  <1>14. FreshInv'
    BY <1>1, <1>2, <1>10, <1>11 DEF CallsInv, FreshInv
  <1>15. SessionInv'
    <2>1. auth_token' = granted
      <3>1. CASE f = "authenticate" /\ response.status = 0
        BY <1>1, <1>3, <1>9, <3>1 DEF CallsInv, SessionInv
      <3>2. CASE ~(f = "authenticate" /\ response.status = 0)
        BY <1>1, <1>3, <1>9, <3>2 DEF CallsInv, SessionInv
      <3> QED
        BY <3>1, <3>2
    <2> QED
      BY <1>1, <2>1 DEF CallsInv, SessionInv
  <1>16. ReportedInv'
    <2>1. ASSUME NEW d \in DOMAIN reported'
          PROVE  LET r == reported'[d] IN
                   /\ r.status \in -1..1
                   /\ r.given /\ d \notin unstated => (r.status = 0 <=> d \in DOMAIN performed)
                   /\ r.given /\ d \in unstated => r.status = Table[asked[d].function].missing
                   /\ r.result # NoCall => r.result = d /\ d \in DOMAIN performed
      <3>1. CASE d = c
        BY <1>9, <1>10, <3>1
      <3>2. CASE d # c
        BY <1>10, <2>1, <3>2 DEF CallsInv, ReportedInv
      <3> QED
        BY <3>1, <3>2
    <2> QED
      BY <1>1, <2>1 DEF ReportedInv
  <1> QED
    BY <1>12, <1>13, <1>14, <1>15, <1>16 DEF CallsInv

\* The next call that waits is sent, with the token there is now.
LEMMA ReturnKeeps ==
  ASSUME CallsInv, Return
  PROVE  CallsInv'
  <1>1. /\ pc = "callback" /\ pc' = "idle"
        /\ UNCHANGED <<auth_token, asked, answer, sessions, granted, performed, unstated, reported,
                       event>>
    BY DEF Return, serverVars
  <1>2. request = NoDocument /\ answer = NoDocument
    BY <1>1 DEF CallsInv, ChannelInv
  <1>3. Made' = Made /\ Done' = Done
    BY <1>1 DEF Made, Done
  <1>4. AskedInv' /\ EventInv' /\ PerformedInv'
    BY <1>1, <1>3 DEF CallsInv, AskedInv, EventInv, PerformedInv
  <1>5. SessionInv' /\ AnswerInv' /\ ReportedInv'
    BY <1>1, <1>2 DEF CallsInv, SessionInv, AnswerInv, ReportedInv
  <1>6. waiting \in Seq(Made)
    BY DEF CallsInv, FreshInv
  <1>7. ChannelInv' /\ FreshInv'
    <2>1. CASE waiting = <<>>
      <3>1. outstanding' = NoCall /\ waiting' = waiting /\ request' = request
        BY <2>1 DEF Return
      <3>2. Len(waiting) = 0
        BY <2>1
      <3> QED
        BY <1>1, <1>2, <1>3, <3>1, <3>2 DEF CallsInv, ChannelInv, FreshInv
    <2>2. CASE waiting # <<>>
      <3> DEFINE c == Head(waiting)
                 n == Len(waiting)
      <3>1. /\ outstanding' = c /\ request' = Document(c, asked[c], auth_token)
            /\ waiting' = Tail(waiting)
        BY <2>2 DEF Return, Dispatch
      <3>2. /\ n \in Nat \ {0} /\ c = waiting[1] /\ c \in Made
            /\ waiting' \in Seq(Made) /\ Len(waiting') = n - 1
            /\ \A i \in 1..n - 1 : waiting'[i] = waiting[i + 1]
        BY <1>6, <2>2, <3>1
      <3>3. asked[c].function \in Functions
        BY <3>2 DEF CallsInv, AskedInv, Call
      <3>4. DocumentOf(request', c, asked[c], auth_token)
        BY <3>1, <3>3, DocumentIs
      <3>5. \A i \in 1..n - 1 : i + 1 \in 1..n /\ i + 1 # 1
        BY <3>2
      <3>6. ASSUME NEW i \in 1..n - 1, NEW j \in 1..n - 1, waiting'[i] = waiting'[j]
            PROVE  i = j
        <4>1. i + 1 \in 1..n /\ j + 1 \in 1..n /\ waiting[i + 1] = waiting[j + 1]
          BY <3>2, <3>5, <3>6
        <4>2. i + 1 = j + 1
          BY <4>1 DEF CallsInv, FreshInv
        <4> QED
          BY <4>2
      <3>7. 1 \in 1..n
        BY <3>2
      <3>8. \A i \in 1..n - 1 : waiting'[i] # c /\ waiting'[i] \notin Done \cup DOMAIN reported
        BY <3>2, <3>5, <3>7 DEF CallsInv, FreshInv
      <3>9. c \notin Done \cup DOMAIN reported
        BY <3>2, <3>7 DEF CallsInv, FreshInv
      <3>10. c # NoCall
        BY <3>2, CallsAssumption DEF CallsInv, AskedInv
      <3> HIDE DEF c, n
      <3>11. ChannelInv'
        BY <1>1, <1>2, <1>3, <3>1, <3>2, <3>4, <3>10 DEF ChannelInv
      <3>12. FreshInv'
        BY <1>1, <1>2, <1>3, <3>1, <3>2, <3>6, <3>8, <3>9 DEF CallsInv, FreshInv
      <3> QED
        BY <3>11, <3>12
    <2> QED
      BY <2>1, <2>2
  <1> QED
    BY <1>4, <1>5, <1>7 DEF CallsInv

\* An event turns the queue, and no more.
LEMMA EventKeeps ==
  ASSUME CallsInv, NEW kind \in Kinds, NEW id \in Ids, NEW alone \in BOOLEAN,
         Event(kind, id, alone)
  PROVE  CallsInv'
  <1>1. UNCHANGED <<auth_token, outstanding, asked, request, answer, pc, sessions, granted,
                    performed, unstated, reported>>
    BY DEF Event, serverVars
  <1>2. Made' = Made /\ Done' = Done
    BY <1>1 DEF Made, Done
  <1>3. AskedInv' /\ ChannelInv' /\ SessionInv'
    BY <1>1, <1>2 DEF CallsInv, AskedInv, ChannelInv, SessionInv
  <1>4. AnswerInv' /\ ReportedInv' /\ PerformedInv'
    BY <1>1 DEF CallsInv, AnswerInv, ReportedInv, PerformedInv
  <1>5. EventInv'
    <2>1. event' = [kind |-> kind, sent |-> id[2], handed |-> ReceiverId(kind, id)]
      BY DEF Event
    <2>2. kind = "subscriber" => ReceiverId(kind, id) = id[2]
      <3> SUFFICES ASSUME kind = "subscriber"
                   PROVE  ReceiverId(kind, id) = id[2]
        OBVIOUS
      <3>1. CASE id = <<"int", 7>>
        BY <3>1 DEF ReceiverId, GetInt, GetStr
      <3>2. CASE id = <<"string", 7>>
        BY <3>2 DEF ReceiverId, GetInt, GetStr
      <3> QED
        BY <3>1, <3>2 DEF Ids
    <2> QED
      BY <2>1, <2>2 DEF EventInv
  <1>6. FreshInv'
    <2>1. CASE waiting' = waiting
      BY <1>1, <1>2, <2>1 DEF CallsInv, FreshInv
    <2>2. CASE waiting # <<>> /\ waiting' = Append(Tail(waiting), Head(waiting))
      <3> DEFINE n == Len(waiting)
      <3>1. waiting \in Seq(Made)
        BY DEF CallsInv, FreshInv
      <3>2. /\ n \in Nat \ {0} /\ waiting' \in Seq(Made) /\ Len(waiting') = n
            /\ \A i \in 1..n - 1 : waiting'[i] = waiting[i + 1]
            /\ waiting'[n] = waiting[1]
        BY <2>2, <3>1
      <3>3. \A i \in 1..n : i = n \/ (i \in 1..n - 1 /\ i + 1 \in 1..n /\ i + 1 # 1)
        BY <3>2
      <3>4. 1 \in 1..n
        BY <3>2
      <3>5. \A i, j \in 1..n : waiting'[i] = waiting'[j] => i = j
        BY <3>2, <3>3, <3>4 DEF CallsInv, FreshInv
      <3>6. \A i \in 1..n :
              waiting'[i] # outstanding /\ waiting'[i] \notin Done \cup DOMAIN reported
        BY <3>2, <3>3, <3>4 DEF CallsInv, FreshInv
      <3> HIDE DEF n
      <3> QED
        BY <1>1, <1>2, <3>2, <3>5, <3>6 DEF CallsInv, FreshInv
    <2> QED
      BY <2>1, <2>2 DEF Event
  <1> QED
    BY <1>3, <1>4, <1>5, <1>6 DEF CallsInv
-----------------------------------------------------------------------------
(* The theorems *)

\* The invariant is inductive.
LEMMA CallsInvStep ==
  ASSUME CallsInv, [Next]_vars
  PROVE  CallsInv'
  <1>1. ASSUME NEW c \in Calls, NEW f \in Offered[c], NEW unset \in Unset(f),
               Request(c, f, unset)
        PROVE  CallsInv'
    BY <1>1, RequestKeeps
  <1>2. ASSUME NEW form \in StatusForms, OpenSession(form) \/ Perform(form) \/ Refuse(form)
        PROVE  CallsInv'
    BY <1>2, OpenSessionKeeps, PerformKeeps, RefuseKeeps
  <1>3. CASE Ignore
    BY <1>3, IgnoreKeeps
  <1>4. CASE Report
    BY <1>4, ReportKeeps
  <1>5. CASE Return
    BY <1>5, ReturnKeeps
  <1>6. ASSUME NEW kind \in Kinds, NEW id \in Ids, NEW alone \in BOOLEAN,
               Event(kind, id, alone)
        PROVE  CallsInv'
    BY <1>6, EventKeeps
  <1>7. CASE UNCHANGED vars
    <2>1. UNCHANGED <<auth_token, asked, waiting, outstanding, request, answer, pc, sessions,
                      granted, performed, unstated, reported, event>>
      BY <1>7 DEF vars, clientVars, serverVars
    <2>2. Made' = Made /\ Done' = Done
      BY <2>1 DEF Made, Done
    <2>3. AskedInv' /\ ChannelInv' /\ FreshInv' /\ SessionInv'
      BY <2>1, <2>2 DEF CallsInv, AskedInv, ChannelInv, FreshInv, SessionInv
    <2>4. AnswerInv' /\ ReportedInv' /\ PerformedInv' /\ EventInv'
      BY <2>1, <2>2 DEF CallsInv, AnswerInv, ReportedInv, PerformedInv, EventInv
    <2> QED
      BY <2>3, <2>4 DEF CallsInv
  <1> QED
    BY <1>1, <1>2, <1>3, <1>4, <1>5, <1>6, <1>7 DEF Next, Answering

LEMMA CallsInvHolds == Spec => []CallsInv
  BY CallsInvInit, CallsInvStep, PTL DEF Spec

\* The variables keep their types: every call is one of a function of the table
\* that leaves only its own parameters unset, and one document at a time is on
\* its way, that of the outstanding call.
THEOREM TypeCorrect == Spec => []TypeOK
  <1>1. CallsInv => TypeOK
    <2> SUFFICES ASSUME CallsInv PROVE TypeOK
      OBVIOUS
    <2>1. request # NoDocument => request.ID = outstanding /\ answer = NoDocument
      BY DEF CallsInv, ChannelInv, DocumentOf
    <2>2. answer # NoDocument => answer.ID = outstanding /\ pc = "idle"
      BY DEF CallsInv, ChannelInv
    <2>3. outstanding \in Made \cup {NoCall} /\ pc \in {"idle", "callback"}
      BY DEF CallsInv, ChannelInv
    <2>4. auth_token \in 0..sessions /\ granted \in 0..sessions
      BY DEF CallsInv, SessionInv
    <2>5. /\ waiting \in Seq(Made) /\ DOMAIN performed \subseteq Made /\ unstated \subseteq Made
          /\ DOMAIN reported \subseteq Made
      BY DEF CallsInv, FreshInv, Done
    <2>6. Made \subseteq Calls /\ \A c \in Made : asked[c] \in Call
      BY DEF CallsInv, AskedInv
    <2>7. /\ \A c \in DOMAIN reported : reported[c].status \in -1..1
          /\ event.kind \in Kinds \cup {"none"}
      BY DEF CallsInv, ReportedInv, EventInv
    <2> QED
      BY <2>1, <2>2, <2>3, <2>4, <2>5, <2>6, <2>7 DEF TypeOK
  <1> QED
    BY <1>1, CallsInvHolds, PTL

\* A request that carries a token carries the session's that was opened last,
\* whatever was queued when, and however often the queue was turned.
THEOREM SessionIsCarried == Spec => []LatestSessionCarried
  <1>1. CallsInv => LatestSessionCarried
    BY DEF CallsInv, ChannelInv, SessionInv, DocumentOf, LatestSessionCarried
  <1> QED
    BY <1>1, CallsInvHolds, PTL

\* Whatever the calls, their parameters and the forms of the answers: the document
\* the server acts on names the called function, and each parameter that was set
\* under a member that means it, and nothing else, but for the workspaces of
\* disconnect.
THEOREM PerformedIsAsked == Spec => []PerformedAsAsked
  <1>1. CallsInv => PerformedAsAsked
    <2> SUFFICES ASSUME CallsInv, NEW c \in DOMAIN performed
                 PROVE  AsAsked(c)
      BY DEF PerformedAsAsked
    <2>1. PICK t : DocumentOf(performed[c], c, asked[c], t)
      BY DEF CallsInv, PerformedInv
    <2>2. Table[asked[c].function].named
      BY DEF CallsInv, PerformedInv
    <2>3. c \in Made
      BY DEF CallsInv, FreshInv, Done
    <2>4. asked[c].function \in Functions /\ asked[c].unset \subseteq Optional(asked[c].function)
      BY <2>3 DEF CallsInv, AskedInv, Call
    <2>5. performed[c].function = Table[asked[c].function].name
      BY <2>1, <2>2 DEF DocumentOf
    <2> DEFINE set == Concerning(asked[c].function) \ asked[c].unset
               members == DOMAIN performed[c] \ (Reserved \cup Misplaced(asked[c].function))
    <2>6. /\ \A m \in members :
               m \in DOMAIN Means /\ \E p \in Means[m] \cap set : performed[c][m] = <<c, p>>
          /\ \A p \in set \ Unsent(asked[c].function) :
               \E m \in members : performed[c][m] = <<c, p>>
      BY <2>1, <2>4, SaysWhatIsAsked
    <2> QED
      BY <2>5, <2>6 DEF AsAsked, Reserved
  <1> QED
    BY <1>1, CallsInvHolds, PTL

\* Success is reported for what the server did, and for nothing else, if the answer
\* says so with a statusCode that is a number; without one only the functions whose
\* handlers take that for success report it.  (create_sender and create_receiver
\* report nothing.)  A result is the call's own, and an event's receiver id is
\* handed on as it was sent.
THEOREM ReportsTrue == Spec => []ReportsAreTrue
  <1>1. CallsInv => ReportsAreTrue
    BY DEF CallsInv, ReportedInv, EventInv, ReportsAreTrue
  <1> QED
    BY <1>1, CallsInvHolds, PTL
=============================================================================
