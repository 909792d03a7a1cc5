---------------------------- MODULE CspMessaging ----------------------------
(***************************************************************************)
(* A Client, the Server its communicator reaches, and the server's data    *)
(* handlers: the negotiation of Client::init, Client::handleData,          *)
(* Client::getServerHandlerSettings, and Server::handleMessage with its    *)
(* loop over the handlers of a struct.                                     *)
(*                                                                         *)
(* A call of the client is a step up to IIoProcessor::process and a step   *)
(* after it; what the server does between them is the server's steps.      *)
(* The registrar is taken as HandlerRegistrar shows it: an acquire finds   *)
(* any handlers of the struct with no two unicast ones among them          *)
(* (AcquiredTogether there).  Data flags, policies, bodies and memory are  *)
(* abstracted to the outcome they have: a handler may refuse a message     *)
(* before it has written anything, and a reply may break off.              *)
(***************************************************************************)
EXTENDS CspMessages

CONSTANTS
  ClientLibrary,   (* kProtocolVersions of the client's build              *)
  ServerLibrary,   (* kProtocolVersions of the server's build              *)
  ClientBigEndian, (* the client's platform is big-endian                  *)
  ServerBigEndian, (* the server's platform is big-endian                  *)
  ClientOffers,    (* settings the user passes to Client::init             *)
  ServerOffers,    (* settings of the servers the communicator may reach   *)
  Handlers,        (* IServerDataHandlers, one for each registration       *)
  Traits,          (* Traits[h]: their IServerDataHandlerTraits            *)
  Calls,           (* IClientDataHandlerTraits of the client's calls       *)
  AdditionalFlags, (* additionalCommonFlags it passes to handleData        *)
  OtherRequests    (* requests of other clients                            *)

(* None is no message and nothing that a call returns.                     *)
ASSUME NoneAssumption ==
  /\ None # [call |-> "data", status |-> "NoError"]
  /\ None \notin OtherRequests
  /\ None \notin [type : {"Data", "GetSettings"}, version : Nat, flags : SUBSET Flags,
                  struct : Structs \cup {None}, interfaceVersion : Nat \cup {None}]

ASSUME ByteOrderAssumption == ClientBigEndian \in BOOLEAN /\ ServerBigEndian \in BOOLEAN

(* kProtocolVersions: the versions from some latest one down to 1.         *)
ASSUME LibrariesAssumption ==
  \A library \in {ClientLibrary, ServerLibrary} :
    library \in Seq(Nat) /\ library # <<>> /\ Range(library) = 1..library[1]

(* Input and output of a handler are of one interface.                     *)
ASSUME HandlersAssumption ==
  /\ DOMAIN Traits = Handlers
  /\ \A t \in Range(Traits) :
       /\ t.input \in Structs \ {Dummy}
       /\ t.output \in Structs
       /\ t.output = Dummy \/ InterfaceOf[t.output] = InterfaceOf[t.input]

(* A call of handleData carries a struct of an interface, and has an       *)
(* output or none.                                                         *)
ASSUME CallsAssumption ==
  /\ \A c \in Calls : c.input \in Structs \ {Dummy} /\ c.output \in Structs
  /\ AdditionalFlags \subseteq SUBSET Flags

(* m_protocolVersions is a list "of all supported CSP versions in          *)
(* decreasing order", and 0 is no version; a server is given versions that *)
(* its build has.  Versions of messages are unsigned.                      *)
ASSUME VersionsAssumption ==
  /\ \A s \in ClientOffers \cup ServerOffers :
       /\ s.versions \in Seq(Nat \ {0})
       /\ \A j, k \in DOMAIN s.versions : j < k => s.versions[j] > s.versions[k]
  /\ \A s \in ServerOffers : Range(s.versions) \subseteq Range(ServerLibrary)
  /\ \A m \in OtherRequests : m.version \in Nat

ASSUME SettingsAssumption ==
  \A s \in ClientOffers \cup ServerOffers :
    /\ s.mandatory \subseteq Flags /\ s.forbidden \subseteq Flags
    /\ s.interfaces \in [DOMAIN s.interfaces -> Nat]

VARIABLES
  settings,       (* Client: m_settings                                    *)
  valid,          (* Client: m_isValid                                     *)
  call,           (* Client: the call it is in                             *)
  offer,          (* Client: clientSettings of init                        *)
  received,       (* Client: the last serverSettings of init               *)
  expected,       (* Client: traits of the call of handleData              *)
  told,           (* Client: what getServerHandlerSettings has returned    *)
  returned,       (* Client: the last call and the status it returned      *)
  serverSettings, (* Server: m_settings, None before init                  *)
  request,        (* the message in binInput                               *)
  serving,        (* Server: where handleMessage is                        *)
  todo,           (* Server: acquired handlers that have not run           *)
  status,         (* Server: status of handleMessage                       *)
  binOutput,      (* the messages written for the reply                    *)
  ran             (* the handlers that ran, with their status              *)

clientVars == <<settings, valid, call, offer, received, expected, told, returned>>
serverVars == <<serverSettings, serving, todo, status, binOutput, ran>>
vars       == <<clientVars, request, serverVars>>

Init ==
  /\ settings = Cleared(ClientBigEndian)
  /\ valid = FALSE
  /\ call = "none"
  /\ offer = None
  /\ received = None
  /\ expected = None
  /\ told = None
  /\ returned = None
  /\ serverSettings = None
  /\ request = None
  /\ serving = "idle"
  /\ todo = {}
  /\ status = "NoError"
  /\ binOutput = <<>>
  /\ ran = {}

-----------------------------------------------------------------------------
(* The client's side of a message.                                         *)

(* IIoProcessor::process is called with m.                                 *)
Send(m, c) ==
  /\ request' = m
  /\ call' = c
  /\ serving' = "arrived"
  /\ todo' = {}
  /\ status' = "NoError"
  /\ binOutput' = <<>>
  /\ ran' = {}
  /\ UNCHANGED <<serverSettings, returned>>

(* The call c returns s to the user.                                       *)
ReturnStatus(c, s) ==
  /\ returned' = [call |-> c, status |-> s]
  /\ call' = "none"

(* A call that returns before it sends anything.                           *)
ReturnAtOnce(c, s) ==
  /\ ReturnStatus(c, s)
  /\ ran' = {}
  /\ UNCHANGED <<request, serverSettings, serving, todo, status, binOutput>>

(* process has returned, with its output in binOutput.                     *)
Reply(c) ==
  /\ call = c
  /\ serving = "answered"

TakeReply ==
  /\ serving' = "idle"
  /\ request' = None
  /\ binOutput' = <<>>
  /\ UNCHANGED <<serverSettings, todo, status, ran>>

(* common deserialize of a reply: the context has the latest version of    *)
(* the client's build, and the message after the first is never read.      *)
DeserializeReply ==
  IF binOutput = <<>> THEN "ErrorOverflow"
  ELSE CommonDeserialize(binOutput[1], ClientLibrary[1], ClientLibrary, ClientBigEndian)

-----------------------------------------------------------------------------
(* Client::init.                                                           *)

InitBySettings(s) ==
  /\ call = "none"
  /\ \/ /\ valid
        /\ ReturnAtOnce("init", "ErrorAlreadyInited")
        /\ UNCHANGED <<settings, valid, offer>>
     \/ /\ ~valid /\ ~SettingsValid(s)
        /\ ReturnAtOnce("init", "ErrorInvalidArgument")
        /\ UNCHANGED <<settings, valid, offer>>
     \/ /\ ~valid /\ SettingsValid(s)
        /\ settings' = s
        /\ valid' = TRUE
        /\ offer' = None
        /\ ReturnAtOnce("init", "NoError")
  /\ UNCHANGED <<received, expected, told>>

(* Mutation: the settings a failed init has left are kept.                 *)
StartSettingsKept == settings

(* m_settings.clear().                                                     *)
StartSettings == Cleared(ClientBigEndian)

(* init with the server's settings, up to getServerProtocolVersions: a     *)
(* message of the undefined version, which no server supports.             *)
InitByServer(s) ==
  /\ call = "none"
  /\ \/ /\ valid
        /\ ReturnAtOnce("init", "ErrorAlreadyInited")
        /\ UNCHANGED <<settings, offer>>
     \/ /\ ~valid /\ ~SettingsValid(s)
        /\ ReturnAtOnce("init", "ErrorInvalidArgument")
        /\ UNCHANGED <<settings, offer>>
     \/ /\ ~valid /\ SettingsValid(s)
        /\ settings' = StartSettings
        /\ offer' = s
        /\ Send(Request("Data", Undefined, PlatformFlags(ClientBigEndian), None, None),
                "versions")
  /\ UNCHANGED <<valid, received, expected, told>>

(* The first version of the server that the client finds in its own list   *)
(* before a smaller one: a set of one version, or the empty set.           *)
Preferred(serverVersions, clientVersions) ==
  LET Found(v) == \E k \in DOMAIN clientVersions :
                    /\ clientVersions[k] = v
                    /\ \A j \in 1..(k - 1) : clientVersions[j] > v
      common == SelectSeq(serverVersions, Found)
  IN IF common = <<>> THEN {} ELSE {common[1]}

(* getServerProtocolVersions, which checks the type and the status of the  *)
(* reply and nothing else of its Common Context.                           *)
DeserializeVersions ==
  IF binOutput = <<>> THEN "ErrorOverflow"
  ELSE IF binOutput[1].type # "Status" THEN "ErrorDataCorrupted"
  ELSE IF binOutput[1].status # "ErrorNotSupportedProtocolVersion" THEN "ErrorDataCorrupted"
  ELSE "NoError"

(* The versions have come; init goes on to getServerSettings.              *)
ReceiveVersions ==
  /\ Reply("versions")
  /\ \/ /\ DeserializeVersions # "NoError"
        /\ ReturnStatus("init", DeserializeVersions)
        /\ TakeReply
        /\ UNCHANGED received
     \/ /\ DeserializeVersions = "NoError"
        /\ Preferred(binOutput[1].body, offer.versions) = {}
        /\ received' = [Cleared(ClientBigEndian) EXCEPT !.versions = binOutput[1].body]
        /\ ReturnStatus("init", "ErrorNotSupportedProtocolVersion")
        /\ TakeReply
     \/ /\ DeserializeVersions = "NoError"
        /\ \E v \in Preferred(binOutput[1].body, offer.versions) :
             LET flags == PlatformFlags(ClientBigEndian)
                 s == CommonSerialize(v, flags, ClientLibrary, ClientBigEndian)
             IN IF s = "NoError"
                THEN Send(Request("GetSettings", v, flags, None, None), "settings")
                ELSE ReturnStatus("init", s) /\ TakeReply
        /\ UNCHANGED received
  /\ UNCHANGED <<settings, valid, offer, expected, told>>

(* CspPartySettings::deserialize, which takes any message for Data.        *)
DeserializeSettings ==
  IF DeserializeReply # "NoError" THEN DeserializeReply
  ELSE IF binOutput[1].type # "Data" THEN "ErrorOverflow"
  ELSE "NoError"

(* The settings have come: init ends.                                      *)
ReceiveSettings ==
  /\ Reply("settings")
  /\ \/ /\ DeserializeSettings # "NoError"
        /\ ReturnStatus("init", DeserializeSettings)
        /\ UNCHANGED <<settings, valid, received>>
     \/ /\ DeserializeSettings = "NoError"
        /\ received' = binOutput[1].content
        /\ LET c == Compatible(settings, offer, binOutput[1].content) IN
             /\ settings' = c.settings
             /\ IF c.status # "NoError"
                THEN ReturnStatus("init", c.status) /\ UNCHANGED valid
                ELSE /\ valid' = SettingsValid(c.settings)
                     /\ ReturnStatus("init", IF valid' THEN "NoError" ELSE "ErrorNotInited")
  /\ TakeReply
  /\ UNCHANGED <<offer, expected, told>>

-----------------------------------------------------------------------------
(* Client::handleData and Client::getServerHandlerSettings.                *)

InterfaceVersionOf(s) ==
  LET i == InterfaceOf[s] IN
  IF i \in DOMAIN settings.interfaces THEN settings.interfaces[i] ELSE UndefinedInterface

LatestVersion == IF settings.versions = <<>> THEN Undefined ELSE settings.versions[1]

(* Mutation: flags the settings forbid may be added.                       *)
FlagsAllowedAny(additional) == TRUE

FlagsAllowed(additional) == additional \cap settings.forbidden = {}

(* What handleData checks before it calls process.                         *)
SerializeData(c, additional) ==
  LET target == InterfaceVersionOf(c.input)
      common == CommonSerialize(LatestVersion, settings.mandatory \cup additional,
                                ClientLibrary, ClientBigEndian)
  IN IF ~valid THEN "ErrorNotInited"
     ELSE IF target = UndefinedInterface THEN "ErrorNotSupportedInterface"
     ELSE IF Origin[c.input] > target \/ Origin[c.output] > target
     THEN "ErrorNotSupportedInterfaceVersion"
     ELSE IF ~FlagsAllowed(additional)
     THEN "ErrorNotCompatibleCommonFlagsSettings"
     ELSE IF common # "NoError" THEN common
     ELSE IF ~InterfaceVersionSupported(target, Origin[c.input], Latest[InterfaceOf[c.input]])
     THEN "ErrorNotSupportedInterfaceVersion"
     ELSE "NoError"

HandleData(c, additional) ==
  /\ call = "none"
  /\ expected' = c
  /\ IF SerializeData(c, additional) = "NoError"
     THEN Send(Request("Data", LatestVersion, settings.mandatory \cup additional, c.input,
                       InterfaceVersionOf(c.input)), "data")
     ELSE ReturnAtOnce("data", SerializeData(c, additional))
  /\ UNCHANGED <<settings, valid, offer, received, told>>

(* What handleData makes of the reply.                                     *)
DeserializeData ==
  IF DeserializeReply # "NoError" THEN DeserializeReply
  ELSE LET m == binOutput[1] IN
    IF m.flags # request.flags THEN "ErrorNotCompatibleCommonFlagsSettings"
    ELSE IF m.type = "Status" THEN m.status
    ELSE IF m.cut = "context" THEN "ErrorOverflow"
    ELSE IF m.struct # expected.output THEN "ErrorMismatchOfStructId"
    ELSE IF ~InterfaceVersionSupported(m.interfaceVersion, Origin[m.struct],
                                       Latest[InterfaceOf[expected.input]])
    THEN "ErrorNotSupportedInterfaceVersion"
    ELSE IF m.interfaceVersion # request.interfaceVersion
    THEN "ErrorMismatchOfInterfaceVersions"
    ELSE IF m.cut = "body" THEN "ErrorOverflow"
    ELSE "NoError"

ReceiveData ==
  /\ Reply("data")
  /\ ReturnStatus("data", DeserializeData)
  /\ TakeReply
  /\ UNCHANGED <<settings, valid, offer, received, expected, told>>

(* getServerHandlerSettings sends the Data Context alone, with an          *)
(* interface version that no handler supports.                             *)
GetServerHandlerSettings(s) ==
  /\ call = "none"
  /\ LET common == CommonSerialize(LatestVersion, settings.mandatory, ClientLibrary,
                                   ClientBigEndian)
         st == IF ~valid THEN "ErrorNotInited"
               ELSE IF InterfaceVersionOf(s) = UndefinedInterface
               THEN "ErrorNotSupportedInterface" ELSE common
     IN IF st = "NoError"
        THEN Send(Request("Data", LatestVersion, settings.mandatory, s, UndefinedInterface),
                  "query")
        ELSE ReturnAtOnce("query", st)
  /\ UNCHANGED <<settings, valid, offer, received, expected, told>>

DeserializeHandlerSettings ==
  IF DeserializeReply # "NoError" THEN DeserializeReply
  ELSE IF binOutput[1].type # "Status" THEN "ErrorDataCorrupted"
  ELSE IF binOutput[1].status = "NoError" THEN "ErrorDataCorrupted"
  ELSE IF binOutput[1].status # "ErrorNotSupportedInterfaceVersion" THEN binOutput[1].status
  ELSE IF binOutput[1].body = None THEN "ErrorOverflow"
  ELSE "NoError"

ReceiveHandlerSettings ==
  /\ Reply("query")
  /\ ReturnStatus("query", DeserializeHandlerSettings)
  /\ told' = IF DeserializeHandlerSettings = "NoError"
             THEN [input |-> request.struct, minimum |-> binOutput[1].body.minimum,
                   output |-> binOutput[1].body.output]
             ELSE told
  /\ TakeReply
  /\ UNCHANGED <<settings, valid, offer, received, expected>>

-----------------------------------------------------------------------------
(* What the user's IIoProcessor does.                                      *)

(* process fails, before the server has the message or after its reply.    *)
(* An error of memory, of data flags or of a body on the client's side     *)
(* ends its call in the same way.                                          *)
CommunicatorFails ==
  /\ call \in {"versions", "settings", "data", "query"}
  /\ serving \in {"arrived", "answered"}
  /\ ReturnStatus(IF call \in {"versions", "settings"} THEN "init" ELSE call, "ErrorOfCommunicator")
  /\ TakeReply
  /\ UNCHANGED <<settings, valid, offer, received, expected, told>>

(* Another client's message reaches the server.                            *)
OtherRequest(m) ==
  /\ call = "none"
  /\ Send(m, "other")
  /\ UNCHANGED <<settings, valid, offer, received, expected, told>>

OtherReply ==
  /\ Reply("other")
  /\ ReturnStatus("other", status)
  /\ TakeReply
  /\ UNCHANGED <<settings, valid, offer, received, expected, told>>

-----------------------------------------------------------------------------
(* The server.                                                             *)

(* A server is created and initialized: the first one, or one that takes   *)
(* the place of another, with other settings.                              *)
ServerInit(s) ==
  /\ serving \in {"idle", "arrived"}
  /\ SettingsValid(s)
  /\ serverSettings' = s
  /\ UNCHANGED <<clientVars, request, serving, todo, status, binOutput, ran>>

(* serializeErrorNotSupportedProtocolVersion, which is itself a success.   *)
VersionsReply ==
  StatusMessage(Undefined, serverSettings.mandatory, "ErrorNotSupportedProtocolVersion",
                serverSettings.versions)

(* Mutation: what fails leaves the reply as it is.                         *)
AnswerErrors(out, s) ==
  IF out # <<>> \/ s # "NoError" THEN out
  ELSE <<StatusMessage(request.version, request.flags, s, None)>>

(* The end of handleMessage: an empty output gets the status, if a Status  *)
(* message with the flags of the request can be written.                   *)
Answer(out, s) ==
  IF out # <<>> THEN out
  ELSE IF CommonSerialize(request.version, request.flags, ServerLibrary,
                          ServerBigEndian) = "NoError"
  THEN <<StatusMessage(request.version, request.flags, s, None)>>
  ELSE <<>>

(* handleGetSettings.  The version of the interface of service structs is  *)
(* the protocol version.                                                   *)
SettingsReply ==
  LET s == serverSettings IN
  IF CommonSerialize(request.version, s.mandatory, ServerLibrary, ServerBigEndian) = "NoError"
  THEN <<DataMessage(request.version, s.mandatory, PartySettings, request.version, s, "none")>>
  ELSE <<>>

(* What handleMessage finds before it looks at the type of the message.    *)
MessageStatus ==
  CommonDeserialize(request, Last(serverSettings.versions), ServerLibrary, ServerBigEndian)

AnswerWith(out, s) ==
  /\ binOutput' = Answer(out, s)
  /\ status' = s
  /\ serving' = "answered"
  /\ UNCHANGED <<todo, ran>>

(* handleMessage on everything but a Data message it accepts.              *)
HandleMessage ==
  /\ serving = "arrived"
  /\ \/ /\ serverSettings = None
        /\ status' = "ErrorNotInited"
        /\ serving' = "answered"
        /\ UNCHANGED <<todo, binOutput, ran>>
     \/ /\ serverSettings # None
        /\ MessageStatus = "ErrorNotSupportedProtocolVersion"
        /\ AnswerWith(<<VersionsReply>>, "NoError")
     \/ /\ serverSettings # None
        /\ MessageStatus = "ErrorNotCompatibleCommonFlagsSettings"
        /\ AnswerWith(<<>>, MessageStatus)
     \/ /\ serverSettings # None
        /\ MessageStatus = "NoError"
        /\ request.type = "GetSettings"
        /\ AnswerWith(SettingsReply, IF SettingsReply = <<>>
                                     THEN "ErrorNotCompatibleCommonFlagsSettings" ELSE "NoError")
     \/ /\ serverSettings # None
        /\ MessageStatus = "NoError"
        /\ request.type \notin {"GetSettings", "Data"}
        /\ AnswerWith(<<>>, "ErrorDataCorrupted")
  /\ UNCHANGED <<clientVars, request, serverSettings>>

(* handleMessage on a Data message: the common flags are tested, and       *)
(* handleData acquires handlers of the struct.  registerHandler lets in no *)
(* unicast handler beside another handler, but any multicast one beside a  *)
(* unicast one.                                                            *)
HandleDataMessage ==
  /\ serving = "arrived"
  /\ serverSettings # None
  /\ MessageStatus = "NoError"
  /\ request.type = "Data"
  /\ LET flags == TestCommonFlags(request.flags, serverSettings.forbidden,
                                  serverSettings.mandatory)
     IN \/ flags # "NoError" /\ AnswerWith(<<>>, flags)
        \/ flags = "NoError" /\ AnswerWith(<<>>, "ErrorNoSuchHandler")
        \/ flags = "NoError" /\ AnswerWith(<<>>, "ErrorNotAvailible")
        \/ /\ flags = "NoError"
           /\ \E H \in (SUBSET {h \in Handlers : Traits[h].input = request.struct}) \ {{}} :
                /\ \A h, g \in H : h # g => Traits[h].multicast \/ Traits[g].multicast
                /\ todo' = H
           /\ serving' = "handling"
           /\ UNCHANGED <<status, binOutput, ran>>
  /\ UNCHANGED <<clientVars, request, serverSettings>>

(* What handleDataCommon of h may do to a request, with the output out     *)
(* written so far: the status it returns and the output it leaves.  It     *)
(* appends the refusal of a version, and clears the output before it       *)
(* writes its own.                                                         *)
HandleDataCommon(h, out) ==
  LET t == Traits[h]
      version == request.interfaceVersion
      latest == Latest[InterfaceOf[t.input]]
      Result(s, o) == [status |-> s, out |-> o]
      Refusal == StatusMessage(request.version, request.flags, "ErrorNotSupportedInterfaceVersion",
                               [minimum |-> t.minimum, output |-> t.output])
      Data(cut) == <<DataMessage(request.version, request.flags, t.output, version, None, cut)>>
  IN {Result("ErrorOfHandler", out)} \cup
     IF ~InterfaceVersionSupported(version, t.minimum, latest)
     THEN {Result("ErrorNotSupportedInterfaceVersion", Append(out, Refusal))}
     ELSE IF version < Origin[t.input] THEN {Result("ErrorInternal", out)}
     ELSE IF t.output = Dummy THEN {Result("NoError", out)}
     ELSE IF version < Origin[t.output]
     THEN {Result("ErrorNotSupportedInterfaceVersion", Data("context"))}
     ELSE {Result("NoError", Data("none")), Result("ErrorOfHandler", Data("body"))}

(* Mutation: the status of the last handler is kept.                       *)
FirstErrorLast(s, new) == new

(* AGS_CS_SET_NEW_ERROR: the first error stays.                            *)
FirstError(s, new) == IF s = "NoError" THEN new ELSE s

(* Mutation: the loop over the handlers ends at the first error.           *)
RunHandlerReturns(h) ==
  /\ serving = "handling"
  /\ h \in todo
  /\ \E r \in HandleDataCommon(h, binOutput) :
       /\ status' = FirstError(status, r.status)
       /\ ran' = ran \cup {[handler |-> h, status |-> r.status]}
       /\ binOutput' = Answer(r.out, FirstError(status, r.status))
       /\ serving' = IF todo = {h} \/ r.status # "NoError" THEN "answered" ELSE "handling"
  /\ todo' = todo \ {h}
  /\ UNCHANGED <<clientVars, request, serverSettings>>

(* The next handler runs and is released.                                  *)
RunHandler(h) ==
  /\ serving = "handling"
  /\ h \in todo
  /\ \E r \in HandleDataCommon(h, binOutput) :
       /\ status' = FirstError(status, r.status)
       /\ ran' = ran \cup {[handler |-> h, status |-> r.status]}
       /\ binOutput' = IF todo = {h} THEN Answer(r.out, FirstError(status, r.status)) ELSE r.out
  /\ todo' = todo \ {h}
  /\ serving' = IF todo = {h} THEN "answered" ELSE "handling"
  /\ UNCHANGED <<clientVars, request, serverSettings>>

-----------------------------------------------------------------------------

Next ==
  \/ \E s \in ClientOffers : InitBySettings(s) \/ InitByServer(s)
  \/ ReceiveVersions
  \/ ReceiveSettings
  \/ \E c \in Calls, additional \in AdditionalFlags : HandleData(c, additional)
  \/ ReceiveData
  \/ \E s \in {c.input : c \in Calls} : GetServerHandlerSettings(s)
  \/ ReceiveHandlerSettings
  \/ CommunicatorFails
  \/ \E m \in OtherRequests : OtherRequest(m)
  \/ OtherReply
  \/ \E s \in ServerOffers : ServerInit(s)
  \/ HandleMessage
  \/ HandleDataMessage
  \/ \E h \in Handlers : RunHandler(h)

Spec == Init /\ [][Next]_vars

-----------------------------------------------------------------------------
(* Properties.                                                             *)

StatusCode == {"NoError", "ErrorOverflow", "ErrorInvalidArgument", "ErrorAlreadyInited",
  "ErrorNotInited", "ErrorDataCorrupted", "ErrorInternal", "ErrorNoSuchHandler",
  "ErrorNotAvailible", "ErrorNotSupportedProtocolVersion", "ErrorNotSupportedInterfaceVersion",
  "ErrorNotSupportedInterface", "ErrorNoSupportedInterfaces", "ErrorMismatchOfStructId",
  "ErrorMismatchOfInterfaceVersions", "ErrorNotCompatibleCommonFlagsSettings",
  "ErrorOfHandler", "ErrorOfCommunicator"}

(* The members of the client and the server and the locals of their calls  *)
(* have their types; a message is being served exactly while a call waits  *)
(* for it, and handleMessage has run, and released, every handler it       *)
(* acquired when it returns, whatever the handlers before it returned.     *)
TypeOK ==
  /\ settings.mandatory \subseteq Flags /\ settings.forbidden \subseteq Flags
  /\ valid \in BOOLEAN
  /\ valid => SettingsValid(settings)
  /\ call \in {"none", "versions", "settings", "data", "query", "other"}
  /\ serving \in {"idle", "arrived", "handling", "answered"}
  /\ call = "none" <=> serving = "idle"
  /\ call = "none" <=> request = None
  /\ offer \in ClientOffers \cup {None}
  /\ expected \in Calls \cup {None}
  /\ serverSettings \in ServerOffers \cup {None}
  /\ todo \subseteq Handlers
  /\ todo # {} <=> serving = "handling"
  /\ status \in StatusCode
  /\ returned # None => returned.status \in StatusCode
  /\ ran \subseteq [handler : Handlers, status : StatusCode]

(* A client that init has made valid speaks only versions that both sides  *)
(* have, the greatest first, sets every flag a side demands and none that  *)
(* a side forbids, and uses no interface beyond the version of a side: the *)
(* loops of init and of getCompatibleSettings find this intersection       *)
(* whatever came before, an init that failed half way and a server that    *)
(* was replaced between the two requests included.                         *)
SettingsSuitBoth ==
  valid /\ offer # None =>
    /\ Range(settings.versions) = Range(offer.versions) \cap Range(received.versions)
    /\ \A v \in Range(settings.versions) : settings.versions[1] >= v
    /\ offer.mandatory \cup received.mandatory \subseteq settings.mandatory
    /\ settings.mandatory \cap (offer.forbidden \cup received.forbidden) = {}
    /\ \A i \in DOMAIN settings.interfaces :
         /\ settings.interfaces[i] <= offer.interfaces[i]
         /\ settings.interfaces[i] <= received.interfaces[i]

Refused(s) ==
  \/ status = s
  \/ \E k \in DOMAIN binOutput : binOutput[k].type = "Status" /\ binOutput[k].status = s

(* What init has agreed on with a server holds later: as long as it is     *)
(* that server, it refuses no message of handleData or                     *)
(* getServerHandlerSettings for its protocol version or its common flags,  *)
(* with whatever flags the call adds.                                      *)
AgreedClientIsServed ==
  valid /\ offer # None /\ received = serverSettings
        /\ call \in {"data", "query"} /\ serving = "answered" =>
    /\ ~Refused("ErrorNotSupportedProtocolVersion")
    /\ ~Refused("ErrorNotCompatibleCommonFlagsSettings")

(* handleMessage leaves a reply for every message, on each of its paths    *)
(* through refusals and failing handlers.  The only one without a reply is *)
(* one whose byte order the server refuses: the status cannot be written   *)
(* with the flags of that message either.                                  *)
EveryRequestAnswered ==
  serving = "answered" /\ serverSettings # None /\ binOutput = <<>> =>
    ByteOrderRefused(request.flags, ServerBigEndian)

(* The handlers that were acquired for the message: those that have still  *)
(* to run and those that ran.                                              *)
Met == todo \cup {r.handler : r \in ran}

(* What CSP.txt:1727-1732 asks of the routines of a struct, and neither    *)
(* the registrar nor the server sees to: a unicast routine is the only     *)
(* one, and multicast routines have no output.                             *)
RoutinesSuit ==
  \A h, g \in Met : h # g => Traits[h].multicast /\ Traits[h].output = Dummy

(* Client::handleData returns NoError only if a handler of the message     *)
(* succeeded, so no reply that broke off is taken for a success; and, if   *)
(* the routines of the struct are as CSP.txt asks, only if every handler   *)
(* did, so no failing one of several is missed.                            *)
NoFalseSuccess ==
  call = "none" /\ returned = [call |-> "data", status |-> "NoError"] =>
    /\ \E r \in ran : r.status = "NoError"
    /\ RoutinesSuit => \A r \in ran : r.status = "NoError"

-----------------------------------------------------------------------------
(* Why a client may believe the reply.                                     *)

(* The locals of handleMessage belong to one message of one call.          *)
OneMessageAtATime ==
  /\ binOutput \in Seq(Range(binOutput))
  /\ call = "none" => serving = "idle"
  /\ serving = "idle" => binOutput = <<>>
  /\ serving = "arrived" => status = "NoError" /\ ran = {} /\ binOutput = <<>>
  /\ todo # {} => serving = "handling"
  /\ call = "data" => request.type = "Data"
  /\ serving # "idle" => request.version \in Int
  /\ serverSettings # None => serverSettings \in ServerOffers /\ SettingsValid(serverSettings)

(* While handlers run, a Status message can be written at any time.        *)
HandlersCanBeAnswered ==
  serving = "handling" =>
    /\ request.version \in Range(ServerLibrary)
    /\ ~ByteOrderRefused(request.flags, ServerBigEndian)

(* The loop runs each handler once.                                        *)
EachRunsOnce ==
  /\ \A r \in ran : r.handler \notin todo
  /\ serving = "handling" /\ ran = {} => status = "NoError"

FirstErrorStays == status = "NoError" => \A r \in ran : r.status = "NoError"

(* What handleData takes for a success, if the rest of the message suits.  *)
ClaimsSuccess(m) ==
  IF m.type = "Status" THEN m.status = "NoError" ELSE m.cut \notin {"context", "body"}

ClaimsAreTrue ==
  \A k \in DOMAIN binOutput :
    request.type = "Data" /\ ClaimsSuccess(binOutput[k]) =>
      /\ \E r \in ran : r.status = "NoError"
      /\ RoutinesSuit => serving = "answered" /\ status = "NoError"

(* Whatever part of the output of handleMessage a client may read, a       *)
(* success in it is that of a handler of its message, and of all of them   *)
(* if the routines of the struct are as CSP.txt asks: the first error      *)
(* stays while other handlers go on to write, and nothing of a message or  *)
(* of a call is left for the next.                                         *)
ReplyInv ==
  /\ OneMessageAtATime /\ HandlersCanBeAnswered /\ EachRunsOnce
  /\ FirstErrorStays /\ ClaimsAreTrue
  /\ EveryRequestAnswered /\ NoFalseSuccess

-----------------------------------------------------------------------------
(* Why what was agreed on is served.                                       *)

(* getCompatibleSettings adds to settings that hold nothing yet.           *)
InitFromCleared ==
  call \in {"versions", "settings"} =>
    ~valid /\ offer \in ClientOffers /\ settings = Cleared(ClientBigEndian)

(* The reply to a GetSettings message that has data has the settings of a  *)
(* server, and of one that could read a message in the client's byte       *)
(* order.                                                                  *)
SettingsCome ==
  /\ serving = "handling" => request.type = "Data"
  /\ call = "settings" =>
       /\ request.type = "GetSettings" /\ request.flags = PlatformFlags(ClientBigEndian)
       /\ \A k \in DOMAIN binOutput :
            binOutput[k].type = "Data" =>
              binOutput[k].content \in ServerOffers /\ ClientBigEndian = ServerBigEndian

(* The settings a client speaks by.                                        *)
SettingsAgreed ==
  /\ settings.versions \in Seq(Nat)
  /\ settings.interfaces \in [DOMAIN settings.interfaces -> Nat]
  /\ valid /\ offer # None =>
       /\ received \in ServerOffers
       /\ received.forbidden \subseteq settings.forbidden
       /\ ClientBigEndian = ServerBigEndian

(* A message of handleData and of getServerHandlerSettings keeps to them.  *)
RequestSuits ==
  call \in {"data", "query"} =>
    /\ valid
    /\ request.type = "Data"
    /\ request.version \in Range(settings.versions)
    /\ settings.mandatory \subseteq request.flags
    /\ request.flags \cap settings.forbidden = {}
    /\ ~ByteOrderRefused(request.flags, ClientBigEndian)

(* What AgreedClientIsServed says of the reply, from the first handler on. *)
AgreedWhileServed ==
  valid /\ offer # None /\ received = serverSettings
        /\ call \in {"data", "query"} /\ serving \in {"handling", "answered"} =>
    /\ ~Refused("ErrorNotSupportedProtocolVersion")
    /\ ~Refused("ErrorNotCompatibleCommonFlagsSettings")

StatusesTyped ==
  \A k \in DOMAIN binOutput : binOutput[k].type = "Status" => binOutput[k].status \in StatusCode

(* A client and the server it has agreed with: a GetSettings message that  *)
(* is answered shows that both have one byte order, the settings are the   *)
(* intersection of those of both sides whatever came before, and the       *)
(* messages that follow keep to them, so that the server reads each of     *)
(* them and tests its flags with success.                                  *)
AgreementInv ==
  /\ TypeOK /\ StatusesTyped
  /\ InitFromCleared /\ SettingsCome /\ SettingsAgreed /\ SettingsSuitBoth
  /\ RequestSuits /\ AgreedWhileServed

=============================================================================
