------------------------- MODULE CspMessagingProofs -------------------------
(***************************************************************************)
(* What holds of CspMessaging for all builds, settings, handlers, calls    *)
(* and requests of other clients. First the message: the server answers    *)
(* what it can read, and a client that believes the reply is right. Then   *)
(* the negotiation: what Client::init agrees on suits both sides, and the  *)
(* server it was agreed with serves the client's calls.                    *)
(***************************************************************************)
EXTENDS CspMessaging, DataInduction, TLAPS, SequenceTheorems

(* A sequence is one of the set of its elements.                           *)
LEMMA SequenceOfItsElements ==
  ASSUME NEW S, NEW s \in Seq(S)
  PROVE  s \in Seq(Range(s))
BY DEF Range

(* The routines of a message are those that were acquired for it.          *)
LEMMA RoutinesKept ==
  ASSUME UNCHANGED <<todo, ran>>
  PROVE  RoutinesSuit' <=> RoutinesSuit
BY DEF RoutinesSuit, Met

(* A call of the client that sends m: IIoProcessor::process is entered     *)
(* with an empty output, and the server has not begun.                     *)
LEMMA SendInv ==
  ASSUME ReplyInv, NEW m, NEW c, Send(m, c),
         c # "none", m.version \in Int, c = "data" => m.type = "Data"
  PROVE  ReplyInv'
<1>1. /\ serving' = "arrived" /\ call' = c /\ request' = m /\ todo' = {}
      /\ status' = "NoError" /\ binOutput' = <<>> /\ ran' = {}
      /\ UNCHANGED <<serverSettings, returned>>
  BY DEF Send
<1>2. OneMessageAtATime'
  BY <1>1 DEF ReplyInv, OneMessageAtATime
<1>3. HandlersCanBeAnswered' /\ EachRunsOnce' /\ FirstErrorStays'
  BY <1>1 DEF HandlersCanBeAnswered, EachRunsOnce, FirstErrorStays
<1>4. ClaimsAreTrue' /\ EveryRequestAnswered' /\ NoFalseSuccess'
  BY <1>1 DEF ClaimsAreTrue, EveryRequestAnswered, NoFalseSuccess
<1> QED  BY <1>2, <1>3, <1>4 DEF ReplyInv

(* A call of the client that returns before it sends anything: only an     *)
(* error of handleData can be told so early.                               *)
LEMMA ReturnAtOnceInv ==
  ASSUME ReplyInv, call = "none", NEW c, NEW s, ReturnAtOnce(c, s),
         c = "data" => s # "NoError"
  PROVE  ReplyInv'
<1>1. /\ call' = "none" /\ ran' = {} /\ returned' = [call |-> c, status |-> s]
      /\ UNCHANGED <<request, serverSettings, serving, todo, status, binOutput>>
  BY DEF ReturnAtOnce, ReturnStatus
<1>2. serving = "idle" /\ binOutput = <<>>
  BY DEF ReplyInv, OneMessageAtATime
<1>3. OneMessageAtATime'
  BY <1>1, <1>2 DEF ReplyInv, OneMessageAtATime
<1>4. HandlersCanBeAnswered' /\ EachRunsOnce' /\ FirstErrorStays'
  BY <1>1, <1>2 DEF ReplyInv, HandlersCanBeAnswered, EachRunsOnce, FirstErrorStays
<1>5. ClaimsAreTrue' /\ EveryRequestAnswered' /\ NoFalseSuccess'
  BY <1>1, <1>2 DEF ClaimsAreTrue, EveryRequestAnswered, NoFalseSuccess
<1> QED  BY <1>3, <1>4, <1>5 DEF ReplyInv

(* A call of the client that ends after process has returned.              *)
LEMMA TakeReplyInv ==
  ASSUME ReplyInv, NEW c, NEW s, ReturnStatus(c, s), TakeReply, serving # "handling",
         c = "data" /\ s = "NoError" =>
           /\ \E r \in ran : r.status = "NoError"
           /\ RoutinesSuit => \A r \in ran : r.status = "NoError"
  PROVE  ReplyInv'
<1>1. /\ call' = "none" /\ returned' = [call |-> c, status |-> s]
      /\ serving' = "idle" /\ binOutput' = <<>>
      /\ UNCHANGED <<serverSettings, todo, status, ran>>
  BY DEF ReturnStatus, TakeReply
<1>2. OneMessageAtATime'
  BY <1>1 DEF ReplyInv, OneMessageAtATime
<1>3. HandlersCanBeAnswered' /\ EachRunsOnce' /\ FirstErrorStays'
  BY <1>1 DEF ReplyInv, HandlersCanBeAnswered, EachRunsOnce, FirstErrorStays
<1>4. ClaimsAreTrue' /\ EveryRequestAnswered' /\ NoFalseSuccess'
  BY <1>1, RoutinesKept DEF ClaimsAreTrue, EveryRequestAnswered, NoFalseSuccess
<1> QED  BY <1>2, <1>3, <1>4 DEF ReplyInv

(* A version the client may write is a version of its build.               *)
LEMMA SerializedVersion ==
  ASSUME NEW v, NEW flags, NEW library \in {ClientLibrary, ServerLibrary}, NEW big,
         CommonSerialize(v, flags, library, big) = "NoError"
  PROVE  v \in Int
<1>1. library \in Seq(Nat) /\ library # <<>> /\ Range(library) = 1..library[1]
  BY LibrariesAssumption
<1>2. v \in Range(library)
  BY DEF CommonSerialize
<1>3. library[1] \in Nat
  BY <1>1
<1> QED  BY <1>1, <1>2, <1>3

(* Client::init by settings.                                               *)
LEMMA InitBySettingsInv ==
  ASSUME ReplyInv, NEW s \in ClientOffers, InitBySettings(s)
  PROVE  ReplyInv'
BY ReturnAtOnceInv DEF InitBySettings

(* Client::init by what the server says.                                   *)
LEMMA InitByServerInv ==
  ASSUME ReplyInv, NEW s \in ClientOffers, InitByServer(s)
  PROVE  ReplyInv'
<1> DEFINE m == Request("Data", Undefined, PlatformFlags(ClientBigEndian), None, None)
<1>1. m.version \in Int /\ m.type = "Data"
  BY DEF Request, Undefined
<1>2. CASE Send(m, "versions")
  BY <1>1, <1>2, SendInv
<1>3. CASE \E st : ReturnAtOnce("init", st)
  BY <1>3, ReturnAtOnceInv DEF InitByServer
<1> QED  BY <1>2, <1>3 DEF InitByServer

(* The reply with the versions of the server.                              *)
LEMMA ReceiveVersionsInv ==
  ASSUME ReplyInv, ReceiveVersions
  PROVE  ReplyInv'
<1>1. CASE \E st : ReturnStatus("init", st) /\ TakeReply
  BY <1>1, TakeReplyInv DEF ReceiveVersions, Reply
<1>2. ASSUME NEW v, CommonSerialize(v, PlatformFlags(ClientBigEndian), ClientLibrary,
                                    ClientBigEndian) = "NoError",
             Send(Request("GetSettings", v, PlatformFlags(ClientBigEndian), None, None), "settings")
      PROVE  ReplyInv'
  <2>1. v \in Int
    BY <1>2, SerializedVersion
  <2> QED  BY <1>2, <2>1, SendInv DEF Request
<1> QED  BY <1>1, <1>2 DEF ReceiveVersions

(* The reply with the settings of the server.                              *)
LEMMA ReceiveSettingsInv ==
  ASSUME ReplyInv, ReceiveSettings
  PROVE  ReplyInv'
<1>1. \E st : ReturnStatus("init", st) /\ TakeReply
  BY DEF ReceiveSettings
<1> QED  BY <1>1, TakeReplyInv DEF ReceiveSettings, Reply

(* handleData sends nothing that its own checks refuse, and returns no     *)
(* success before it has sent anything.                                    *)
LEMMA HandleDataInv ==
  ASSUME ReplyInv, NEW c \in Calls, NEW additional \in AdditionalFlags, HandleData(c, additional)
  PROVE  ReplyInv'
<1> DEFINE m == Request("Data", LatestVersion, settings.mandatory \cup additional, c.input,
                        InterfaceVersionOf(c.input))
<1>1. CASE SerializeData(c, additional) = "NoError"
  <2>1. CommonSerialize(LatestVersion, settings.mandatory \cup additional, ClientLibrary,
                        ClientBigEndian) = "NoError"
    BY <1>1 DEF SerializeData
  <2>2. m.version \in Int /\ m.type = "Data"
    BY <2>1, SerializedVersion DEF Request
  <2>3. Send(m, "data")
    BY <1>1 DEF HandleData
  <2> QED  BY <2>2, <2>3, SendInv
<1>2. CASE SerializeData(c, additional) # "NoError"
  BY <1>2, ReturnAtOnceInv DEF HandleData
<1> QED  BY <1>1, <1>2

(* What handleData accepts claims a success, and a claim is true.          *)
LEMMA ReceiveDataInv ==
  ASSUME ReplyInv, ReceiveData
  PROVE  ReplyInv'
<1>1. call = "data" /\ serving = "answered" /\ ReturnStatus("data", DeserializeData) /\ TakeReply
  BY DEF ReceiveData, Reply
<1>2. ASSUME DeserializeData = "NoError"
      PROVE  /\ \E r \in ran : r.status = "NoError"
             /\ RoutinesSuit => \A r \in ran : r.status = "NoError"
  <2>1. binOutput # <<>> /\ ClaimsSuccess(binOutput[1])
    BY <1>2 DEF DeserializeData, DeserializeReply, ClaimsSuccess
  <2> QED  BY <1>1, <2>1 DEF ReplyInv, OneMessageAtATime, ClaimsAreTrue, FirstErrorStays
<1> QED  BY <1>1, <1>2, TakeReplyInv

(* Client::getServerHandlerSettings is called.                             *)
LEMMA GetServerHandlerSettingsInv ==
  ASSUME ReplyInv, NEW s, GetServerHandlerSettings(s)
  PROVE  ReplyInv'
<1> DEFINE m == Request("Data", LatestVersion, settings.mandatory, s, UndefinedInterface)
<1>1. CASE Send(m, "query") /\ CommonSerialize(LatestVersion, settings.mandatory, ClientLibrary,
                                               ClientBigEndian) = "NoError"
  <2>1. m.version \in Int /\ m.type = "Data"
    BY <1>1, SerializedVersion DEF Request
  <2> QED  BY <1>1, <2>1, SendInv
<1>2. CASE \E st : ReturnAtOnce("query", st)
  BY <1>2, ReturnAtOnceInv DEF GetServerHandlerSettings
<1> QED  BY <1>1, <1>2 DEF GetServerHandlerSettings

(* The reply to getServerHandlerSettings.                                  *)
LEMMA ReceiveHandlerSettingsInv ==
  ASSUME ReplyInv, ReceiveHandlerSettings
  PROVE  ReplyInv'
BY TakeReplyInv DEF ReceiveHandlerSettings, Reply

(* The communicator returns an error.                                      *)
LEMMA CommunicatorFailsInv ==
  ASSUME ReplyInv, CommunicatorFails
  PROVE  ReplyInv'
BY TakeReplyInv DEF CommunicatorFails

(* Any other request.                                                      *)
LEMMA OtherRequestInv ==
  ASSUME ReplyInv, NEW m \in OtherRequests, OtherRequest(m)
  PROVE  ReplyInv'
BY SendInv, VersionsAssumption DEF OtherRequest

(* The reply to any other request.                                         *)
LEMMA OtherReplyInv ==
  ASSUME ReplyInv, OtherReply
  PROVE  ReplyInv'
BY TakeReplyInv DEF OtherReply, Reply

-----------------------------------------------------------------------------
(* The server's steps.                                                     *)

(* Server::init.                                                           *)
LEMMA ServerInitInv ==
  ASSUME ReplyInv, NEW s \in ServerOffers, ServerInit(s)
  PROVE  ReplyInv'
<1>1. /\ serving \in {"idle", "arrived"} /\ SettingsValid(s) /\ serverSettings' = s
      /\ UNCHANGED <<call, returned, request, serving, todo, status, binOutput, ran>>
  BY DEF ServerInit, clientVars
<1>2. OneMessageAtATime'
  BY <1>1 DEF ReplyInv, OneMessageAtATime
<1>3. HandlersCanBeAnswered' /\ EachRunsOnce' /\ FirstErrorStays'
  BY <1>1 DEF ReplyInv, HandlersCanBeAnswered, EachRunsOnce, FirstErrorStays
<1>4. ClaimsAreTrue' /\ EveryRequestAnswered' /\ NoFalseSuccess'
  <2>1. RoutinesSuit' <=> RoutinesSuit
    BY <1>1, RoutinesKept
  <2> QED  BY <1>1, <2>1 DEF ReplyInv, ClaimsAreTrue, EveryRequestAnswered, NoFalseSuccess
<1> QED  BY <1>2, <1>3, <1>4 DEF ReplyInv

(* deserialize of the Common Context lets pass only versions of the        *)
(* server's build: those between the first version of its settings and the *)
(* latest of the build.                                                    *)
LEMMA ReadableVersion ==
  ASSUME ReplyInv, serving # "idle", serverSettings # None,
         MessageStatus # "ErrorNotSupportedProtocolVersion"
  PROVE  request.version \in Range(ServerLibrary)
<1>1. ServerLibrary \in Seq(Nat) /\ ServerLibrary # <<>> /\ Range(ServerLibrary) = 1..ServerLibrary[1]
  BY LibrariesAssumption
<1>2. request.version \in Int
  BY DEF ReplyInv, OneMessageAtATime
<1>3. serverSettings.versions \in Seq(Nat \ {0}) /\ serverSettings.versions # <<>>
  BY VersionsAssumption DEF ReplyInv, OneMessageAtATime, SettingsValid
<1>4. Last(serverSettings.versions) \in Nat \ {0}
  BY <1>3 DEF Last
<1>5. /\ ~(Last(serverSettings.versions) > request.version)
      /\ ~(ServerLibrary[1] < request.version)
  BY DEF MessageStatus, CommonDeserialize
<1> QED  BY <1>1, <1>2, <1>4, <1>5

(* A message that is answered without a handler: the answer claims no      *)
(* success of a Data message, and there is one if its version can be       *)
(* written.                                                                *)
LEMMA AnswerWithInv ==
  ASSUME ReplyInv, serving = "arrived", NEW S, NEW out \in Seq(S), NEW s, AnswerWith(out, s),
         UNCHANGED <<clientVars, request, serverSettings>>,
         request.type = "Data" => /\ out = <<>> => s # "NoError"
                                  /\ \A k \in DOMAIN out : ~ClaimsSuccess(out[k]),
         \/ out # <<>>
         \/ request.version \in Range(ServerLibrary)
         \/ ByteOrderRefused(request.flags, ServerBigEndian)
  PROVE  ReplyInv'
<1> DEFINE error == StatusMessage(request.version, request.flags, s, None)
<1>1. /\ serving' = "answered" /\ status' = s /\ binOutput' = Answer(out, s)
      /\ UNCHANGED <<call, returned, request, serverSettings, todo, ran>>
  BY DEF AnswerWith, clientVars
<1>2. todo = {} /\ ran = {} /\ call # "none"
  BY DEF ReplyInv, OneMessageAtATime
<1>3. binOutput' = out \/ (out = <<>> /\ binOutput' = <<error>>)
  <2>1. Answer(out, s) = out \/ (out = <<>> /\ Answer(out, s) = <<error>>)
    BY Zenon DEF Answer
  <2> QED  BY <1>1, <2>1
<1>4. binOutput' \in Seq(Range(binOutput'))
  <2>1. CASE binOutput' = out
    BY <2>1, SequenceOfItsElements
  <2>2. CASE binOutput' = <<error>>
    <3> HIDE DEF error
    <3>1. <<error>> \in Seq({error})
      OBVIOUS
    <3> QED  BY <2>2, <3>1, SequenceOfItsElements
  <2> QED  BY <1>3, <2>1, <2>2
<1>5. OneMessageAtATime'
  BY <1>1, <1>2, <1>4 DEF ReplyInv, OneMessageAtATime
<1>6. HandlersCanBeAnswered' /\ EachRunsOnce' /\ FirstErrorStays'
  BY <1>1, <1>2 DEF HandlersCanBeAnswered, EachRunsOnce, FirstErrorStays
<1>7. ClaimsAreTrue'
  <2>1. ~ClaimsSuccess(error) \/ s = "NoError"
    BY DEF ClaimsSuccess, StatusMessage
  <2>2. ASSUME request.type = "Data", NEW k \in DOMAIN binOutput'
        PROVE  ~ClaimsSuccess(binOutput'[k])
    BY <1>3, <2>1, <2>2
  <2> QED  BY <1>1, <2>2 DEF ClaimsAreTrue
<1>8. EveryRequestAnswered'
  BY <1>1 DEF EveryRequestAnswered, Answer, CommonSerialize
<1>9. NoFalseSuccess'
  BY <1>1, <1>2 DEF NoFalseSuccess
<1> QED  BY <1>5, <1>6, <1>7, <1>8, <1>9 DEF ReplyInv

(* An error with nothing written before it.                                *)
LEMMA AnswerErrorInv ==
  ASSUME ReplyInv, serving = "arrived", NEW s, s # "NoError", AnswerWith(<<>>, s),
         UNCHANGED <<clientVars, request, serverSettings>>,
         \/ request.version \in Range(ServerLibrary)
         \/ ByteOrderRefused(request.flags, ServerBigEndian)
  PROVE  ReplyInv'
<1> DEFINE out == <<>>
<1>1. out \in Seq({}) /\ \A k \in DOMAIN out : ~ClaimsSuccess(out[k])
  OBVIOUS
<1>2. AnswerWith(out, s)
  OBVIOUS
<1> HIDE DEF out
<1> QED  BY <1>1, <1>2, AnswerWithInv

(* handleMessage answers with what it has written: the versions, the       *)
(* settings, or the status of its refusal.                                 *)
LEMMA HandleMessageInv ==
  ASSUME ReplyInv, HandleMessage
  PROVE  ReplyInv'
<1>1. serving = "arrived" /\ UNCHANGED <<clientVars, request, serverSettings>>
  BY DEF HandleMessage
<1>2. <<>> \in Seq({})
  OBVIOUS
<1>3. CASE serverSettings = None /\ serving' = "answered" /\ status' = "ErrorNotInited"
           /\ UNCHANGED <<todo, binOutput, ran>>
  <2>1. UNCHANGED <<call, returned>> /\ todo = {} /\ ran = {} /\ binOutput = <<>> /\ call # "none"
    BY <1>1 DEF ReplyInv, OneMessageAtATime, clientVars
  <2>2. OneMessageAtATime'
    BY <1>1, <1>3, <2>1 DEF ReplyInv, OneMessageAtATime
  <2>3. HandlersCanBeAnswered' /\ EachRunsOnce' /\ FirstErrorStays'
    BY <1>3, <2>1 DEF HandlersCanBeAnswered, EachRunsOnce, FirstErrorStays
  <2>4. ClaimsAreTrue' /\ EveryRequestAnswered' /\ NoFalseSuccess'
    BY <1>1, <1>3, <2>1 DEF ClaimsAreTrue, EveryRequestAnswered, NoFalseSuccess
  <2> QED  BY <2>2, <2>3, <2>4 DEF ReplyInv
<1>4. CASE AnswerWith(<<VersionsReply>>, "NoError")
  <2> DEFINE out == <<VersionsReply>>
  <2>1. out \in Seq({VersionsReply}) /\ out # <<>> /\ DOMAIN out = {1} /\ out[1] = VersionsReply
    OBVIOUS
  <2>2. ~ClaimsSuccess(VersionsReply)
    BY DEF ClaimsSuccess, VersionsReply, StatusMessage
  <2>3. \A k \in DOMAIN out : ~ClaimsSuccess(out[k])
    BY <2>1, <2>2
  <2> HIDE DEF out
  <2>4. AnswerWith(out, "NoError")
    BY <1>4 DEF out
  <2> QED  BY <1>1, <2>1, <2>3, <2>4, AnswerWithInv
<1>5. CASE MessageStatus = "ErrorNotCompatibleCommonFlagsSettings"
           /\ AnswerWith(<<>>, MessageStatus)
  <2>1. ByteOrderRefused(request.flags, ServerBigEndian)
    BY <1>5 DEF MessageStatus, CommonDeserialize
  <2> QED  BY <1>1, <1>5, <2>1, AnswerErrorInv
<1>6. CASE /\ serverSettings # None /\ MessageStatus = "NoError" /\ request.type = "GetSettings"
           /\ \E s : AnswerWith(SettingsReply, s)
  <2>1. request.version \in Range(ServerLibrary)
    BY <1>1, <1>6, ReadableVersion
  <2>2. PICK S : SettingsReply \in Seq(S)
    <3> DEFINE m == DataMessage(request.version, serverSettings.mandatory, PartySettings,
                                request.version, serverSettings, "none")
    <3>1. SettingsReply = <<>> \/ SettingsReply = <<m>>
      BY Zenon DEF SettingsReply
    <3> HIDE DEF m
    <3>2. <<m>> \in Seq({m})
      OBVIOUS
    <3> QED  BY <1>2, <3>1, <3>2
  <2> QED  BY <1>1, <1>6, <2>1, <2>2, AnswerWithInv
<1>7. CASE serverSettings # None /\ MessageStatus = "NoError"
           /\ AnswerWith(<<>>, "ErrorDataCorrupted")
  <2>1. request.version \in Range(ServerLibrary)
    BY <1>1, <1>7, ReadableVersion
  <2> QED  BY <1>1, <1>7, <2>1, AnswerErrorInv
<1> QED  BY <1>3, <1>4, <1>5, <1>6, <1>7 DEF HandleMessage

(* A Data message is refused, or handlers of its struct are acquired, none *)
(* of which has run.                                                       *)
LEMMA HandleDataMessageInv ==
  ASSUME ReplyInv, HandleDataMessage
  PROVE  ReplyInv'
<1>1. /\ serving = "arrived" /\ serverSettings # None /\ MessageStatus = "NoError"
      /\ UNCHANGED <<clientVars, request, serverSettings>>
  BY DEF HandleDataMessage
<1>2. request.version \in Range(ServerLibrary)
  BY <1>1, ReadableVersion
<1>3. CASE \E s : s # "NoError" /\ AnswerWith(<<>>, s)
  BY <1>1, <1>2, <1>3, AnswerErrorInv
<1>4. CASE /\ todo' # {}
           /\ serving' = "handling"
           /\ UNCHANGED <<status, binOutput, ran>>
  <2>1. /\ UNCHANGED <<call, returned>> /\ call # "none"
        /\ status = "NoError" /\ ran = {} /\ binOutput = <<>>
    BY <1>1 DEF ReplyInv, OneMessageAtATime, clientVars
  <2>2. OneMessageAtATime'
    BY <1>1, <1>4, <2>1 DEF ReplyInv, OneMessageAtATime
  <2>3. ~ByteOrderRefused(request.flags, ServerBigEndian)
    BY <1>1 DEF MessageStatus, CommonDeserialize
  <2>4. HandlersCanBeAnswered'
    BY <1>1, <1>2, <2>3 DEF HandlersCanBeAnswered, ByteOrderRefused
  <2>5. EachRunsOnce' /\ FirstErrorStays'
    BY <1>4, <2>1 DEF EachRunsOnce, FirstErrorStays
  <2>6. ClaimsAreTrue' /\ EveryRequestAnswered' /\ NoFalseSuccess'
    BY <1>4, <2>1 DEF ClaimsAreTrue, EveryRequestAnswered, NoFalseSuccess
  <2> QED  BY <2>2, <2>4, <2>5, <2>6 DEF ReplyInv
<1>5. \/ \E st : st # "NoError" /\ AnswerWith(<<>>, st)
      \/ todo' # {} /\ serving' = "handling" /\ UNCHANGED <<status, binOutput, ran>>
  BY Zenon DEF HandleDataMessage, TestCommonFlags
<1> QED  BY <1>3, <1>4, <1>5

(* A handler that runs adds no claim to the output of the handlers before  *)
(* it but that of its own success, and only one with an output writes      *)
(* that.                                                                   *)
LEMMA HandlerResult ==
  ASSUME ReplyInv, serving = "handling", NEW h \in Handlers,
         NEW r \in HandleDataCommon(h, binOutput)
  PROVE  /\ r.out \in Seq(Range(r.out))
         /\ request.type = "Data" =>
              \A k \in DOMAIN r.out :
                ClaimsSuccess(r.out[k]) =>
                  \/ k \in DOMAIN binOutput /\ ClaimsSuccess(binOutput[k])
                  \/ r.status = "NoError" /\ Traits[h].output # Dummy
<1> DEFINE refusal == StatusMessage(request.version, request.flags, "ErrorNotSupportedInterfaceVersion",
                                    [minimum |-> Traits[h].minimum, output |-> Traits[h].output])
           data(cut) == DataMessage(request.version, request.flags, Traits[h].output,
                                    request.interfaceVersion, None, cut)
<1>1. binOutput \in Seq(Range(binOutput))
  BY DEF ReplyInv, OneMessageAtATime
<1>2. ~ClaimsSuccess(refusal)
  BY DEF ClaimsSuccess, StatusMessage
<1>3. \A cut : ClaimsSuccess(data(cut)) => cut \notin {"context", "body"}
  BY DEF ClaimsSuccess, DataMessage
<1>6. \/ r.out = binOutput
      \/ r.out = Append(binOutput, refusal)
      \/ \E cut \in {"context", "body"} : r.out = <<data(cut)>>
      \/ r.out = <<data("none")>> /\ r.status = "NoError" /\ Traits[h].output # Dummy
  BY DEF HandleDataCommon
<1> HIDE DEF refusal, data
<1>7. CASE r.out = binOutput
  BY <1>1, <1>7
<1>8. CASE r.out = Append(binOutput, refusal)
  <2>1. r.out \in Seq(Range(binOutput) \cup {refusal})
    BY <1>1, <1>8
  <2>2. \A k \in DOMAIN r.out : r.out[k] = refusal \/ (k \in DOMAIN binOutput /\ r.out[k] = binOutput[k])
    BY <1>1, <1>8
  <2> QED  BY <1>1, <1>2, <2>1, <2>2, SequenceOfItsElements
<1>9. CASE \E cut \in {"context", "body"} : r.out = <<data(cut)>>
  <2>1. PICK cut \in {"context", "body"} : r.out = <<data(cut)>>
    BY <1>9
  <2>2. r.out \in Seq({data(cut)}) /\ \A k \in DOMAIN r.out : r.out[k] = data(cut)
    BY <2>1
  <2> QED  BY <1>3, <2>2, SequenceOfItsElements
<1>10. CASE r.out = <<data("none")>> /\ r.status = "NoError" /\ Traits[h].output # Dummy
  <2>1. r.out \in Seq({data("none")})
    BY <1>10
  <2> QED  BY <1>10, <2>1, SequenceOfItsElements
<1> QED  BY <1>6, <1>7, <1>8, <1>9, <1>10

(* A handler of the server runs.                                           *)
LEMMA RunHandlerInv ==
  ASSUME ReplyInv, NEW h \in Handlers, RunHandler(h)
  PROVE  ReplyInv'
<1>1. PICK r \in HandleDataCommon(h, binOutput) :
        /\ status' = FirstError(status, r.status)
        /\ ran' = ran \cup {[handler |-> h, status |-> r.status]}
        /\ binOutput' = IF todo = {h} THEN Answer(r.out, FirstError(status, r.status)) ELSE r.out
  BY DEF RunHandler
<1>2. /\ serving = "handling" /\ h \in todo /\ todo' = todo \ {h}
      /\ serving' = IF todo = {h} THEN "answered" ELSE "handling"
      /\ UNCHANGED <<call, returned, request, serverSettings>>
  BY DEF RunHandler, clientVars
<1>3. call # "none" /\ request.version \in Range(ServerLibrary)
      /\ ~ByteOrderRefused(request.flags, ServerBigEndian)
  BY <1>2 DEF ReplyInv, OneMessageAtATime, HandlersCanBeAnswered
<1>4. /\ r.out \in Seq(Range(r.out))
      /\ request.type = "Data" =>
           \A k \in DOMAIN r.out :
             ClaimsSuccess(r.out[k]) =>
               \/ k \in DOMAIN binOutput /\ ClaimsSuccess(binOutput[k])
               \/ r.status = "NoError" /\ Traits[h].output # Dummy
  BY <1>2, HandlerResult
<1>5. ran' # {} /\ (status' = "NoError" <=> status = "NoError" /\ r.status = "NoError")
  BY <1>1 DEF FirstError
<1> DEFINE new == [handler |-> h, status |-> r.status]
<1>6. ran' = ran \cup {new} /\ new.handler = h /\ new.status = r.status
  BY <1>1
<1> HIDE DEF new
<1>7. Met' = Met /\ (RoutinesSuit' <=> RoutinesSuit)
  <2>1. {q.handler : q \in ran'} = {q.handler : q \in ran} \cup {h}
    BY <1>6
  <2>2. Met' = Met
    BY <1>2, <2>1 DEF Met
  <2> QED  BY <2>2 DEF RoutinesSuit
<1>8. RoutinesSuit /\ Traits[h].output # Dummy => todo = {h} /\ status = "NoError"
  <2> SUFFICES ASSUME RoutinesSuit, Traits[h].output # Dummy
               PROVE  todo = {h} /\ status = "NoError"
    OBVIOUS
  <2>1. h \in Met /\ \A g \in Met : g = h
    BY <1>2 DEF Met, RoutinesSuit
  <2>2. todo = {h} /\ \A q \in ran : q.handler = h
    BY <1>2, <2>1 DEF Met
  <2>3. ran = {}
    BY <1>2, <2>2 DEF ReplyInv, EachRunsOnce
  <2> QED  BY <1>2, <2>2, <2>3 DEF ReplyInv, EachRunsOnce
<1> DEFINE answer == StatusMessage(request.version, request.flags, status', None)
<1>9. binOutput' = r.out \/ (todo = {h} /\ binOutput' = <<answer>>)
  BY <1>1, <1>3 DEF Answer, CommonSerialize
<1>10. ClaimsSuccess(answer) => status' = "NoError"
  BY DEF ClaimsSuccess, StatusMessage
<1> HIDE DEF answer
<1>11. binOutput' \in Seq(Range(binOutput'))
  <2>1. <<answer>> \in Seq({answer})
    OBVIOUS
  <2> QED  BY <1>4, <1>9, <2>1, SequenceOfItsElements
<1>12. OneMessageAtATime'
  BY <1>2, <1>3, <1>11 DEF ReplyInv, OneMessageAtATime
<1>13. HandlersCanBeAnswered'
  BY <1>2, <1>3 DEF HandlersCanBeAnswered, ByteOrderRefused
<1>14. EachRunsOnce'
  <2>1. \A q \in ran' : q.handler \notin todo'
    BY <1>1, <1>2 DEF ReplyInv, EachRunsOnce
  <2> QED  BY <1>5, <2>1 DEF EachRunsOnce
<1>15. FirstErrorStays'
  BY <1>1, <1>5 DEF ReplyInv, FirstErrorStays
<1>16. ClaimsAreTrue'
  <2>1. \A q \in ran : q \in ran'
    BY <1>1
  <2>2. r.status = "NoError" => \E q \in ran' : q.status = "NoError"
    BY <1>6
  <2>3. ASSUME request.type = "Data", NEW k \in DOMAIN binOutput', ClaimsSuccess(binOutput'[k])
        PROVE  /\ \E q \in ran' : q.status = "NoError"
               /\ RoutinesSuit => todo = {h} /\ status' = "NoError"
    <3>1. CASE k \in DOMAIN binOutput /\ ClaimsSuccess(binOutput[k])
      BY <1>2, <2>1, <2>3, <3>1 DEF ReplyInv, ClaimsAreTrue
    <3>2. CASE r.status = "NoError" /\ Traits[h].output # Dummy
      BY <1>5, <1>8, <2>2, <3>2
    <3>3. CASE todo = {h} /\ binOutput' = <<answer>>
      BY <1>5, <1>10, <2>2, <2>3, <3>3
    <3> QED  BY <1>4, <1>9, <2>3, <3>1, <3>2, <3>3
  <2> QED  BY <1>2, <1>7, <2>3 DEF ClaimsAreTrue
<1>17. EveryRequestAnswered'
  <2>1. todo = {h} => binOutput' # <<>>
    BY <1>1, <1>3 DEF Answer, CommonSerialize
  <2> QED  BY <1>2, <2>1 DEF EveryRequestAnswered
<1>18. NoFalseSuccess'
  BY <1>2, <1>3 DEF NoFalseSuccess
<1> QED  BY <1>12, <1>13, <1>14, <1>15, <1>16, <1>17, <1>18 DEF ReplyInv

-----------------------------------------------------------------------------

(* The invariant holds at the start.                                       *)
LEMMA InitReplyInv == Init => ReplyInv
<1> SUFFICES ASSUME Init PROVE ReplyInv
  OBVIOUS
<1>1. /\ call = "none" /\ returned = None /\ serverSettings = None /\ request = None
      /\ serving = "idle" /\ todo = {} /\ status = "NoError" /\ binOutput = <<>> /\ ran = {}
  BY DEF Init
<1>2. OneMessageAtATime
  BY <1>1 DEF OneMessageAtATime
<1>3. HandlersCanBeAnswered /\ EachRunsOnce /\ FirstErrorStays
  BY <1>1 DEF HandlersCanBeAnswered, EachRunsOnce, FirstErrorStays
<1>4. ClaimsAreTrue /\ EveryRequestAnswered
  BY <1>1 DEF ClaimsAreTrue, EveryRequestAnswered
<1>5. NoFalseSuccess
  BY <1>1, NoneAssumption DEF NoFalseSuccess
<1> QED  BY <1>2, <1>3, <1>4, <1>5 DEF ReplyInv

(* Every step keeps it.                                                    *)
LEMMA NextReplyInv == ReplyInv /\ [Next]_vars => ReplyInv'
<1> SUFFICES ASSUME ReplyInv, [Next]_vars PROVE ReplyInv'
  OBVIOUS
<1>1. CASE \E s \in ClientOffers : InitBySettings(s) \/ InitByServer(s)
  BY <1>1, InitBySettingsInv, InitByServerInv
<1>2. CASE ReceiveVersions
  BY <1>2, ReceiveVersionsInv
<1>3. CASE ReceiveSettings
  BY <1>3, ReceiveSettingsInv
<1>4. CASE \E c \in Calls, additional \in AdditionalFlags : HandleData(c, additional)
  BY <1>4, HandleDataInv
<1>5. CASE ReceiveData
  BY <1>5, ReceiveDataInv
<1>6. CASE \E s \in {c.input : c \in Calls} : GetServerHandlerSettings(s)
  BY <1>6, GetServerHandlerSettingsInv
<1>7. CASE ReceiveHandlerSettings
  BY <1>7, ReceiveHandlerSettingsInv
<1>8. CASE CommunicatorFails
  BY <1>8, CommunicatorFailsInv
<1>9. CASE \E m \in OtherRequests : OtherRequest(m)
  BY <1>9, OtherRequestInv
<1>10. CASE OtherReply
  BY <1>10, OtherReplyInv
<1>11. CASE \E s \in ServerOffers : ServerInit(s)
  BY <1>11, ServerInitInv
<1>12. CASE HandleMessage
  BY <1>12, HandleMessageInv
<1>13. CASE HandleDataMessage
  BY <1>13, HandleDataMessageInv
<1>14. CASE \E h \in Handlers : RunHandler(h)
  BY <1>14, RunHandlerInv
<1>15. CASE UNCHANGED vars
  BY <1>15 DEF vars, clientVars, serverVars, ReplyInv, OneMessageAtATime, HandlersCanBeAnswered,
               EachRunsOnce, FirstErrorStays, ClaimsAreTrue, EveryRequestAnswered, NoFalseSuccess,
               ByteOrderRefused, RoutinesSuit, Met
<1> QED
  BY <1>1, <1>2, <1>3, <1>4, <1>5, <1>6, <1>7, <1>8, <1>9, <1>10, <1>11, <1>12, <1>13, <1>14, <1>15
     DEF Next

(* Whatever part of the output of handleMessage a client may read, a       *)
(* success in it is that of a handler of its message, and of all of them   *)
(* if the struct has one routine or multicast routines without outputs: of *)
(* Server, whatever set of handlers the registrar hands it, and of the     *)
(* call of the client that waits for the reply.                            *)
THEOREM RepliesAreTrue == Spec => []ReplyInv
<1>1. Init => ReplyInv
  BY InitReplyInv
<1>2. ReplyInv /\ [Next]_vars => ReplyInv'
  BY NextReplyInv
<1> QED  BY <1>1, <1>2, PTL DEF Spec

(* Server::handleMessage leaves a reply for every message but one whose    *)
(* byte order it refuses, for all builds, settings, handlers and requests. *)
THEOREM RequestsAnswered == Spec => []EveryRequestAnswered
<1>1. ReplyInv => EveryRequestAnswered
  BY DEF ReplyInv
<1> QED  BY <1>1, RepliesAreTrue, PTL

(* Client::handleData returns NoError only if a handler succeeded; and if  *)
(* the routines of the struct are as CSP.txt:1727-1732 asks, it misses the *)
(* failure of none, however many handlers ran, whichever of them failed    *)
(* and wherever a reply broke off.                                         *)
THEOREM SuccessIsTrue == Spec => []NoFalseSuccess
<1>1. ReplyInv => NoFalseSuccess
  BY DEF ReplyInv
<1> QED  BY <1>1, RepliesAreTrue, PTL

-----------------------------------------------------------------------------
(* The negotiation.                                                        *)

(* What the first n rounds of a loop over s have found.                    *)
Rounds(s, T, F) ==
  [n \in 0..Len(s) |->
     IF n = 0 THEN <<>> ELSE IF s[n] \in T THEN Append(F[n - 1], s[n]) ELSE F[n - 1]]

(* The rounds of a loop over a sequence make a function.                   *)
LEMMA RoundsExist ==
  ASSUME NEW S, NEW s \in Seq(S), NEW T
  PROVE  \E F : F = Rounds(s, T, F)
<1> DEFINE Step(f, n) == IF s[n] \in T THEN Append(f[n - 1], s[n]) ELSE f[n - 1]
           Upto(m) == {f \in [0..m -> Seq(S)] : f[0] = <<>> /\ \A n \in 1..m : f[n] = Step(f, n)}
           M == {m \in Nat : m <= Len(s) => Upto(m) # {}}
<1>1. 0 \in M
  <2> DEFINE f == [n \in 0..0 |-> <<>>]
  <2>1. f \in Upto(0)
    OBVIOUS
  <2> QED  BY <2>1
<1>2. ASSUME NEW m \in Nat, m \in M
      PROVE  m + 1 \in M
  <2> SUFFICES ASSUME m + 1 <= Len(s)
               PROVE  Upto(m + 1) # {}
    <3> HIDE DEF Upto
    <3> QED  OBVIOUS
  <2>1. PICK f \in Upto(m) : TRUE
    <3> HIDE DEF Upto
    <3> QED  BY <1>2
  <2>2. f \in [0..m -> Seq(S)] /\ f[0] = <<>> /\ \A n \in 1..m : f[n] = Step(f, n)
    BY <2>1
  <2>3. s[m + 1] \in S /\ f[m] \in Seq(S)
    BY <2>2
  <2> DEFINE last == IF s[m + 1] \in T THEN Append(f[m], s[m + 1]) ELSE f[m]
             g == [n \in 0..(m + 1) |-> IF n = m + 1 THEN last ELSE f[n]]
  <2>4. last \in Seq(S)
    BY <2>3
  <2>5. g \in [0..(m + 1) -> Seq(S)] /\ g[0] = <<>> /\ g[m + 1] = last /\ \A n \in 0..m : g[n] = f[n]
    BY <2>2, <2>4
  <2> HIDE DEF g
  <2>6. ASSUME NEW n \in 1..(m + 1)
        PROVE  g[n] = Step(g, n)
    <3>1. n - 1 \in 0..m /\ g[n - 1] = f[n - 1]
      BY <2>5
    <3>2. CASE n = m + 1
      BY <2>5, <3>1, <3>2
    <3>3. CASE n \in 1..m
      <4>1. n \in 0..m
        BY <3>3
      <4>2. g[n] = f[n]
        BY <2>5, <4>1
      <4>3. f[n] = Step(f, n)
        BY Zenon, <2>2, <3>3
      <4> QED  BY <3>1, <4>2, <4>3
    <3> QED  BY <3>2, <3>3
  <2>7. g \in Upto(m + 1)
    BY <2>5, <2>6
  <2> QED  BY <2>7
<1> HIDE DEF M
<1>3. Len(s) \in M
  BY <1>1, <1>2, NumbersByInduction
<1>4. PICK f \in Upto(Len(s)) : TRUE
  BY <1>3 DEF M
<1>5. f \in [0..Len(s) -> Seq(S)] /\ f[0] = <<>> /\ \A n \in 1..Len(s) : f[n] = Step(f, n)
  BY <1>4
<1>6. \A n \in 0..Len(s) : n = 0 \/ n \in 1..Len(s)
  OBVIOUS
<1>7. f = Rounds(s, T, f)
  BY <1>5, <1>6 DEF Rounds
<1> QED  BY <1>7

(* FoundIn takes the elements of s one by one.                             *)
LEMMA FoundInByRounds ==
  ASSUME NEW S, NEW s \in Seq(S), NEW T
  PROVE  \E F : /\ FoundIn(s, T) = F[Len(s)]
                /\ F[0] = <<>>
                /\ \A n \in 1..Len(s) :
                     F[n] = IF s[n] \in T THEN Append(F[n - 1], s[n]) ELSE F[n - 1]
<1> DEFINE R(F) == F = Rounds(s, T, F)
           G == CHOOSE F : R(F)
<1>1. FoundIn(s, T) = G[Len(s)]
  BY DEF FoundIn, Rounds
<1>2. \E F : R(F)
  BY RoundsExist
<1> HIDE DEF R
<1>3. R(G)
  BY <1>2
<1> HIDE DEF G
<1>4. G = Rounds(s, T, G)
  BY <1>3 DEF R
<1>5. \A n \in 0..Len(s) :
        G[n] = IF n = 0 THEN <<>> ELSE IF s[n] \in T THEN Append(G[n - 1], s[n]) ELSE G[n - 1]
  BY <1>4 DEF Rounds
<1> QED  BY <1>1, <1>5

(* An appended element joins the elements.                                 *)
LEMMA RangeOfAppend ==
  ASSUME NEW S, NEW q \in Seq(S), NEW e \in S
  PROVE  Range(Append(q, e)) = Range(q) \cup {e}
<1>1. DOMAIN Append(q, e) = 1..(Len(q) + 1) /\ Len(q) \in Nat /\ DOMAIN q = 1..Len(q)
  OBVIOUS
<1>2. \A j \in 1..(Len(q) + 1) : Append(q, e)[j] = IF j = Len(q) + 1 THEN e ELSE q[j]
  OBVIOUS
<1> QED  BY <1>1, <1>2 DEF Range

(* A loop over s finds the elements of s that T has, and of numbers in     *)
(* decreasing order it finds the greatest first.                           *)
LEMMA FoundInElements ==
  ASSUME NEW S, NEW s \in Seq(S), NEW T
  PROVE  /\ FoundIn(s, T) \in Seq(S)
         /\ Range(FoundIn(s, T)) = Range(s) \cap T
         /\ S \subseteq Int /\ (\A j, k \in DOMAIN s : j < k => s[j] > s[k]) =>
              \A v \in Range(FoundIn(s, T)) : FoundIn(s, T)[1] >= v
<1>1. PICK F : /\ FoundIn(s, T) = F[Len(s)]
               /\ F[0] = <<>>
               /\ \A n \in 1..Len(s) :
                    F[n] = IF s[n] \in T THEN Append(F[n - 1], s[n]) ELSE F[n - 1]
  BY FoundInByRounds
<1> DEFINE Decreasing == S \subseteq Int /\ \A j, k \in DOMAIN s : j < k => s[j] > s[k]
           Good(m) == /\ F[m] \in Seq(S)
                      /\ \A v : v \in Range(F[m]) <=> v \in T /\ \E j \in 1..m : v = s[j]
                      /\ Decreasing => \A v \in Range(F[m]) : F[m][1] >= v
           M == {m \in Nat : m <= Len(s) => Good(m)}
<1>2. 0 \in M
  <2>1. F[0] = <<>> /\ Range(F[0]) = {} /\ F[0] \in Seq(S)
    BY <1>1 DEF Range
  <2>2. Good(0)
    BY <2>1
  <2> QED  BY <2>2
<1>3. ASSUME NEW m \in Nat, m \in M
      PROVE  m + 1 \in M
  <2> SUFFICES ASSUME m + 1 <= Len(s)
               PROVE  Good(m + 1)
    OBVIOUS
  <2>1. Good(m)
    BY <1>3
  <2>2. m + 1 \in 1..Len(s) /\ (m + 1) - 1 = m /\ s[m + 1] \in S /\ DOMAIN s = 1..Len(s)
    OBVIOUS
  <2>3. CASE s[m + 1] \notin T
    <3>1. F[m + 1] = F[m]
      BY <1>1, <2>2, <2>3
    <3>2. \A v \in T : (\E j \in 1..(m + 1) : v = s[j]) <=> \E j \in 1..m : v = s[j]
      BY <2>3
    <3> QED  BY <2>1, <3>1, <3>2
  <2>4. CASE s[m + 1] \in T
    <3> DEFINE e == s[m + 1]
    <3>1. F[m + 1] = Append(F[m], e)
      BY <1>1, <2>2, <2>4
    <3> HIDE DEF e
    <3>2. e \in S /\ e \in T /\ e = s[m + 1]
      BY <2>2, <2>4 DEF e
    <3>3. Append(F[m], e) \in Seq(S) /\ Range(Append(F[m], e)) = Range(F[m]) \cup {e}
      <4>1. F[m] \in Seq(S)
        BY <2>1
      <4> HIDE DEF Good
      <4> QED  BY <3>2, <4>1, AppendProperties, RangeOfAppend
    <3>4. \A v : v \in Range(F[m + 1]) <=> v \in T /\ \E j \in 1..(m + 1) : v = s[j]
      <4>1. \A v : (\E j \in 1..(m + 1) : v = s[j]) <=> v = e \/ \E j \in 1..m : v = s[j]
        BY <3>2
      <4> QED  BY <2>1, <3>1, <3>2, <3>3, <4>1
    <3>5. ASSUME Decreasing, NEW v \in Range(F[m + 1])
          PROVE  F[m + 1][1] >= v
      <4>1. CASE F[m] = <<>>
        <5>1. F[m + 1][1] = e /\ Range(F[m]) = {}
          BY <3>1, <4>1 DEF Range
        <5> QED  BY <3>1, <3>2, <3>3, <3>5, <5>1
      <4>2. CASE F[m] # <<>>
        <5>1. F[m + 1][1] = F[m][1] /\ F[m][1] \in Range(F[m])
          <6>1. F[m] \in Seq(S)
            BY <2>1
          <6> HIDE DEF Good
          <6>2. 1 \in DOMAIN F[m]
            BY <4>2, <6>1
          <6> QED  BY <3>1, <3>2, <6>1, <6>2 DEF Range
        <5>2. PICK j \in 1..m : F[m][1] = s[j]
          BY <2>1, <5>1
        <5>3. s[j] > e
          BY <2>2, <3>2, <3>5, <5>2
        <5>4. s[j] \in Int /\ e \in Int
          <6>1. s[j] \in S /\ S \subseteq Int
            BY <2>2, <3>5, <5>2
          <6> QED  BY <3>2, <6>1
        <5> QED  BY <2>1, <3>1, <3>3, <3>5, <5>1, <5>2, <5>3, <5>4
      <4> QED  BY <4>1, <4>2
    <3> QED  BY <3>1, <3>3, <3>4, <3>5
  <2> QED  BY <2>3, <2>4
<1> HIDE DEF M
<1>4. Len(s) \in M
  BY <1>2, <1>3, NumbersByInduction
<1>5. Good(Len(s))
  BY <1>4 DEF M
<1>6. \A v : v \in Range(s) <=> \E j \in 1..Len(s) : v = s[j]
  BY DEF Range
<1> QED  BY <1>1, <1>5, <1>6
-----------------------------------------------------------------------------
(* The settings of the client.                                             *)

(* What AgreementInv says of the settings a client speaks by.              *)
SettingsSpoken ==
  /\ settings.mandatory \subseteq Flags /\ settings.forbidden \subseteq Flags
  /\ valid \in BOOLEAN
  /\ valid => SettingsValid(settings)
  /\ offer \in ClientOffers \cup {None}
  /\ SettingsAgreed /\ SettingsSuitBoth

(* The invariant says whose settings are spoken.                           *)
LEMMA SpokenByInv ==
  ASSUME AgreementInv
  PROVE  SettingsSpoken
BY DEF AgreementInv, TypeOK, SettingsSpoken

(* Only init on a client that is not valid touches what was agreed on.     *)
LEMMA SettingsKept ==
  ASSUME SettingsSpoken, UNCHANGED <<settings, valid, offer>>, ~valid \/ received' = received
  PROVE  SettingsSpoken'
<1>1. SettingsAgreed'
  BY DEF SettingsSpoken, SettingsAgreed
<1>2. SettingsSuitBoth'
  BY DEF SettingsSpoken, SettingsSuitBoth
<1> QED  BY <1>1, <1>2 DEF SettingsSpoken, SettingsValid

(* The common part of a message yields a status.                           *)
LEMMA CommonStatuses ==
  ASSUME NEW v, NEW m, NEW minimum, NEW flags, NEW library, NEW big
  PROVE  /\ CommonSerialize(v, flags, library, big) \in StatusCode
         /\ CommonDeserialize(m, minimum, library, big) \in StatusCode
BY DEF CommonSerialize, CommonDeserialize, StatusCode

(* Settings of a client or a server, and those that init starts from.      *)
SettingsTyped(s) ==
  /\ s.versions \in Seq(Nat)
  /\ s.mandatory \subseteq Flags /\ s.forbidden \subseteq Flags
  /\ s.interfaces \in [DOMAIN s.interfaces -> Nat]

(* Settings cleared by a client are settings.                              *)
LEMMA ClearedTyped == SettingsTyped(Cleared(ClientBigEndian))
BY DEF SettingsTyped, Cleared, Settings, PlatformFlags, Flags

(* What the server offers are settings.                                    *)
LEMMA OffersTyped ==
  ASSUME NEW s \in ClientOffers \cup ServerOffers
  PROVE  SettingsTyped(s) /\ \A j, k \in DOMAIN s.versions : j < k => s.versions[j] > s.versions[k]
<1>1. s.versions \in Seq(Nat)
  BY VersionsAssumption
<1> QED  BY <1>1, VersionsAssumption, SettingsAssumption DEF SettingsTyped

(* getCompatibleSettings on cleared settings leaves the intersection of    *)
(* both sides when it succeeds, and settings of the right type in any case.*)
LEMMA CompatibleSuits ==
  ASSUME NEW l \in ClientOffers, NEW r \in ServerOffers, NEW c,
         c = Compatible(Cleared(ClientBigEndian), l, r)
  PROVE  /\ c.status \in StatusCode
         /\ SettingsTyped(c.settings)
         /\ c.status = "NoError" =>
              /\ Range(c.settings.versions) = Range(l.versions) \cap Range(r.versions)
              /\ \A v \in Range(c.settings.versions) : c.settings.versions[1] >= v
              /\ c.settings.mandatory = l.mandatory \cup r.mandatory
              /\ c.settings.forbidden = l.forbidden \cup r.forbidden
              /\ c.settings.mandatory \cap c.settings.forbidden = {}
              /\ \A i \in DOMAIN c.settings.interfaces :
                   c.settings.interfaces[i] <= l.interfaces[i] /\ c.settings.interfaces[i] <= r.interfaces[i]
<1> DEFINE mine       == Cleared(ClientBigEndian)
           found      == FoundIn(l.versions, Range(r.versions))
           versions   == mine.versions \o found
           mandatory  == l.mandatory \cup r.mandatory
           forbidden  == l.forbidden \cup r.forbidden
           interfaces == CommonInterfaces(mine, l, r)
<1>1. SettingsTyped(l) /\ SettingsTyped(r)
  BY OffersTyped
<1>2. mine.versions = <<>> /\ DOMAIN mine.interfaces = {} /\ SettingsTyped(mine)
  BY ClearedTyped DEF Cleared, Settings
<1>3. /\ found \in Seq(Nat) /\ Range(found) = Range(l.versions) \cap Range(r.versions)
      /\ \A v \in Range(found) : found[1] >= v
  <2>1. l.versions \in Seq(Nat) /\ Nat \subseteq Int
    BY <1>1 DEF SettingsTyped
  <2>2. \A j, k \in DOMAIN l.versions : j < k => l.versions[j] > l.versions[k]
    BY OffersTyped
  <2> QED  BY <2>1, <2>2, FoundInElements
<1>4. versions = found
  BY <1>2, <1>3
<1>5. /\ interfaces \in [DOMAIN interfaces -> Nat]
      /\ \A i \in DOMAIN interfaces :
           interfaces[i] <= l.interfaces[i] /\ interfaces[i] <= r.interfaces[i]
  <2>1. /\ DOMAIN interfaces = DOMAIN l.interfaces \cap DOMAIN r.interfaces
        /\ interfaces = [i \in DOMAIN interfaces |->
                           IF l.interfaces[i] < r.interfaces[i]
                           THEN l.interfaces[i] ELSE r.interfaces[i]]
    BY <1>2 DEF CommonInterfaces
  <2>2. \A i \in DOMAIN interfaces : l.interfaces[i] \in Nat /\ r.interfaces[i] \in Nat
    BY <1>1, <2>1 DEF SettingsTyped
  <2> HIDE DEF interfaces
  <2> QED  BY <2>1, <2>2
<1> HIDE DEF found, interfaces, mine
<1>6. \/ c = [status |-> "ErrorNotSupportedProtocolVersion", settings |-> mine]
      \/ c = [status |-> "ErrorNotCompatibleCommonFlagsSettings",
              settings |-> Settings(versions, mandatory, forbidden, mine.interfaces)]
      \/ /\ \/ c = [status |-> "NoError",
                    settings |-> Settings(versions, mandatory, forbidden, interfaces)]
            \/ c = [status |-> "ErrorNoSupportedInterfaces",
                    settings |-> Settings(versions, mandatory, forbidden, interfaces)]
         /\ mandatory \cap forbidden = {}
  BY DEF Compatible, mine, found, interfaces
<1>7. mandatory \subseteq Flags /\ forbidden \subseteq Flags
  BY <1>1 DEF SettingsTyped
<1>8. c.status \in StatusCode
  BY <1>6 DEF StatusCode
<1>9. SettingsTyped(c.settings)
  BY <1>2, <1>3, <1>4, <1>5, <1>6, <1>7 DEF SettingsTyped, Settings
<1>10. c.status = "NoError" =>
         /\ c.settings = Settings(found, mandatory, forbidden, interfaces)
         /\ mandatory \cap forbidden = {}
  BY <1>4, <1>6
<1> QED  BY <1>3, <1>5, <1>8, <1>9, <1>10 DEF Settings

-----------------------------------------------------------------------------
(* The client's steps.                                                     *)

(* A call c of the client that sends m.                                    *)
LEMMA SendAgreement ==
  ASSUME AgreementInv, NEW m, NEW c \in {"versions", "settings", "data", "query", "other"},
         Send(m, c), m # None, SettingsSpoken', InitFromCleared', RequestSuits',
         expected' \in Calls \cup {None},
         c = "settings" => m.type = "GetSettings" /\ m.flags = PlatformFlags(ClientBigEndian)
  PROVE  AgreementInv'
<1>1. /\ serving' = "arrived" /\ call' = c /\ request' = m /\ todo' = {}
      /\ status' = "NoError" /\ binOutput' = <<>> /\ ran' = {}
      /\ UNCHANGED <<serverSettings, returned>>
  BY DEF Send
<1>2. TypeOK'
  BY <1>1 DEF AgreementInv, TypeOK, SettingsSpoken, StatusCode
<1>3. StatusesTyped' /\ SettingsCome' /\ AgreedWhileServed'
  BY <1>1 DEF StatusesTyped, SettingsCome, AgreedWhileServed
<1> QED  BY <1>2, <1>3 DEF AgreementInv, SettingsSpoken

(* A call that returns before it sends anything.                           *)
LEMMA ReturnAtOnceAgreement ==
  ASSUME AgreementInv, call = "none", NEW c, NEW s \in StatusCode, ReturnAtOnce(c, s),
         SettingsSpoken', expected' \in Calls \cup {None}
  PROVE  AgreementInv'
<1>1. /\ call' = "none" /\ ran' = {} /\ returned' = [call |-> c, status |-> s]
      /\ UNCHANGED <<request, serverSettings, serving, todo, status, binOutput>>
  BY DEF ReturnAtOnce, ReturnStatus
<1>2. serving = "idle" /\ request = None
  BY DEF AgreementInv, TypeOK
<1>3. TypeOK'
  BY <1>1 DEF AgreementInv, TypeOK, SettingsSpoken
<1>4. StatusesTyped' /\ InitFromCleared' /\ SettingsCome' /\ RequestSuits' /\ AgreedWhileServed'
  BY <1>1, <1>2 DEF AgreementInv, StatusesTyped, InitFromCleared, SettingsCome, RequestSuits,
                    AgreedWhileServed
<1> QED  BY <1>3, <1>4 DEF AgreementInv, SettingsSpoken

(* A call that ends after process has returned.                            *)
LEMMA TakeReplyAgreement ==
  ASSUME AgreementInv, NEW c, NEW s \in StatusCode, ReturnStatus(c, s), TakeReply,
         serving # "handling", SettingsSpoken', UNCHANGED expected
  PROVE  AgreementInv'
<1>1. /\ call' = "none" /\ returned' = [call |-> c, status |-> s]
      /\ serving' = "idle" /\ request' = None /\ binOutput' = <<>>
      /\ UNCHANGED <<serverSettings, todo, status, ran>>
  BY DEF ReturnStatus, TakeReply
<1>2. TypeOK'
  BY <1>1 DEF AgreementInv, TypeOK, SettingsSpoken
<1>3. StatusesTyped' /\ InitFromCleared' /\ SettingsCome' /\ RequestSuits' /\ AgreedWhileServed'
  BY <1>1 DEF StatusesTyped, InitFromCleared, SettingsCome, RequestSuits, AgreedWhileServed
<1> QED  BY <1>2, <1>3 DEF AgreementInv, SettingsSpoken

(* The messages of a client are no None.                                   *)
LEMMA RequestIsMessage ==
  ASSUME NEW type \in {"Data", "GetSettings"}, NEW version \in Nat, NEW flags \in SUBSET Flags,
         NEW struct \in Structs \cup {None}, NEW interfaceVersion \in Nat \cup {None}
  PROVE  Request(type, version, flags, struct, interfaceVersion) # None
<1>1. Request(type, version, flags, struct, interfaceVersion) \in
        [type : {"Data", "GetSettings"}, version : Nat, flags : SUBSET Flags,
         struct : Structs \cup {None}, interfaceVersion : Nat \cup {None}]
  BY DEF Request
<1> QED  BY <1>1, NoneAssumption

(* Client::init by settings.                                               *)
LEMMA InitBySettingsAgreement ==
  ASSUME AgreementInv, NEW s \in ClientOffers, InitBySettings(s)
  PROVE  AgreementInv'
<1>1. SettingsSpoken /\ expected \in Calls \cup {None}
  BY SpokenByInv DEF AgreementInv, TypeOK
<1>2. call = "none" /\ UNCHANGED <<received, expected, told>>
  BY DEF InitBySettings
<1>3. CASE /\ \E st \in {"ErrorAlreadyInited", "ErrorInvalidArgument"} : ReturnAtOnce("init", st)
           /\ UNCHANGED <<settings, valid, offer>>
  <2>1. SettingsSpoken'
    BY <1>1, <1>2, <1>3, SettingsKept
  <2> QED  BY <1>1, <1>2, <1>3, <2>1, ReturnAtOnceAgreement DEF StatusCode
<1>4. CASE /\ SettingsValid(s) /\ settings' = s /\ valid' = TRUE /\ offer' = None
           /\ ReturnAtOnce("init", "NoError")
  <2>1. SettingsTyped(s)
    BY OffersTyped
  <2>2. SettingsSpoken'
    BY <1>4, <2>1 DEF SettingsSpoken, SettingsAgreed, SettingsSuitBoth, SettingsTyped, SettingsValid
  <2> QED  BY <1>1, <1>2, <1>4, <2>2, ReturnAtOnceAgreement DEF StatusCode
<1> QED  BY <1>3, <1>4 DEF InitBySettings

(* Client::init by what the server says.                                   *)
LEMMA InitByServerAgreement ==
  ASSUME AgreementInv, NEW s \in ClientOffers, InitByServer(s)
  PROVE  AgreementInv'
<1> DEFINE m == Request("Data", Undefined, PlatformFlags(ClientBigEndian), None, None)
<1>1. SettingsSpoken /\ expected \in Calls \cup {None}
  BY SpokenByInv DEF AgreementInv, TypeOK
<1>2. call = "none" /\ UNCHANGED <<valid, received, expected, told>>
  BY DEF InitByServer
<1>3. CASE /\ \E st \in {"ErrorAlreadyInited", "ErrorInvalidArgument"} : ReturnAtOnce("init", st)
           /\ UNCHANGED <<settings, offer>>
  <2>1. SettingsSpoken'
    BY <1>1, <1>2, <1>3, SettingsKept
  <2> QED  BY <1>1, <1>2, <1>3, <2>1, ReturnAtOnceAgreement DEF StatusCode
<1>4. CASE ~valid /\ settings' = Cleared(ClientBigEndian) /\ offer' = s /\ Send(m, "versions")
  <2>1. m # None
    <3>1. PlatformFlags(ClientBigEndian) \in SUBSET Flags /\ Undefined \in Nat
      BY DEF PlatformFlags, Flags, Undefined
    <3> QED  BY <3>1, RequestIsMessage
  <2>2. SettingsSpoken'
    BY <1>1, <1>2, <1>4, ClearedTyped
       DEF SettingsSpoken, SettingsAgreed, SettingsSuitBoth, SettingsTyped
  <2>3. InitFromCleared' /\ RequestSuits'
    BY <1>2, <1>4 DEF InitFromCleared, RequestSuits, Send
  <2> QED  BY <1>1, <1>2, <1>4, <2>1, <2>2, <2>3, SendAgreement
<1> QED  BY <1>3, <1>4 DEF InitByServer, StartSettings

(* The reply with the versions of the server.                              *)
LEMMA ReceiveVersionsAgreement ==
  ASSUME AgreementInv, ReceiveVersions
  PROVE  AgreementInv'
<1>1. SettingsSpoken /\ expected \in Calls \cup {None}
  BY SpokenByInv DEF AgreementInv, TypeOK
<1>2. /\ call = "versions" /\ serving = "answered" /\ ~valid
      /\ UNCHANGED <<settings, valid, offer, expected, told>>
  BY DEF AgreementInv, InitFromCleared, ReceiveVersions, Reply
<1>3. SettingsSpoken'
  BY <1>1, <1>2, SettingsKept
<1>4. CASE \E st \in StatusCode : ReturnStatus("init", st) /\ TakeReply
  BY <1>2, <1>3, <1>4, TakeReplyAgreement
<1> DEFINE flags == PlatformFlags(ClientBigEndian)
<1>5. ASSUME NEW v, CommonSerialize(v, flags, ClientLibrary, ClientBigEndian) = "NoError",
             Send(Request("GetSettings", v, flags, None, None), "settings")
      PROVE  AgreementInv'
  <2> DEFINE m == Request("GetSettings", v, flags, None, None)
  <2>1. v \in Nat
    BY <1>5, LibrariesAssumption DEF CommonSerialize
  <2>2. m # None
    <3>1. flags \in SUBSET Flags
      BY DEF PlatformFlags, Flags
    <3> QED  BY <2>1, <3>1, RequestIsMessage
  <2>3. InitFromCleared' /\ RequestSuits'
    BY <1>2, <1>5 DEF AgreementInv, InitFromCleared, RequestSuits, Send
  <2>4. m.type = "GetSettings" /\ m.flags = flags
    BY DEF Request
  <2> HIDE DEF flags
  <2> QED  BY <1>1, <1>2, <1>3, <1>5, <2>2, <2>3, <2>4, SendAgreement DEF flags
<1>6. DeserializeVersions \in StatusCode /\ "ErrorNotSupportedProtocolVersion" \in StatusCode
  BY DEF DeserializeVersions, StatusCode
<1> QED  BY <1>4, <1>5, <1>6, CommonStatuses DEF ReceiveVersions

(* init ends: what the client agrees on comes from the settings it has     *)
(* read, and nothing that is left in its own settings.                     *)
LEMMA ReceiveSettingsAgreement ==
  ASSUME ReplyInv, AgreementInv, ReceiveSettings
  PROVE  AgreementInv'
<1>1. SettingsSpoken /\ expected \in Calls \cup {None}
  BY SpokenByInv DEF AgreementInv, TypeOK
<1>2. /\ call = "settings" /\ serving = "answered" /\ TakeReply
      /\ UNCHANGED <<offer, expected, told>>
  BY DEF ReceiveSettings, Reply
<1>3. ~valid /\ offer \in ClientOffers /\ settings = Cleared(ClientBigEndian)
  BY <1>2 DEF AgreementInv, InitFromCleared
<1>4. CASE /\ ReturnStatus("init", DeserializeSettings)
           /\ UNCHANGED <<settings, valid, received>>
  <2>1. SettingsSpoken'
    BY <1>1, <1>2, <1>4, SettingsKept
  <2>2. DeserializeSettings \in StatusCode
    BY CommonStatuses DEF DeserializeSettings, DeserializeReply, StatusCode
  <2> QED  BY <1>2, <1>4, <2>1, <2>2, TakeReplyAgreement
<1> DEFINE r == binOutput[1].content
           c == Compatible(settings, offer, r)
<1>5. CASE /\ DeserializeSettings = "NoError"
           /\ received' = r
           /\ settings' = c.settings
           /\ \/ c.status # "NoError" /\ ReturnStatus("init", c.status) /\ UNCHANGED valid
              \/ /\ c.status = "NoError"
                 /\ valid' = SettingsValid(c.settings)
                 /\ ReturnStatus("init", IF valid' THEN "NoError" ELSE "ErrorNotInited")
  <2>1. binOutput # <<>> /\ binOutput[1].type = "Data"
    BY <1>5 DEF DeserializeSettings, DeserializeReply
  <2>2. 1 \in DOMAIN binOutput
    BY <2>1 DEF ReplyInv, OneMessageAtATime
  <2>3. r \in ServerOffers /\ ClientBigEndian = ServerBigEndian
    BY <1>2, <2>1, <2>2 DEF AgreementInv, SettingsCome
  <2> HIDE DEF r, c
  <2>4. c = Compatible(Cleared(ClientBigEndian), offer, r)
    BY <1>3 DEF c
  <2>5. c.status \in StatusCode /\ SettingsTyped(c.settings)
    BY <1>3, <2>3, <2>4, CompatibleSuits
  <2>6. SettingsTyped(settings')
    BY <1>5, <2>5
  <2>7. CASE c.status # "NoError" /\ ReturnStatus("init", c.status) /\ UNCHANGED valid
    <3>1. SettingsSpoken'
      BY <1>1, <1>2, <1>3, <2>6, <2>7
         DEF SettingsSpoken, SettingsAgreed, SettingsSuitBoth, SettingsTyped
    <3> QED  BY <1>2, <2>5, <2>7, <3>1, TakeReplyAgreement
  <2>8. CASE /\ c.status = "NoError" /\ valid' = SettingsValid(c.settings)
             /\ ReturnStatus("init", IF valid' THEN "NoError" ELSE "ErrorNotInited")
    <3>1. valid' \in BOOLEAN /\ (valid' => SettingsValid(settings'))
      BY <1>5, <2>8 DEF SettingsValid
    <3>2. /\ Range(settings'.versions) = Range(offer'.versions) \cap Range(received'.versions)
          /\ \A v \in Range(settings'.versions) : settings'.versions[1] >= v
          /\ settings'.mandatory = offer'.mandatory \cup received'.mandatory
          /\ settings'.forbidden = offer'.forbidden \cup received'.forbidden
          /\ settings'.mandatory \cap settings'.forbidden = {}
          /\ \A i \in DOMAIN settings'.interfaces :
               /\ settings'.interfaces[i] <= offer'.interfaces[i]
               /\ settings'.interfaces[i] <= received'.interfaces[i]
      <4>1. offer' = offer /\ received' = r /\ settings' = c.settings
        BY <1>2, <1>5
      <4> QED  BY <1>3, <2>3, <2>4, <2>8, <4>1, CompatibleSuits
    <3>3. SettingsSuitBoth'
      BY <3>2 DEF SettingsSuitBoth
    <3>4. SettingsAgreed'
      BY <1>5, <2>3, <2>6, <3>2 DEF SettingsAgreed, SettingsTyped
    <3>5. SettingsSpoken'
      BY <1>2, <1>3, <2>6, <3>1, <3>3, <3>4 DEF SettingsSpoken, SettingsTyped
    <3>6. (IF valid' THEN "NoError" ELSE "ErrorNotInited") \in StatusCode
      BY DEF StatusCode
    <3> QED  BY <1>2, <2>8, <3>5, <3>6, TakeReplyAgreement
  <2> QED  BY <1>5, <2>7, <2>8
<1> QED  BY <1>4, <1>5 DEF ReceiveSettings

(* handleData sends what its own checks let pass.                          *)
LEMMA HandleDataAgreement ==
  ASSUME AgreementInv, NEW c \in Calls, NEW additional \in AdditionalFlags,
         HandleData(c, additional)
  PROVE  AgreementInv'
<1> DEFINE target == InterfaceVersionOf(c.input)
           flags  == settings.mandatory \cup additional
           m      == Request("Data", LatestVersion, flags, c.input, target)
<1>1. SettingsSpoken
  BY SpokenByInv
<1>2. /\ call = "none" /\ expected' = c
      /\ UNCHANGED <<settings, valid, offer, received, told>>
  BY DEF HandleData
<1>3. SettingsSpoken'
  BY <1>1, <1>2, SettingsKept
<1>4. CASE SerializeData(c, additional) = "NoError"
  <2>1. /\ valid /\ target # UndefinedInterface /\ FlagsAllowed(additional)
        /\ CommonSerialize(LatestVersion, flags, ClientLibrary, ClientBigEndian) = "NoError"
    BY <1>4 DEF SerializeData
  <2>2. Send(m, "data")
    BY <1>4 DEF HandleData
  <2>3. LatestVersion \in Nat /\ LatestVersion \in Range(settings.versions)
    BY <1>1, <2>1 DEF SettingsSpoken, SettingsAgreed, SettingsValid, LatestVersion, Range
  <2>4. target \in Nat
    BY <1>1, <2>1 DEF SettingsSpoken, SettingsAgreed, InterfaceVersionOf
  <2>5. flags \in SUBSET Flags
    BY <1>1, CallsAssumption DEF SettingsSpoken
  <2>6. c.input \in Structs
    BY CallsAssumption
  <2>7. m # None
    BY <2>3, <2>4, <2>5, <2>6, RequestIsMessage
  <2>8. m.type = "Data" /\ m.version = LatestVersion /\ m.flags = flags
    BY DEF Request
  <2>9. flags \cap settings.forbidden = {} /\ ~ByteOrderRefused(flags, ClientBigEndian)
    BY <1>1, <2>1 DEF SettingsSpoken, SettingsValid, FlagsAllowed, CommonSerialize
  <2> HIDE DEF m
  <2>10. InitFromCleared' /\ RequestSuits'
    BY <1>2, <2>1, <2>2, <2>3, <2>8, <2>9
       DEF InitFromCleared, RequestSuits, Send, ByteOrderRefused
  <2> QED  BY <1>2, <1>3, <2>2, <2>7, <2>10, SendAgreement
<1>5. CASE SerializeData(c, additional) # "NoError"
  <2>1. SerializeData(c, additional) \in StatusCode
    BY CommonStatuses DEF SerializeData, StatusCode
  <2> QED  BY <1>2, <1>3, <1>5, <2>1, ReturnAtOnceAgreement DEF HandleData
<1> QED  BY <1>4, <1>5

(* Client::getServerHandlerSettings is called.                             *)
LEMMA GetServerHandlerSettingsAgreement ==
  ASSUME AgreementInv, NEW s \in Structs, GetServerHandlerSettings(s)
  PROVE  AgreementInv'
<1> DEFINE flags  == settings.mandatory
           common == CommonSerialize(LatestVersion, flags, ClientLibrary, ClientBigEndian)
           m      == Request("Data", LatestVersion, flags, s, UndefinedInterface)
<1>1. SettingsSpoken /\ expected \in Calls \cup {None}
  BY SpokenByInv DEF AgreementInv, TypeOK
<1>2. call = "none" /\ UNCHANGED <<settings, valid, offer, received, expected, told>>
  BY DEF GetServerHandlerSettings
<1>3. SettingsSpoken'
  BY <1>1, <1>2, SettingsKept
<1>4. CASE valid /\ common = "NoError" /\ Send(m, "query")
  <2>1. LatestVersion \in Nat /\ LatestVersion \in Range(settings.versions)
    BY <1>1, <1>4 DEF SettingsSpoken, SettingsAgreed, SettingsValid, LatestVersion, Range
  <2>2. flags \in SUBSET Flags /\ UndefinedInterface \in Nat
    BY <1>1 DEF SettingsSpoken, UndefinedInterface
  <2>3. m # None
    BY <2>1, <2>2, RequestIsMessage
  <2>4. m.type = "Data" /\ m.version = LatestVersion /\ m.flags = flags
    BY DEF Request
  <2>5. flags \cap settings.forbidden = {} /\ ~ByteOrderRefused(flags, ClientBigEndian)
    BY <1>1, <1>4 DEF SettingsSpoken, SettingsValid, CommonSerialize
  <2> HIDE DEF m
  <2>6. InitFromCleared' /\ RequestSuits'
    BY <1>2, <1>4, <2>1, <2>4, <2>5 DEF InitFromCleared, RequestSuits, Send, ByteOrderRefused
  <2> QED  BY <1>1, <1>2, <1>3, <1>4, <2>3, <2>6, SendAgreement
<1>5. CASE \E st \in StatusCode : ReturnAtOnce("query", st)
  BY <1>1, <1>2, <1>3, <1>5, ReturnAtOnceAgreement
<1>6. common \in StatusCode /\ {"ErrorNotInited", "ErrorNotSupportedInterface"} \subseteq StatusCode
  BY CommonStatuses DEF StatusCode
<1> QED  BY <1>4, <1>5, <1>6 DEF GetServerHandlerSettings

(* The reply to a data message.                                            *)
LEMMA ReceiveDataAgreement ==
  ASSUME ReplyInv, AgreementInv, ReceiveData
  PROVE  AgreementInv'
<1>1. /\ serving = "answered" /\ ReturnStatus("data", DeserializeData) /\ TakeReply
      /\ UNCHANGED <<settings, valid, offer, received, expected, told>>
  BY DEF ReceiveData, Reply
<1>2. SettingsSpoken'
  BY <1>1, SpokenByInv, SettingsKept
<1>3. binOutput # <<>> /\ binOutput[1].type = "Status" => binOutput[1].status \in StatusCode
  BY DEF ReplyInv, OneMessageAtATime, AgreementInv, StatusesTyped
<1>4. DeserializeReply \in StatusCode /\ (DeserializeReply = "NoError" => binOutput # <<>>)
  BY CommonStatuses DEF DeserializeReply, StatusCode
<1>5. DeserializeData \in StatusCode
  BY <1>3, <1>4 DEF DeserializeData, StatusCode
<1> QED  BY <1>1, <1>2, <1>5, TakeReplyAgreement

(* The reply to getServerHandlerSettings.                                  *)
LEMMA ReceiveHandlerSettingsAgreement ==
  ASSUME ReplyInv, AgreementInv, ReceiveHandlerSettings
  PROVE  AgreementInv'
<1>1. /\ serving = "answered" /\ ReturnStatus("query", DeserializeHandlerSettings) /\ TakeReply
      /\ UNCHANGED <<settings, valid, offer, received, expected>>
  BY DEF ReceiveHandlerSettings, Reply
<1>2. SettingsSpoken'
  BY <1>1, SpokenByInv, SettingsKept
<1>3. binOutput # <<>> /\ binOutput[1].type = "Status" => binOutput[1].status \in StatusCode
  BY DEF ReplyInv, OneMessageAtATime, AgreementInv, StatusesTyped
<1>4. DeserializeReply \in StatusCode /\ (DeserializeReply = "NoError" => binOutput # <<>>)
  BY CommonStatuses DEF DeserializeReply, StatusCode
<1>5. DeserializeHandlerSettings \in StatusCode
  BY <1>3, <1>4 DEF DeserializeHandlerSettings, StatusCode
<1> QED  BY <1>1, <1>2, <1>5, TakeReplyAgreement

(* The communicator returns an error.                                      *)
LEMMA CommunicatorFailsAgreement ==
  ASSUME AgreementInv, CommunicatorFails
  PROVE  AgreementInv'
<1>1. UNCHANGED <<settings, valid, offer, received, expected, told>>
  BY DEF CommunicatorFails
<1>2. SettingsSpoken'
  BY <1>1, SpokenByInv, SettingsKept
<1> QED  BY <1>1, <1>2, TakeReplyAgreement DEF CommunicatorFails, StatusCode

(* The request of another client is no call of this one.                   *)
LEMMA OtherRequestAgreement ==
  ASSUME AgreementInv, NEW m \in OtherRequests, OtherRequest(m)
  PROVE  AgreementInv'
<1>1. Send(m, "other") /\ UNCHANGED <<settings, valid, offer, received, expected, told>>
  BY DEF OtherRequest
<1>2. SettingsSpoken' /\ expected' \in Calls \cup {None}
  BY <1>1, SpokenByInv, SettingsKept DEF AgreementInv, TypeOK
<1>3. InitFromCleared' /\ RequestSuits'
  BY <1>1 DEF InitFromCleared, RequestSuits, Send
<1>4. m # None
  BY NoneAssumption
<1> QED  BY <1>1, <1>2, <1>3, <1>4, SendAgreement

(* The reply to any other request.                                         *)
LEMMA OtherReplyAgreement ==
  ASSUME AgreementInv, OtherReply
  PROVE  AgreementInv'
<1>1. /\ serving = "answered" /\ ReturnStatus("other", status) /\ TakeReply
      /\ UNCHANGED <<settings, valid, offer, received, expected, told>>
  BY DEF OtherReply, Reply
<1>2. SettingsSpoken' /\ status \in StatusCode
  BY <1>1, SpokenByInv, SettingsKept DEF AgreementInv, TypeOK
<1> QED  BY <1>1, <1>2, TakeReplyAgreement

-----------------------------------------------------------------------------
(* The server's steps.                                                     *)

(* A server is replaced only between messages.                             *)
LEMMA ServerInitAgreement ==
  ASSUME AgreementInv, NEW s \in ServerOffers, ServerInit(s)
  PROVE  AgreementInv'
<1>1. /\ serving \in {"idle", "arrived"} /\ serverSettings' = s
      /\ UNCHANGED clientVars /\ UNCHANGED <<request, serving, todo, status, binOutput, ran>>
  BY DEF ServerInit
<1>2. UNCHANGED <<settings, valid, call, offer, received, expected, told, returned>>
  BY <1>1 DEF clientVars
<1>3. SettingsSpoken'
  BY <1>2, SpokenByInv, SettingsKept
<1>4. TypeOK'
  BY <1>1, <1>2, <1>3 DEF AgreementInv, TypeOK, SettingsSpoken
<1>5. StatusesTyped' /\ InitFromCleared' /\ SettingsCome'
  BY <1>1, <1>2 DEF AgreementInv, StatusesTyped, InitFromCleared, SettingsCome
<1>6. RequestSuits' /\ AgreedWhileServed'
  BY <1>1, <1>2 DEF AgreementInv, RequestSuits, AgreedWhileServed, ByteOrderRefused
<1> QED  BY <1>3, <1>4, <1>5, <1>6 DEF AgreementInv, SettingsSpoken

(* The client's call, and the server it was agreed with, when the message  *)
(* is one of handleData or getServerHandlerSettings.                       *)
Agreed ==
  valid /\ offer # None /\ received = serverSettings /\ call \in {"data", "query"}

(* A step of the server that changes none of the client's variables.       *)
LEMMA ServerStepAgreement ==
  ASSUME AgreementInv, UNCHANGED <<clientVars, request, serverSettings>>,
         serving \in {"arrived", "handling"}, serving' \in {"handling", "answered"},
         todo' \subseteq Handlers, todo' # {} <=> serving' = "handling",
         status' \in StatusCode, ran' \subseteq [handler : Handlers, status : StatusCode],
         StatusesTyped', SettingsCome',
         Agreed => ~Refused("ErrorNotSupportedProtocolVersion")'
                   /\ ~Refused("ErrorNotCompatibleCommonFlagsSettings")'
  PROVE  AgreementInv'
<1>1. UNCHANGED <<settings, valid, call, offer, received, expected, told, returned, request,
                  serverSettings>>
  BY DEF clientVars
<1>2. SettingsSpoken'
  BY <1>1, SpokenByInv, SettingsKept
<1>3. TypeOK'
  BY <1>1, <1>2 DEF AgreementInv, TypeOK, SettingsSpoken
<1>4. InitFromCleared' /\ RequestSuits'
  BY <1>1 DEF AgreementInv, InitFromCleared, RequestSuits, ByteOrderRefused
<1>5. AgreedWhileServed'
  BY <1>1 DEF AgreedWhileServed, Agreed
<1> QED  BY <1>2, <1>3, <1>4, <1>5 DEF AgreementInv, SettingsSpoken

(* The server a client has agreed with reads the client's messages and     *)
(* finds nothing amiss in their flags.                                     *)
LEMMA AgreedRequestIsRead ==
  ASSUME ReplyInv, AgreementInv, Agreed
  PROVE  /\ request.type = "Data"
         /\ MessageStatus = "NoError"
         /\ TestCommonFlags(request.flags, serverSettings.forbidden,
                            serverSettings.mandatory) = "NoError"
<1> DEFINE v    == request.version
           vers == serverSettings.versions
<1>1. /\ request.type = "Data" /\ v \in Range(settings.versions)
      /\ settings.mandatory \subseteq request.flags /\ request.flags \cap settings.forbidden = {}
      /\ ~ByteOrderRefused(request.flags, ClientBigEndian)
  BY DEF AgreementInv, RequestSuits, Agreed
<1>2. /\ serverSettings \in ServerOffers /\ ClientBigEndian = ServerBigEndian
      /\ serverSettings.forbidden \subseteq settings.forbidden
      /\ serverSettings.mandatory \subseteq settings.mandatory
      /\ Range(settings.versions) \subseteq Range(vers)
  BY DEF AgreementInv, SettingsAgreed, SettingsSuitBoth, Agreed
<1>3. /\ vers \in Seq(Nat) /\ Range(vers) \subseteq Range(ServerLibrary)
      /\ \A j, k \in DOMAIN vers : j < k => vers[j] > vers[k]
  BY <1>2, OffersTyped, VersionsAssumption DEF SettingsTyped
<1>4. PICK k \in DOMAIN vers : v = vers[k]
  BY <1>1, <1>2 DEF Range
<1>5. Last(vers) <= v
  <2>1. Len(vers) \in DOMAIN vers /\ k \in 1..Len(vers) /\ Last(vers) = vers[Len(vers)]
    BY <1>3, <1>4 DEF Last
  <2>2. k = Len(vers) \/ k < Len(vers)
    BY <1>3, <2>1
  <2>3. vers[k] \in Nat /\ vers[Len(vers)] \in Nat
    BY <1>3, <2>1
  <2> QED  BY <1>3, <1>4, <2>1, <2>2, <2>3
<1>6. v \in Nat /\ Last(vers) \in Nat /\ v <= ServerLibrary[1] /\ ServerLibrary[1] \in Nat
  <2>1. /\ ServerLibrary \in Seq(Nat) /\ ServerLibrary # <<>>
        /\ Range(ServerLibrary) = 1..ServerLibrary[1]
    BY LibrariesAssumption
  <2>2. v \in 1..ServerLibrary[1] /\ ServerLibrary[1] \in Nat
    BY <1>1, <1>2, <1>3, <2>1
  <2>3. Last(vers) \in Nat
    BY <1>3, <1>4 DEF Last
  <2> QED  BY <2>2, <2>3
<1>7. MessageStatus = "NoError"
  <2>1. ~(Last(vers) > v) /\ ~(ServerLibrary[1] < v)
    BY <1>5, <1>6
  <2> QED  BY <1>1, <1>2, <2>1 DEF MessageStatus, CommonDeserialize
<1>8. TestCommonFlags(request.flags, serverSettings.forbidden, serverSettings.mandatory) = "NoError"
  <2>1. request.flags \cap serverSettings.forbidden = {} /\ serverSettings.mandatory \subseteq request.flags
    BY <1>1, <1>2
  <2> QED  BY <2>1 DEF TestCommonFlags
<1> QED  BY <1>1, <1>7, <1>8

(* An answer without a handler, with a status that agreed messages do not  *)
(* meet: either none is agreed on, or out is empty.                        *)
LEMMA AnswerWithAgreement ==
  ASSUME ReplyInv, AgreementInv, serving = "arrived", UNCHANGED <<clientVars, request, serverSettings>>,
         NEW S, NEW out \in Seq(S), NEW s \in StatusCode, AnswerWith(out, s),
         \A k \in DOMAIN out : out[k].type = "Status" => out[k].status \in StatusCode,
         call = "settings" =>
           \A k \in DOMAIN out : out[k].type = "Data" =>
             out[k].content \in ServerOffers /\ ClientBigEndian = ServerBigEndian,
         Agreed => out = <<>> /\ s \notin {"ErrorNotSupportedProtocolVersion",
                                          "ErrorNotCompatibleCommonFlagsSettings"}
  PROVE  AgreementInv'
<1> DEFINE error == StatusMessage(request.version, request.flags, s, None)
<1>1. /\ serving' = "answered" /\ status' = s /\ binOutput' = Answer(out, s)
      /\ UNCHANGED <<todo, ran>>
  BY DEF AnswerWith
<1>2. /\ todo = {} /\ ran = {} /\ binOutput = <<>>
      /\ UNCHANGED <<settings, valid, call, offer, received, expected, told, returned>>
  BY DEF ReplyInv, OneMessageAtATime, AgreementInv, TypeOK, clientVars
<1>3. \/ binOutput' = out
      \/ out = <<>> /\ binOutput' = <<error>>
  BY <1>1, Zenon DEF Answer
<1>4. error.type = "Status" /\ error.status = s
  BY DEF StatusMessage
<1> HIDE DEF error
<1>5. \A k \in DOMAIN binOutput' :
        \/ k \in DOMAIN out /\ binOutput'[k] = out[k]
        \/ out = <<>> /\ binOutput'[k] = error
  BY <1>3
<1>6. StatusesTyped'
  BY <1>4, <1>5 DEF StatusesTyped
<1>7. SettingsCome'
  BY <1>1, <1>2, <1>4, <1>5 DEF AgreementInv, SettingsCome
<1>8. ASSUME Agreed
      PROVE  ~Refused("ErrorNotSupportedProtocolVersion")'
             /\ ~Refused("ErrorNotCompatibleCommonFlagsSettings")'
  <2>1. \A k \in DOMAIN binOutput' : binOutput'[k] = error
    BY <1>3, <1>8
  <2> QED  BY <1>1, <1>4, <1>8, <2>1 DEF Refused
<1> QED  BY <1>1, <1>2, <1>6, <1>7, <1>8, ServerStepAgreement

(* The server that answers a GetSettings message has read its flags.       *)
LEMMA HandleMessageAgreement ==
  ASSUME ReplyInv, AgreementInv, HandleMessage
  PROVE  AgreementInv'
<1>1. serving = "arrived" /\ UNCHANGED <<clientVars, request, serverSettings>>
  BY DEF HandleMessage
<1>2. Agreed => MessageStatus = "NoError" /\ request.type = "Data"
  BY AgreedRequestIsRead
<1> DEFINE none == <<>>
<1>3. none \in Seq({}) /\ DOMAIN none = {}
  OBVIOUS
<1> HIDE DEF none
<1>4. CASE /\ serverSettings = None /\ status' = "ErrorNotInited" /\ serving' = "answered"
           /\ UNCHANGED <<todo, binOutput, ran>>
  <2>1. todo = {} /\ ran = {} /\ binOutput = <<>>
    BY <1>1 DEF ReplyInv, OneMessageAtATime, AgreementInv, TypeOK
  <2>2. StatusesTyped' /\ SettingsCome'
    BY <1>1, <1>4, <2>1 DEF AgreementInv, StatusesTyped, SettingsCome, clientVars
  <2>3. ~Refused("ErrorNotSupportedProtocolVersion")'
        /\ ~Refused("ErrorNotCompatibleCommonFlagsSettings")'
    BY <1>4, <2>1 DEF Refused
  <2>4. status' \in StatusCode
    BY <1>4 DEF StatusCode
  <2> QED  BY <1>1, <1>4, <2>1, <2>2, <2>3, <2>4, ServerStepAgreement
<1>5. CASE /\ MessageStatus = "ErrorNotSupportedProtocolVersion"
           /\ AnswerWith(<<VersionsReply>>, "NoError")
  <2> DEFINE out == <<VersionsReply>>
  <2>1. VersionsReply.type = "Status" /\ VersionsReply.status \in StatusCode
    BY DEF VersionsReply, StatusMessage, StatusCode
  <2>2. out \in Seq({VersionsReply}) /\ \A k \in DOMAIN out : out[k] = VersionsReply
    OBVIOUS
  <2>3. AnswerWith(out, "NoError")
    BY <1>5
  <2> HIDE DEF out
  <2> QED  BY <1>1, <1>2, <1>5, <2>1, <2>2, <2>3, AnswerWithAgreement DEF StatusCode
<1>6. CASE /\ MessageStatus = "ErrorNotCompatibleCommonFlagsSettings"
           /\ AnswerWith(<<>>, MessageStatus)
  <2>1. AnswerWith(none, MessageStatus)
    BY <1>6 DEF none
  <2> QED  BY <1>1, <1>2, <1>3, <1>6, <2>1, AnswerWithAgreement DEF StatusCode
<1>7. CASE /\ serverSettings # None /\ MessageStatus = "NoError" /\ request.type = "GetSettings"
           /\ AnswerWith(SettingsReply, IF SettingsReply = <<>>
                                        THEN "ErrorNotCompatibleCommonFlagsSettings" ELSE "NoError")
  <2> DEFINE m == DataMessage(request.version, serverSettings.mandatory, PartySettings,
                              request.version, serverSettings, "none")
             out == SettingsReply
  <2>1. m.type = "Data" /\ m.content = serverSettings
    BY DEF DataMessage
  <2>2. out = <<m>> \/ out = none
    BY Zenon DEF SettingsReply, none
  <2> HIDE DEF m
  <2>3. out \in Seq({m}) /\ \A k \in DOMAIN out : out[k] = m
    <3> HIDE DEF out
    <3>1. CASE out = <<m>>
      BY <3>1
    <3>2. CASE out = none
      BY <3>2 DEF none
    <3> QED  BY <2>2, <3>1, <3>2
  <2>4. serverSettings \in ServerOffers
    BY <1>7 DEF AgreementInv, TypeOK
  <2>5. ASSUME call = "settings"
        PROVE  ClientBigEndian = ServerBigEndian
    <3>1. request.flags = PlatformFlags(ClientBigEndian)
      BY <2>5 DEF AgreementInv, SettingsCome
    <3>2. ~ByteOrderRefused(request.flags, ServerBigEndian)
      BY <1>7 DEF MessageStatus, CommonDeserialize
    <3>3. ("bigEndian" \in request.flags) = ServerBigEndian
      BY <3>1, <3>2 DEF ByteOrderRefused, PlatformFlags
    <3>4. "bigEndian" \in request.flags <=> ClientBigEndian
      BY <3>1 DEF PlatformFlags
    <3> QED  BY <3>3, <3>4, ByteOrderAssumption
  <2>6. PICK s \in StatusCode : AnswerWith(out, s)
    <3>1. (IF out = none THEN "ErrorNotCompatibleCommonFlagsSettings" ELSE "NoError") \in StatusCode
      BY DEF StatusCode
    <3> QED  BY <1>7, <3>1 DEF none
  <2> HIDE DEF out
  <2> QED  BY <1>1, <1>2, <1>7, <2>1, <2>3, <2>4, <2>5, <2>6, AnswerWithAgreement
<1>8. CASE request.type \notin {"GetSettings", "Data"} /\ AnswerWith(<<>>, "ErrorDataCorrupted")
  <2>1. AnswerWith(none, "ErrorDataCorrupted")
    BY <1>8 DEF none
  <2> QED  BY <1>1, <1>2, <1>3, <1>8, <2>1, AnswerWithAgreement DEF StatusCode
<1> QED  BY <1>4, <1>5, <1>6, <1>7, <1>8 DEF HandleMessage

(* Server::handleDataMessage.                                              *)
LEMMA HandleDataMessageAgreement ==
  ASSUME ReplyInv, AgreementInv, HandleDataMessage
  PROVE  AgreementInv'
<1> DEFINE flags == TestCommonFlags(request.flags, serverSettings.forbidden,
                                    serverSettings.mandatory)
           none  == <<>>
<1>1. /\ serving = "arrived" /\ request.type = "Data"
      /\ UNCHANGED <<clientVars, request, serverSettings>>
  BY DEF HandleDataMessage
<1>2. Agreed => flags = "NoError"
  BY AgreedRequestIsRead
<1>3. none = <<>> /\ none \in Seq({}) /\ DOMAIN none = {}
  OBVIOUS
<1>4. flags \in {"NoError", "ErrorNotCompatibleCommonFlagsSettings"}
  BY DEF TestCommonFlags
<1> HIDE DEF none, flags
<1>5. CASE \E s \in {"ErrorNoSuchHandler", "ErrorNotAvailible"} : AnswerWith(none, s)
  <2>1. PICK s \in StatusCode :
          /\ s \notin {"ErrorNotSupportedProtocolVersion", "ErrorNotCompatibleCommonFlagsSettings"}
          /\ AnswerWith(none, s)
    BY <1>5 DEF StatusCode
  <2> QED  BY <1>1, <1>3, <2>1, AnswerWithAgreement
<1>6. CASE flags # "NoError" /\ AnswerWith(none, flags)
  BY <1>1, <1>2, <1>3, <1>4, <1>6, AnswerWithAgreement DEF StatusCode
<1>7. CASE /\ todo' \in (SUBSET {h \in Handlers : Traits[h].input = request.struct}) \ {{}}
           /\ serving' = "handling"
           /\ UNCHANGED <<status, binOutput, ran>>
  <2>1. ran = {} /\ binOutput = <<>> /\ status = "NoError"
    BY <1>1 DEF ReplyInv, OneMessageAtATime
  <2>2. call # "settings"
    BY <1>1 DEF AgreementInv, SettingsCome
  <2>3. StatusesTyped' /\ SettingsCome'
    BY <1>1, <1>7, <2>1, <2>2 DEF StatusesTyped, SettingsCome, clientVars
  <2>4. ~Refused("ErrorNotSupportedProtocolVersion")'
        /\ ~Refused("ErrorNotCompatibleCommonFlagsSettings")'
    BY <1>7, <2>1 DEF Refused
  <2>5. todo' \subseteq Handlers /\ todo' # {}
    BY <1>7
  <2> QED  BY <1>1, <1>7, <2>1, <2>3, <2>4, <2>5, ServerStepAgreement DEF StatusCode
<1> QED  BY <1>5, <1>6, <1>7 DEF HandleDataMessage, flags, none

(* A handler refuses nothing but the version of an interface.              *)
LEMMA HandlerStatuses ==
  ASSUME ReplyInv, NEW h \in Handlers, NEW r \in HandleDataCommon(h, binOutput)
  PROVE  /\ r.status \in {"NoError", "ErrorOfHandler", "ErrorInternal",
                          "ErrorNotSupportedInterfaceVersion"}
         /\ \A k \in DOMAIN r.out :
              \/ k \in DOMAIN binOutput /\ r.out[k] = binOutput[k]
              \/ r.out[k].type = "Status" => r.out[k].status = "ErrorNotSupportedInterfaceVersion"
<1> DEFINE refusal == StatusMessage(request.version, request.flags, "ErrorNotSupportedInterfaceVersion",
                                    [minimum |-> Traits[h].minimum, output |-> Traits[h].output])
           data(cut) == DataMessage(request.version, request.flags, Traits[h].output,
                                    request.interfaceVersion, None, cut)
<1>1. binOutput \in Seq(Range(binOutput))
  BY DEF ReplyInv, OneMessageAtATime
<1>2. refusal.status = "ErrorNotSupportedInterfaceVersion" /\ \A cut : data(cut).type = "Data"
  BY DEF StatusMessage, DataMessage
<1>3. /\ r.status \in {"NoError", "ErrorOfHandler", "ErrorInternal",
                       "ErrorNotSupportedInterfaceVersion"}
      /\ \/ r.out = binOutput
         \/ r.out = Append(binOutput, refusal)
         \/ \E cut \in {"none", "context", "body"} : r.out = <<data(cut)>>
  BY DEF HandleDataCommon
<1> HIDE DEF refusal, data
<1>4. CASE r.out = Append(binOutput, refusal)
  <2>1. \A k \in DOMAIN r.out : r.out[k] = refusal \/ (k \in DOMAIN binOutput /\ r.out[k] = binOutput[k])
    BY <1>1, <1>4
  <2> QED  BY <1>2, <1>3, <2>1
<1>5. CASE \E cut : r.out = <<data(cut)>>
  BY <1>2, <1>3, <1>5
<1> QED  BY <1>3, <1>4, <1>5

(* A handler of the server runs.                                           *)
LEMMA RunHandlerAgreement ==
  ASSUME ReplyInv, AgreementInv, NEW h \in Handlers, RunHandler(h)
  PROVE  AgreementInv'
<1>1. PICK r \in HandleDataCommon(h, binOutput) :
        /\ status' = FirstError(status, r.status)
        /\ ran' = ran \cup {[handler |-> h, status |-> r.status]}
        /\ binOutput' = IF todo = {h} THEN Answer(r.out, FirstError(status, r.status)) ELSE r.out
  BY DEF RunHandler
<1>2. /\ serving = "handling" /\ h \in todo /\ todo' = todo \ {h}
      /\ serving' = IF todo = {h} THEN "answered" ELSE "handling"
      /\ UNCHANGED <<clientVars, request, serverSettings>>
  BY DEF RunHandler
<1> DEFINE answer == StatusMessage(request.version, request.flags, status', None)
<1>3. binOutput' = r.out \/ binOutput' = <<answer>> \/ binOutput' = <<>>
  BY <1>1 DEF Answer
<1>4. answer.status = status' /\ (status' = status \/ status' = r.status)
  BY <1>1 DEF StatusMessage, FirstError
<1>5. /\ r.status \in StatusCode
      /\ r.status \notin {"ErrorNotSupportedProtocolVersion", "ErrorNotCompatibleCommonFlagsSettings"}
  BY HandlerStatuses DEF StatusCode
<1> HIDE DEF answer
<1>6. ASSUME NEW k \in DOMAIN binOutput', binOutput'[k].type = "Status"
      PROVE  \/ k \in DOMAIN binOutput /\ binOutput'[k] = binOutput[k]
             \/ binOutput'[k].status \in {"ErrorNotSupportedInterfaceVersion", status'}
  <2>1. CASE binOutput' = r.out
    BY <1>6, <2>1, HandlerStatuses
  <2>2. CASE binOutput' = <<answer>>
    BY <1>4, <1>6, <2>2
  <2> QED  BY <1>3, <1>6, <2>1, <2>2
<1>7. status \in StatusCode /\ status' \in StatusCode
  BY <1>4, <1>5 DEF AgreementInv, TypeOK
<1>8. StatusesTyped'
  BY <1>6, <1>7 DEF AgreementInv, StatusesTyped, StatusCode
<1>9. SettingsCome'
  BY <1>2 DEF AgreementInv, SettingsCome, clientVars
<1>10. ASSUME Agreed
       PROVE  ~Refused("ErrorNotSupportedProtocolVersion")'
              /\ ~Refused("ErrorNotCompatibleCommonFlagsSettings")'
  <2>1. ~Refused("ErrorNotSupportedProtocolVersion") /\ ~Refused("ErrorNotCompatibleCommonFlagsSettings")
    BY <1>2, <1>10 DEF AgreementInv, AgreedWhileServed, Agreed
  <2>2. status' \notin {"ErrorNotSupportedProtocolVersion", "ErrorNotCompatibleCommonFlagsSettings"}
    BY <1>4, <1>5, <2>1 DEF Refused
  <2> QED  BY <1>6, <2>1, <2>2 DEF Refused
<1>11. todo' \subseteq Handlers /\ (todo' # {} <=> serving' = "handling")
  BY <1>2 DEF AgreementInv, TypeOK
<1>12. ran' \subseteq [handler : Handlers, status : StatusCode]
  BY <1>1, <1>5 DEF AgreementInv, TypeOK
<1> QED  BY <1>2, <1>7, <1>8, <1>9, <1>10, <1>11, <1>12, ServerStepAgreement

-----------------------------------------------------------------------------

(* The invariant holds at the start.                                       *)
LEMMA InitAgreementInv == Init => AgreementInv
<1> SUFFICES ASSUME Init PROVE AgreementInv
  OBVIOUS
<1>1. SettingsSpoken
  BY ClearedTyped DEF Init, SettingsSpoken, SettingsAgreed, SettingsSuitBoth, SettingsTyped
<1>2. TypeOK
  BY <1>1 DEF Init, TypeOK, SettingsSpoken, StatusCode
<1>3. StatusesTyped /\ InitFromCleared /\ SettingsCome /\ RequestSuits /\ AgreedWhileServed
  BY DEF Init, StatusesTyped, InitFromCleared, SettingsCome, RequestSuits, AgreedWhileServed
<1> QED  BY <1>1, <1>2, <1>3 DEF AgreementInv, SettingsSpoken

(* Every step keeps it.                                                    *)
LEMMA NextAgreementInv == ReplyInv /\ AgreementInv /\ [Next]_vars => AgreementInv'
<1> SUFFICES ASSUME ReplyInv, AgreementInv, [Next]_vars PROVE AgreementInv'
  OBVIOUS
<1>1. CASE \E s \in ClientOffers : InitBySettings(s) \/ InitByServer(s)
  BY <1>1, InitBySettingsAgreement, InitByServerAgreement
<1>2. CASE ReceiveVersions
  BY <1>2, ReceiveVersionsAgreement
<1>3. CASE ReceiveSettings
  BY <1>3, ReceiveSettingsAgreement
<1>4. CASE \E c \in Calls, additional \in AdditionalFlags : HandleData(c, additional)
  BY <1>4, HandleDataAgreement
<1>5. CASE ReceiveData
  BY <1>5, ReceiveDataAgreement
<1>6. CASE \E s \in {c.input : c \in Calls} : GetServerHandlerSettings(s)
  BY <1>6, GetServerHandlerSettingsAgreement, CallsAssumption
<1>7. CASE ReceiveHandlerSettings
  BY <1>7, ReceiveHandlerSettingsAgreement
<1>8. CASE CommunicatorFails
  BY <1>8, CommunicatorFailsAgreement
<1>9. CASE \E m \in OtherRequests : OtherRequest(m)
  BY <1>9, OtherRequestAgreement
<1>10. CASE OtherReply
  BY <1>10, OtherReplyAgreement
<1>11. CASE \E s \in ServerOffers : ServerInit(s)
  BY <1>11, ServerInitAgreement
<1>12. CASE HandleMessage
  BY <1>12, HandleMessageAgreement
<1>13. CASE HandleDataMessage
  BY <1>13, HandleDataMessageAgreement
<1>14. CASE \E h \in Handlers : RunHandler(h)
  BY <1>14, RunHandlerAgreement
<1>15. CASE UNCHANGED vars
  <2>1. UNCHANGED <<settings, valid, call, offer, received, expected, told, returned, request,
                    serverSettings, serving, todo, status, binOutput, ran>>
    BY <1>15 DEF vars, clientVars, serverVars
  <2>2. SettingsSpoken'
    BY <2>1, SpokenByInv, SettingsKept
  <2>3. TypeOK'
    BY <2>1, <2>2 DEF AgreementInv, TypeOK, SettingsSpoken
  <2>4. StatusesTyped' /\ InitFromCleared' /\ SettingsCome'
    BY <2>1 DEF AgreementInv, StatusesTyped, InitFromCleared, SettingsCome
  <2>5. RequestSuits' /\ AgreedWhileServed'
    BY <2>1 DEF AgreementInv, RequestSuits, AgreedWhileServed, Refused, ByteOrderRefused
  <2> QED  BY <2>2, <2>3, <2>4, <2>5 DEF AgreementInv, SettingsSpoken
<1> QED
  BY <1>1, <1>2, <1>3, <1>4, <1>5, <1>6, <1>7, <1>8, <1>9, <1>10, <1>11, <1>12, <1>13, <1>14, <1>15
     DEF Next

(* A client that Client::init has made valid and the server it has agreed  *)
(* with understand each other, whatever was tried before and whichever     *)
(* servers, handlers and other clients there are: the invariant of         *)
(* Client::init, handleData, getServerHandlerSettings and of               *)
(* Server::handleMessage between them.                                     *)
THEOREM AgreementHolds == Spec => []AgreementInv
<1>1. Init => AgreementInv
  BY InitAgreementInv
<1>2. ReplyInv /\ AgreementInv /\ [Next]_vars => AgreementInv'
  BY NextAgreementInv
<1> QED  BY <1>1, <1>2, RepliesAreTrue, PTL DEF Spec

(* The members of Client and Server and the locals of their calls keep     *)
(* their types, and handleMessage has run every handler it acquired when   *)
(* it returns.                                                             *)
THEOREM MessagingTypeCorrect == Spec => []TypeOK
<1>1. AgreementInv => TypeOK
  BY DEF AgreementInv
<1> QED  BY <1>1, AgreementHolds, PTL

(* What getCompatibleSettings leaves in a valid client is the intersection *)
(* of the settings of both sides, for settings of any size and whatever an *)
(* init before it has left.                                                *)
THEOREM AgreedSettingsSuit == Spec => []SettingsSuitBoth
<1>1. AgreementInv => SettingsSuitBoth
  BY DEF AgreementInv
<1> QED  BY <1>1, AgreementHolds, PTL

(* The server a client has agreed with never refuses a message of          *)
(* handleData or getServerHandlerSettings for its protocol version or its  *)
(* common flags, for all builds, byte orders and settings.                 *)
THEOREM AgreedClientsServed == Spec => []AgreedClientIsServed
<1>1. AgreementInv => AgreedClientIsServed
  BY DEF AgreementInv, AgreedWhileServed, AgreedClientIsServed
<1> QED  BY <1>1, AgreementHolds, PTL
=============================================================================
