---------------------------- MODULE RequestCatalog ----------------------------
(***************************************************************************)
(* The operations of IBackend as ClientImpl implements them                *)
(* (src/backend/client.cpp, 635-1984): a pair of a name and a shape each,  *)
(* in the order of the source. The shape says what the operation does      *)
(* besides building its request and converting the answer; overloads that  *)
(* only supply defaults are one operation.                                 *)
(***************************************************************************)

(* of: the cache it writes. cached: it looks there first. http: for a bot  *)
(* it tries the HTTP Bot API before TDLib. effect: it changes something on *)
(* Telegram. sends: TDLib answers at once with the message it is still to  *)
(* send, or with a list that has none for a message it cannot send.        *)
(* strict: it throws on an answer of another type. asks: what it asks      *)
(* TDLib for.                                                              *)
Shape == [of     : {"user", "chat", "none"},
          cached : BOOLEAN,
          http   : BOOLEAN,
          effect : BOOLEAN,
          sends  : {"no", "message", "messages"},
          strict : BOOLEAN,
          asks   : {"nothing", "unawaited", "one", "count"}]

Query ==
  [of |-> "none", cached |-> FALSE, http |-> FALSE, effect |-> FALSE,
   sends |-> "no", strict |-> FALSE, asks |-> "one"]
StrictQuery  == [Query EXCEPT !.strict = TRUE]
Fetch(cache) == [StrictQuery EXCEPT !.of = cache]
Cached(cache) == [Fetch(cache) EXCEPT !.cached = TRUE]
Effect       == [Query EXCEPT !.effect = TRUE]
StrictEffect == [Effect EXCEPT !.strict = TRUE]
BotEffect    == [Effect EXCEPT !.http = TRUE]
Send         == [Effect EXCEPT !.sends = "message"]
BotSend      == [Send EXCEPT !.http = TRUE]
Forward      == [Effect EXCEPT !.sends = "messages"]
Count        == [Query EXCEPT !.asks = "count"]
Unawaited    == [Effect EXCEPT !.asks = "unawaited"]
Unsupported  == [Query EXCEPT !.asks = "nothing"]

-----------------------------------------------------------------------------
Queries ==
  {<<"getMe", Fetch("user")>>, <<"getUser", Cached("user")>>,
   <<"getChat", Cached("chat")>>, <<"getHistory", Query>>,
   <<"getMessageThread", Query>>, <<"getMessageThreadHistory", Query>>}

TextMessages ==
  {<<"sendMessage", BotSend>>, <<"sendMessageWithMarkup", BotSend>>,
   <<"sendFormattedMessage", Send>>}

RichMessages ==
  {<<"sendRichMessage", BotSend>>, <<"editRichMessage", BotEffect>>,
   <<"sendRichMessageDraft", Unawaited>>}

Edits ==
  {<<"editMessage", BotEffect>>, <<"editMessageCaption", Effect>>,
   <<"editMessageReplyMarkup", Effect>>, <<"deleteMessages", Effect>>,
   <<"setReaction", Unsupported>>, <<"forwardMessage", Forward>>,
   <<"pinMessage", Effect>>, <<"unpinMessage", Effect>>,
   <<"unpinAllMessages", Effect>>}

Scheduled ==
  {<<"getScheduledMessages", Query>>, <<"sendScheduledMessageNow", Effect>>,
   <<"deleteScheduledMessages", Effect>>}

Media ==
  {<<"sendPhoto", Send>>, <<"sendVideo", Send>>, <<"sendDocument", Send>>,
   <<"sendAudio", Send>>}

Notes ==
  {<<"sendVoiceNote", Send>>, <<"sendVideoNote", Send>>,
   <<"sendAnimation", Send>>, <<"sendSticker", Send>>}

Attachments ==
  {<<"sendPoll", Send>>, <<"sendDice", Send>>, <<"sendContact", Send>>,
   <<"sendLocation", Send>>, <<"sendVenue", Send>>, <<"stopPoll", Effect>>}

Chats ==
  {<<"leaveChat", Effect>>, <<"joinChat", Effect>>, <<"getChatMembers", Query>>,
   <<"createGroup", StrictEffect>>, <<"createSupergroup", StrictEffect>>,
   <<"setChatTitle", Effect>>, <<"setChatDescription", Effect>>,
   <<"setChatPhoto", Effect>>, <<"deleteChatPhoto", Effect>>,
   <<"setChatPermissions", Effect>>}

Members ==
  {<<"banChatMember", Effect>>, <<"unbanChatMember", Effect>>,
   <<"restrictChatMember", Effect>>, <<"promoteChatMember", Effect>>,
   <<"getChatMember", Query>>, <<"getChatMemberCount", Count>>,
   <<"getChatAdministrators", Query>>, <<"getChatInviteLink", Effect>>}

Users ==
  {<<"blockUser", Effect>>, <<"unblockUser", Effect>>,
   <<"setProfilePhoto", Effect>>, <<"deleteProfilePhoto", Effect>>,
   <<"getUserProfilePhotos", Query>>}

FilesAndSearch ==
  {<<"getFile", StrictQuery>>, <<"downloadFile", Query>>,
   <<"searchMessages", Query>>, <<"searchChatMessages", Query>>}

Others ==
  {<<"answerCallbackQuery", Effect>>, <<"answerWebAppQuery", Unsupported>>,
   <<"createSecretChat", Effect>>, <<"closeSecretChat", Effect>>,
   <<"getSecretChat", StrictQuery>>, <<"getBusinessConnection", Unsupported>>,
   <<"getGroupCall", StrictQuery>>, <<"joinGroupCall", Effect>>,
   <<"leaveGroupCall", Effect>>}

Operations ==
  UNION {Queries, TextMessages, RichMessages, Edits, Scheduled, Media, Notes,
         Attachments, Chats, Members, Users, FilesAndSearch, Others}

Shapes == {o[2] : o \in Operations}

ShapesOf(names) == {o[2] : o \in {x \in Operations : x[1] \in names}}

-----------------------------------------------------------------------------
(* The methods of entities (src/core/entities.cpp), each with the          *)
(* operation it forwards to through the entity's weak pointer.             *)
MessageMethods ==
  {<<"reply", "sendMessage">>, <<"reply", "sendMessageWithMarkup">>,
   <<"reply", "sendRichMessage">>, <<"reply_in_thread", "sendMessage">>,
   <<"edit", "editMessage">>, <<"edit", "editRichMessage">>,
   <<"editCaption", "editMessageCaption">>,
   <<"editReplyMarkup", "editMessageReplyMarkup">>,
   <<"deleteMessage", "deleteMessages">>, <<"react", "setReaction">>,
   <<"forward", "forwardMessage">>, <<"pin", "pinMessage">>,
   <<"unpin", "unpinMessage">>}

ChatMethods ==
  {<<"sendMessage", "sendMessage">>, <<"leave", "leaveChat">>,
   <<"join", "joinChat">>, <<"members", "getChatMembers">>,
   <<"setTitle", "setChatTitle">>, <<"setDescription", "setChatDescription">>,
   <<"setPhoto", "setChatPhoto">>, <<"deletePhoto", "deleteChatPhoto">>,
   <<"setPermissions", "setChatPermissions">>, <<"banMember", "banChatMember">>,
   <<"unbanMember", "unbanChatMember">>, <<"promoteMember", "promoteChatMember">>,
   <<"restrictMember", "restrictChatMember">>,
   <<"getInviteLink", "getChatInviteLink">>,
   <<"getMemberCount", "getChatMemberCount">>,
   <<"getScheduledMessages", "getScheduledMessages">>}

CallbackQueryMethods == {<<"answer", "answerCallbackQuery">>}

EntityMethods == MessageMethods \cup ChatMethods \cup CallbackQueryMethods

EntityShapes == ShapesOf({m[2] : m \in EntityMethods})
ChatShapes   == ShapesOf({m[2] : m \in ChatMethods})

(* The operations that Client also offers as coroutines (asyncX).          *)
AsyncOperations ==
  {"sendMessage", "sendRichMessage", "editRichMessage", "sendRichMessageDraft",
   "getMe", "getUser", "getChat", "getMessageThread", "getMessageThreadHistory",
   "deleteMessages", "editMessage", "createSecretChat", "closeSecretChat",
   "getSecretChat", "getBusinessConnection", "getGroupCall", "joinGroupCall",
   "leaveGroupCall", "answerWebAppQuery"}

AsyncShapes == ShapesOf(AsyncOperations)

(* What a method or a coroutine forwards to is in the catalogue.           *)
ASSUME ForwardingAssumption ==
  {m[2] : m \in EntityMethods} \cup AsyncOperations \subseteq {o[1] : o \in Operations}
=============================================================================
