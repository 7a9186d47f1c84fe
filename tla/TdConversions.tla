--------------------------- MODULE TdConversions ---------------------------
(***************************************************************************)
(* The conversions of src/backend/td_conversions.hpp between TDLib's       *)
(* objects and CppGram's, as far as handlers and filters can tell the      *)
(* results apart. Texts are sequences of tokens, a file or another payload *)
(* is there or is not, names and numbers are values. None is a null        *)
(* pointer or an empty optional, NoText an empty string.                   *)
(***************************************************************************)
EXTENDS Naturals, Sequences

CONSTANT None

NoText == <<>>

Map(F(_), s) == [i \in DOMAIN s |-> F(s[i])]

Elements(s) == {s[i] : i \in DOMAIN s}

(* The elements of s that are in S, in their order.                        *)
Among(s, S) ==
  LET kept[i \in 0 .. Len(s)] ==
        IF i = 0 THEN <<>>
        ELSE IF s[i] \in S THEN Append(kept[i - 1], s[i]) ELSE kept[i - 1]
  IN kept[Len(s)]

NotNull(s) == Among(s, Elements(s) \ {None})

-----------------------------------------------------------------------------
(* Chats                                                                   *)

(* A chat type of TDLib: its constructor and is_channel_.                  *)
ConvertChatType(ct) ==
  CASE ct.id = "chatTypePrivate"    -> "Private"
    [] ct.id = "chatTypeBasicGroup" -> "BasicGroup"
    [] ct.id = "chatTypeSupergroup" -> IF ct.is_channel THEN "Channel" ELSE "Supergroup"
    [] ct.id = "chatTypeSecret"     -> "Secret"
    [] OTHER                        -> "Unknown"

-----------------------------------------------------------------------------
(* Contents of messages: the constructor, the text or caption, and what    *)
(* the content points to: None, "empty" (a photo without sizes) or "full". *)

MediaTypeOf ==
  [messagePhoto     |-> "Photo",     messageVideo    |-> "Video",
   messageDocument  |-> "Document",  messageAudio    |-> "Audio",
   messageVoiceNote |-> "Voice",     messageVideoNote |-> "VideoNote",
   messageAnimation |-> "Animation", messageSticker  |-> "Sticker",
   messagePoll      |-> "Poll",      messageLocation |-> "Location",
   messageContact   |-> "Contact",   messageVenue    |-> "Venue",
   messageDice      |-> "Dice"]

ClassifyMedia(mc) ==
  IF mc.id \in DOMAIN MediaTypeOf THEN MediaTypeOf[mc.id] ELSE "None"

(* The sizes of a photo that are not null.                                 *)
PhotoSizes(photo) == IF photo = "full" THEN <<"size">> ELSE <<>>

(* What extract_media sets: the optional of the message's own media type,  *)
(* or none. A photo is set only with a size, a dice always.                *)
ExtractFile(mc) ==
  \/ mc.id = "messagePhoto" /\ mc.payload # None /\ PhotoSizes(mc.payload) # <<>>
  \/ /\ mc.id \in {"messageVideo", "messageDocument", "messageAudio", "messageVoiceNote"}
     /\ mc.payload # None

ExtractNoteOrAnimation(mc) ==
  mc.id \in {"messageVideoNote", "messageAnimation"} /\ mc.payload # None

ExtractOther(mc) ==
  \/ /\ mc.id \in {"messageSticker", "messagePoll", "messageLocation",
                   "messageContact", "messageVenue"}
     /\ mc.payload # None
  \/ mc.id = "messageDice"

(* Bug: video notes and animations are forgotten. *)
ExtractWithoutNotes(mc) == ExtractFile(mc) \/ ExtractOther(mc)

ExtractMedia(mc) == ExtractFile(mc) \/ ExtractNoteOrAnimation(mc) \/ ExtractOther(mc)

(* A caption goes to caption, never to text, and without its entities.     *)
CaptionOf(mc) ==
  IF /\ mc.id \in {"messagePhoto", "messageVideo", "messageDocument",
                   "messageAudio", "messageVoiceNote", "messageAnimation"}
     /\ mc.text # None
  THEN mc.text ELSE NoText

HasText(mc) == mc.id = "messageText" /\ mc.text # None

TextOf(mc) == IF HasText(mc) THEN mc.text ELSE NoText

-----------------------------------------------------------------------------
(* Entities of formatted text: offset, type and argument                   *)

EntityTypes ==
  {"Mention", "Hashtag", "Cashtag", "BotCommand", "Url", "EmailAddress",
   "PhoneNumber", "Bold", "Italic", "Underline", "Strikethrough", "Code",
   "Pre", "PreCode", "TextUrl", "MentionName"}

WithArgument == {"PreCode", "TextUrl", "MentionName"}

ConvertEntityType(type) == IF type \in EntityTypes THEN type ELSE "Unknown"

ConvertEntity(e) ==
  [offset |-> e.offset, type |-> ConvertEntityType(e.type),
   argument |-> IF e.type \in WithArgument THEN e.argument ELSE NoText]

(* An entity without a type is left out.                                   *)
ConvertEntities(es) ==
  Map(ConvertEntity, Among(es, {e \in Elements(es) \ {None} : e.type # None}))

(* None for a type that has no counterpart.                                *)
MakeTdEntityType(ent) == IF ent.type \in EntityTypes THEN ent.type ELSE None

ToTdEntity(ent) ==
  [offset |-> ent.offset, type |-> MakeTdEntityType(ent),
   argument |-> IF ent.type \in WithArgument THEN ent.argument ELSE NoText]

ConvertFormattedText(ents) ==
  Map(ToTdEntity, Among(ents, {e \in Elements(ents) : MakeTdEntityType(e) # None}))

-----------------------------------------------------------------------------
(* Keyboards: rows of buttons. A button type of TDLib has a constructor,   *)
(* the text it carries, and whether a query stays in the current chat.     *)

NoButton == [text |-> NoText, url |-> NoText, callback_data |-> NoText,
             switch_inline_query |-> NoText,
             switch_inline_query_current_chat |-> NoText]

Labelled(btn) == [NoButton EXCEPT !.text = btn.text]

ConvertButton(btn) ==
  IF btn.type = None THEN Labelled(btn) ELSE
  CASE btn.type.id = "Url"          -> [Labelled(btn) EXCEPT !.url = btn.type.data]
    [] btn.type.id = "Callback"     -> [Labelled(btn) EXCEPT !.callback_data = btn.type.data]
    [] btn.type.id = "SwitchInline" -> [Labelled(btn) EXCEPT !.switch_inline_query = btn.type.data]
    [] OTHER                        -> Labelled(btn)

ConvertRow(row) == Map(ConvertButton, NotNull(row))

(* None unless it is an inline keyboard.                                   *)
ConvertReplyMarkup(rm) ==
  IF rm = None \/ rm.id # "InlineKeyboard" THEN None
  ELSE [id |-> "InlineKeyboard", rows |-> Map(ConvertRow, rm.rows)]

TdType(id, data, current) == [id |-> id, data |-> data, current |-> current]

(* Bug: the url is looked at before the callback data. *)
BuildUrlFirst(b) ==
  [text |-> b.text,
   type |-> CASE b.url # NoText                 -> TdType("Url", b.url, FALSE)
              [] b.switch_inline_query # NoText -> TdType("SwitchInline", b.switch_inline_query, FALSE)
              [] OTHER                          -> None]

(* The first of the strings that is not empty decides.                     *)
BuildButton(b) ==
  [text |-> b.text,
   type |-> CASE b.callback_data # NoText -> TdType("Callback", b.callback_data, FALSE)
              [] b.callback_data = NoText /\ b.url # NoText -> TdType("Url", b.url, FALSE)
              [] /\ b.callback_data = NoText /\ b.url = NoText
                 /\ b.switch_inline_query # NoText ->
                   TdType("SwitchInline", b.switch_inline_query, FALSE)
              [] /\ b.callback_data = NoText /\ b.url = NoText
                 /\ b.switch_inline_query = NoText
                 /\ b.switch_inline_query_current_chat # NoText ->
                   TdType("SwitchInline", b.switch_inline_query_current_chat, TRUE)
              [] OTHER -> None]

BuildRow(row) == Map(BuildButton, row)

BuildReplyMarkup(rm) == [id |-> rm.id, rows |-> Map(BuildRow, rm.rows)]

-----------------------------------------------------------------------------
(* Messages. A message of TDLib has sender None when a chat sent it, and   *)
(* reply_to and thread 0 when it has none.                                 *)

NoSender == [id |-> 0, is_bot |-> FALSE]

(* What a Message is before anything is assigned to it.                    *)
DefaultMessage ==
  [chat_id |-> 0, chat_type |-> "Unknown", outgoing |-> FALSE,
   text |-> NoText, entities |-> <<>>, media |-> "None", payload |-> FALSE,
   caption |-> NoText, reply_markup |-> None, reply_to |-> None,
   message_thread_id |-> None, sender |-> NoSender, forward_info |-> None,
   web_app_data |-> None, business_connection_id |-> None]

(* The content as classify_media and extract_media put it into m.          *)
WithContent(m, mc) ==
  IF mc = None THEN m ELSE
  [m EXCEPT !.text = TextOf(mc), !.media = ClassifyMedia(mc),
            !.payload = ExtractMedia(mc), !.caption = CaptionOf(mc)]

SenderOf(m) == IF m.sender = None THEN NoSender ELSE [id |-> m.sender, is_bot |-> FALSE]

(* Only what kind of sender, chat or channel it came from.                 *)
ForwardInfo(m) == m.forward_origin

Optional(id) == IF id # 0 THEN id ELSE None

ConvertMessage(m, chat_type) ==
  [WithContent(DefaultMessage, m.content) EXCEPT
     !.chat_id = m.chat, !.chat_type = chat_type, !.outgoing = m.outgoing,
     !.entities = IF m.content # None /\ HasText(m.content)
                  THEN ConvertEntities(m.entities) ELSE <<>>,
     !.reply_markup = ConvertReplyMarkup(m.reply_markup),
     !.reply_to = Optional(m.reply_to), !.message_thread_id = Optional(m.thread),
     !.sender = SenderOf(m), !.forward_info = ForwardInfo(m)]

ConvertCallbackQuery(q) ==
  [DefaultMessage EXCEPT !.chat_id = q.chat, !.sender = SenderOf(q)]
=============================================================================
