------------------------------ MODULE Filters ------------------------------
(***************************************************************************)
(* The predefined filters of src/core/filters.cpp and the operators of     *)
(* include/cppgram/filters.hpp. Every filter is looked at with one choice  *)
(* of its argument: the command, pattern, chat, user and thread below.     *)
(***************************************************************************)
EXTENDS TdConversions

CONSTANTS Command, Pattern,   \* tokens
          AChat, AUser, AThread

(* The tokens after the slash, up to a blank or an "@", are the command.   *)
IsCommand(text) ==
  /\ Len(text) >= 2
  /\ text[1] = "/" /\ text[2] = Command
  /\ Len(text) > 2 => text[3] \in {" ", "@"}

IsMedia(m, type) == m.media = type

(* Bug: supergroups are forgotten. *)
BasicGroupOnly(m) == m.chat_type = "BasicGroup"

Group(m) == m.chat_type \in {"BasicGroup", "Supergroup"}

(* What each filter says of the message.                                   *)
Verdict(m) ==
  [command     |-> IsCommand(m.text),
   privateChat |-> m.chat_type = "Private",
   group       |-> Group(m),
   channel     |-> m.chat_type = "Channel",
   text        |-> m.text # NoText,
   media       |-> m.media # "None",
   photo       |-> IsMedia(m, "Photo"),
   video       |-> IsMedia(m, "Video"),
   document    |-> IsMedia(m, "Document"),
   audio       |-> IsMedia(m, "Audio"),
   voice       |-> IsMedia(m, "Voice"),
   videoNote   |-> IsMedia(m, "VideoNote"),
   animation   |-> IsMedia(m, "Animation"),
   sticker     |-> IsMedia(m, "Sticker"),
   pollMsg     |-> IsMedia(m, "Poll"),
   locationMsg |-> IsMedia(m, "Location"),
   contactMsg  |-> IsMedia(m, "Contact"),
   dice        |-> IsMedia(m, "Dice"),
   bot         |-> m.sender.is_bot,
   outgoing    |-> m.outgoing,
   incoming    |-> ~m.outgoing,
   reply       |-> m.reply_to # None,
   forwarded   |-> m.forward_info # None,
   regex       |-> \E i \in DOMAIN m.text : m.text[i] = Pattern,
   chatId      |-> m.chat_id = AChat,
   userId      |-> m.sender.id = AUser,
   thread      |-> m.message_thread_id = AThread,
   in_thread   |-> m.message_thread_id # None,
   webAppData  |-> m.web_app_data # None,
   business    |-> m.business_connection_id # None]

FilterName == DOMAIN Verdict(DefaultMessage)

(* A filter as handlers are registered with it: any message, one of the    *)
(* predefined ones, or two of them combined by &&, || and !.               *)
Accepts(f, m) ==
  LET V == Verdict(m) IN
  CASE f.op = "any" -> TRUE
    [] f.op = "is"  -> V[f.a]
    [] f.op = "not" -> ~V[f.a]
    [] f.op = "and" -> V[f.a] /\ V[f.b]
    [] f.op = "or"  -> V[f.a] \/ V[f.b]

(* std::regex_search may throw on a text that is too complex for it, unless *)
(* && or || has decided before it is asked.                                *)
MayThrow(f, m) ==
  \/ f.op \in {"is", "not"} /\ f.a = "regex"
  \/ f.op \in {"and", "or"} /\ f.a = "regex"
  \/ f.op = "and" /\ f.b = "regex" /\ Verdict(m)[f.a]
  \/ f.op = "or"  /\ f.b = "regex" /\ ~Verdict(m)[f.a]
=============================================================================
