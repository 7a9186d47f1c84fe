------------------------- MODULE MCMessageDispatch -------------------------
(* Updates, handlers and filters for MessageDispatch that show each filter *)
(* and each conversion both ways.                                          *)
EXTENDS MessageDispatch

CONSTANTS text1, text2, edit1, asked1, gone1

MCHandler == {text1, text2, edit1, asked1, gone1}

MCKindOf == [h \in MCHandler |->
  CASE h \in {text1, text2} -> "message" [] h = edit1  -> "edited"
    [] h = asked1           -> "callback" [] h = gone1 -> "deleted"]

Any       == [op |-> "any"]
Is1(a)    == [op |-> "is", a |-> a]
Two(op, a, b) == [op |-> op, a |-> a, b |-> b]

MCFilterOf == [h \in MCHandler |->
  CASE h = text1  -> Two("or", "photo", "regex")
    [] h = text2  -> [op |-> "not", a |-> "outgoing"]
    [] h = edit1  -> Two("and", "incoming", "text")
    [] h = asked1 -> Is1("userId")
    [] h = gone1  -> Any]

\* Chats 1 to 5, users 7 and 8 (a bot).
MCChatTypeOf ==
  << [id |-> "chatTypePrivate",    is_channel |-> FALSE],
     [id |-> "chatTypeBasicGroup", is_channel |-> FALSE],
     [id |-> "chatTypeSupergroup", is_channel |-> FALSE],
     [id |-> "chatTypeSupergroup", is_channel |-> TRUE],
     [id |-> "chatTypeSecret",     is_channel |-> FALSE] >>

TextContent(t) == [id |-> "messageText", text |-> t, payload |-> None]
Medium(id, t, p) == [id |-> id, text |-> t, payload |-> p]

Hello == <<"hello">>

Base == [kind |-> "message", is_permanent |-> FALSE, chat |-> 1, sender |-> 7,
         outgoing |-> FALSE, content |-> TextContent(Hello), entities |-> <<>>,
         reply_markup |-> None, reply_to |-> 0, thread |-> 0,
         forward_origin |-> None]

Written == {None, NoText, <<"/", "start">>, <<"/", "start", "@", "me">>,
          <<"/", "start", "@", "other">>, <<"/", "startle">>}

Ids == DOMAIN MediaTypeOf \cup {"messageWebAppDataReceived", "messageGame"}

Entity(t) == [offset |-> 0, type |-> t, argument |-> NoText]
Link      == [offset |-> 1, type |-> "TextUrl", argument |-> <<"url">>]

Button(id, d, c) == [text |-> Hello, type |-> [id |-> id, data |-> d, current |-> c]]

Keyboards ==
  {[id |-> "RemoveKeyboard", rows |-> <<>>],
   [id |-> "InlineKeyboard",
    rows |-> << <<Button("Url", Hello, FALSE), None, Button("Callback", Hello, FALSE)>>,
                <<Button("SwitchInline", Hello, TRUE), Button("SwitchInline", NoText, FALSE)>>,
                <<Button("WebApp", Hello, FALSE), [text |-> Hello, type |-> None]>> >>]}

\* Messages of every sort, with and without what a filter asks for.
Messages ==
       {[Base EXCEPT !.content = TextContent(t), !.chat = 2] : t \in Written}
  \cup {[Base EXCEPT !.content = Medium(id, Hello, "full"), !.chat = 3, !.reply_to = 1,
                    !.forward_origin = "user"] : id \in Ids}
  \cup {[Base EXCEPT !.content = Medium("messagePhoto", None, "empty"), !.sender = None,
                    !.chat = 4, !.thread = 2]}
  \cup {[Base EXCEPT !.content = None, !.sender = 8, !.chat = 5, !.thread = 1]}
  \cup {[Base EXCEPT !.entities = <<Entity("Bold"), Entity("Spoiler"), None, Link>>]}
  \cup {[Base EXCEPT !.reply_markup = k] : k \in Keyboards}

Edits ==
       {[Base EXCEPT !.kind = "edited", !.content = TextContent(t), !.sender = 8,
                     !.thread = 1] : t \in Written}
  \cup {[Base EXCEPT !.kind = "edited", !.content = Medium(id, None, None), !.chat = 4,
                     !.outgoing = TRUE, !.reply_to = 1] : id \in Ids}

MCPlain ==
  {Base, [Base EXCEPT !.kind = "edited", !.outgoing = TRUE],
   [Base EXCEPT !.kind = "deleted", !.is_permanent = TRUE],
   [Base EXCEPT !.kind = "callback"]}

MCText == (Written \ {None}) \cup {Hello, <<"url">>}

MCUpdate == Messages \cup Edits \cup MCPlain \cup {[Base EXCEPT !.kind = "deleted"]}
=============================================================================
