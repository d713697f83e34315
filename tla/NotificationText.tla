--------------------------- MODULE NotificationText ---------------------------
(***************************************************************************)
(* What becomes of the text of a notification: llm builds it from an order *)
(* and an assessment, cuts it to Telegram's limit and publishes it inside  *)
(* a verdict; order-core parses the verdict and forwards the notification; *)
(* notifications parses and validates it.                                  *)
(*                                                                         *)
(* A text is a sequence of characters, each of one of the kinds that the   *)
(* code tells apart; an HTML tag or the score line counts as one character *)
(* and MaxTextLength is scaled down with them.                             *)
(***************************************************************************)
EXTENDS Integers, SequencesExt

CONSTANTS
    MaxTextLength,  \* MAX_TEXT_LENGTH, of llm and of notifications alike
    Titles,         \* titles of orders
    Summaries,      \* summaries the model may write
    Parts,          \* parts of a price
    None            \* an absent value

VARIABLES
    order,       \* the order: its title and its price
    summary,     \* the model's summary of it
    stage,       \* how far the notification has come
    built,       \* the command llm built
    message,     \* the message in flight, by the names of its JSON fields
    accepted     \* what notifications is going to send, None if it refuses

vars == <<order, summary, stage, built, message, accepted>>

--------------------------------------------------------------------------------
(* Characters and texts *)

Blank     == {" ", "nl"}
Ellipsis  == <<"...">>
Separator == <<"nl", "nl">>
NoTitle   == <<"untitled">>
ScoreLine == <<"score">>
Glyphs    == {"a", "emoji", " ", "nl", "&", "amp", ";", "<a>", "</a>", "untitled",
              "score", "..."}

\* UTF-16 code units of a character: an astral one takes two.
width(c) == IF c = "emoji" THEN 2 ELSE 1

\* The code units of the first k characters, summed up one by one.
Used(text) ==
    LET used[k \in 0 .. Len(text)] == IF k = 0 THEN 0 ELSE used[k - 1] + width(text[k])
    IN  used

tg_len(text) == Used(text)[Len(text)]

NonBlank(text) == {i \in DOMAIN text : text[i] \notin Blank}

rstrip(text) == IF NonBlank(text) = {} THEN <<>> ELSE SubSeq(text, 1, Max(NonBlank(text)))

strip(text) == IF NonBlank(text) = {} THEN <<>>
               ELSE SubSeq(text, Min(NonBlank(text)), Max(NonBlank(text)))

\* The loop of _truncate: characters are kept until one does not fit.
Kept(text, budget) ==
    SubSeq(text, 1, Min({k \in 0 .. Len(text) - 1 : Used(text)[k + 1] > budget}
                        \cup {Len(text)}))

truncate_keepsBlanks(text, limit) ==
    IF limit <= 0 THEN <<>>
    ELSE IF tg_len(text) <= limit THEN text
    ELSE Kept(text, limit - tg_len(Ellipsis)) \o Ellipsis
truncate(text, limit) ==
    IF limit <= 0 THEN <<>>
    ELSE IF tg_len(text) <= limit THEN text
    ELSE rstrip(Kept(text, limit - tg_len(Ellipsis))) \o Ellipsis

\* html.escape: one character that means something to HTML becomes an entity.
escape(text) ==
    FlattenSeq([i \in DOMAIN text |->
                    IF text[i] = "&" THEN <<"&", "amp", ";">> ELSE <<text[i]>>])

--------------------------------------------------------------------------------
(* llm: from the order to the verdict *)

Prices == {None} \cup [prefix : Parts, value : Parts, suffix : Parts]

\* What is empty is not joined.
Joined(p, q) == IF p = <<>> THEN q ELSE IF q = <<>> THEN p ELSE p \o <<" ">> \o q

\* Budget.from_price: the parts that are there, None when nothing is left to show.
from_price(price) ==
    LET raw == strip(Joined(Joined(price.prefix, price.value), price.suffix))
    IN  IF raw = <<>> THEN None ELSE raw

\* order_to_listing, as far as the text shows it.
Budget(o) == IF o.price = None THEN None ELSE from_price(o.price)

header(o) ==
    LET title == IF strip(o.title) = <<>> THEN NoTitle ELSE strip(o.title)
    IN  <<"emoji", " ", "<a>">> \o escape(title) \o <<"</a>">>

meta(o) ==
    IF Budget(o) = None THEN ScoreLine
    ELSE <<"emoji", " ">> \o escape(Budget(o)) \o <<"nl">> \o ScoreLine

\* The summary gives way to the header, the meta lines and the separators.
SummaryPart_oneSeparator(o, s) ==
    truncate(escape(strip(s)), MaxTextLength -
        (tg_len(header(o)) + tg_len(meta(o)) + tg_len(Separator)))
SummaryPart(o, s) ==
    truncate(escape(strip(s)), MaxTextLength -
        (tg_len(header(o)) + tg_len(meta(o)) + 2 * tg_len(Separator)))

Paragraphs(head, middle, tail) ==
    IF middle = <<>> THEN head \o Separator \o tail
    ELSE head \o Separator \o middle \o Separator \o tail

build_notification(o, s) ==
    [text                     |-> truncate(Paragraphs(header(o), SummaryPart(o, s), meta(o)),
                                           MaxTextLength),
     parse_mode               |-> "HTML",
     disable_notification     |-> None,
     disable_web_page_preview |-> TRUE,
     message_thread_id        |-> None]

--------------------------------------------------------------------------------
(* The wire format: camelCase fields, absent rather than null *)

Fields == {"text", "parse_mode", "disable_notification", "disable_web_page_preview",
           "message_thread_id"}

alias(f) ==
    CASE f = "text"                     -> "text"
      [] f = "parse_mode"               -> "parseMode"
      [] f = "disable_notification"     -> "disableNotification"
      [] f = "disable_web_page_preview" -> "disableWebPagePreview"
      [] f = "message_thread_id"        -> "messageThreadId"

FieldOf(name) == CHOOSE f \in Fields : alias(f) = name

\* model_dump(by_alias=True, exclude_none=True)
dump(command) ==
    [name \in {alias(f) : f \in {g \in Fields : command[g] # None}} |->
        command[FieldOf(name)]]

\* NotificationMessage of order-core: a field is read by its alias or by its name.
parse(wire) ==
    [f \in Fields |-> IF alias(f) \in DOMAIN wire THEN wire[alias(f)]
                      ELSE IF f \in DOMAIN wire THEN wire[f] ELSE None]

\* notificationMessageSchema: unknown keys are stripped, a null fits no field.
WellTyped(wire) ==
    /\ "text" \in DOMAIN wire
    /\ \A f \in Fields : alias(f) \in DOMAIN wire => wire[alias(f)] # None

\* createNotification: the text is not blank and within the limit.
Sendable(wire) ==
    /\ NonBlank(wire["text"]) # {}
    /\ tg_len(wire["text"]) <= MaxTextLength

\* Texts are made of the characters above; None is neither a text nor a message.
ASSUME TextsAssumption ==
    /\ MaxTextLength \in Nat \ {0}
    /\ Titles \subseteq Seq(Glyphs)
    /\ Summaries \subseteq Seq(Glyphs)
    /\ Parts \subseteq Seq(Glyphs)
    /\ None \notin Seq(Glyphs) \cup {"HTML"} \cup BOOLEAN
    /\ \A D \in SUBSET (Fields \cup {alias(f) : f \in Fields}) :
           None \notin [D -> Seq(Glyphs) \cup {"HTML"} \cup BOOLEAN \cup {None}]

--------------------------------------------------------------------------------
(* The journey *)

Init ==
    /\ order \in [title : Titles, price : Prices]
    /\ summary \in Summaries
    /\ stage = "assessed"
    /\ built = None
    /\ message = None
    /\ accepted = None

\* llm publishes the verdict with the notification inside.
PublishResult_byName ==
    /\ stage = "assessed"
    /\ stage' = "verdict"
    /\ built' = build_notification(order, summary)
    /\ message' = built'
    /\ UNCHANGED <<order, summary, accepted>>
PublishResult ==
    /\ stage = "assessed"
    /\ stage' = "verdict"
    /\ built' = build_notification(order, summary)
    /\ message' = dump(built')
    /\ UNCHANGED <<order, summary, accepted>>

\* order-core takes the verdict in and forwards the notification.
Forward_nulls ==
    /\ stage = "verdict"
    /\ stage' = "notify"
    /\ message' = LET c == parse(message)
                  IN  [name \in {alias(f) : f \in Fields} |-> c[FieldOf(name)]]
    /\ UNCHANGED <<order, summary, built, accepted>>
Forward ==
    /\ stage = "verdict"
    /\ stage' = "notify"
    /\ message' = dump(parse(message))
    /\ UNCHANGED <<order, summary, built, accepted>>

\* notifications parses and validates what it receives.
Receive ==
    /\ stage = "notify"
    /\ stage' = "settled"
    /\ accepted' = IF WellTyped(message) /\ Sendable(message) THEN message ELSE None
    /\ UNCHANGED <<order, summary, built, message>>

Next == PublishResult \/ Forward \/ Receive

Spec == Init /\ [][Next]_vars

--------------------------------------------------------------------------------
(* Properties *)

\* The journey's state: what is built when a message is in flight, and only then.
TypeOK ==
    /\ order.price \in Prices
    /\ stage \in {"assessed", "verdict", "notify", "settled"}
    /\ (stage = "assessed") <=> (built = None)
    /\ built # None =>
           /\ DOMAIN built = Fields
           /\ ToSet(built.text) \subseteq Glyphs
    /\ message # None => DOMAIN message \subseteq {alias(f) : f \in Fields}

\* Whatever the order and the summary hold, notifications accepts the message and
\* sees every field exactly as llm set it: none is lost, renamed or turned into a
\* null by the two hops.
ForwardedIntact ==
    stage = "settled" =>
        /\ accepted # None
        /\ parse(accepted) = built

\* The text that llm builds is never longer, in UTF-16 units, than what Telegram
\* takes and notifications lets through, and the score is in it, at its end, with
\* the whole header in front, whenever these two fit.
FitsWithHeaderAndScore ==
    built # None =>
        LET h == header(order)
            m == meta(order)
        IN  /\ tg_len(built.text) <= MaxTextLength
            /\ tg_len(h \o Separator \o m) <= MaxTextLength =>
                   IsPrefix(h, built.text) /\ IsSuffix(m, built.text)

\* The summary is cut as little as possible: it is whole when the whole text fits;
\* otherwise no longer prefix of it (blanks at the cut aside) would have fitted.
SummaryCutAsLittleAsPossible ==
    LET h       == header(order)
        m       == meta(order)
        whole   == escape(strip(summary))
        With(p) == Paragraphs(h, p, m)
        Cuts    == {rstrip(SubSeq(whole, 1, k)) \o Ellipsis : k \in 0 .. Len(whole)}
        Fitting == {p \in Cuts : tg_len(With(p)) <= MaxTextLength}
        Longest == CHOOSE p \in Fitting : \A q \in Fitting : Len(q) <= Len(p)
    IN  built # None /\ tg_len(With(<<>>)) <= MaxTextLength =>
            built.text = IF tg_len(With(whole)) <= MaxTextLength THEN With(whole)
                         ELSE IF Fitting = {} THEN With(<<>>)
                         ELSE With(Longest)

--------------------------------------------------------------------------------
(* The inductive invariant behind the properties *)

\* Every message in flight is the command that llm built, in its wire format.
JourneyOK ==
    /\ order \in [title : Titles, price : Prices]
    /\ summary \in Summaries
    /\ stage \in {"assessed", "verdict", "notify", "settled"}
    /\ IF stage = "assessed" THEN built = None /\ message = None
       ELSE built = build_notification(order, summary) /\ message = dump(built)
    /\ accepted = IF stage = "settled" THEN message ELSE None

\* What was built is well formed, travels unchanged and is accepted in the end.
IndInv == TypeOK /\ JourneyOK

================================================================================
