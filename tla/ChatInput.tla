------------------------------ MODULE ChatInput ------------------------------
(***************************************************************************)
(* Typing in the chat of a lobby.  The window procedure hears of the keys  *)
(* as they go down and up; the game thread looks at them once a frame.     *)
(* The last character waits in _lastPressed until a frame, another         *)
(* character or the release of any key puts it in the text; the other keys *)
(* are flags which the frame takes in an order of its own.  A character    *)
(* outside the basic plane is two units of the text.                       *)
(*                                                                         *)
(* The code never sets a selection, so there is none here; recipients,     *)
(* scrolling, the hold of the chat key in battle and a composition in      *)
(* progress are left out.  A frame holds keyTimersMutex, which the keys    *)
(* that set a flag wait for, and _textMutex, which the characters wait for.*)
(***************************************************************************)
EXTENDS Naturals, Sequences, FiniteSets, SequencesExt

CONSTANTS
  Char,    \* what a key types, an input method gives or a paste holds: units
  Strings, \* what an input method gives or a paste holds: sequences of Char
  Limit,   \* CHAT_CHARACTER_LIMIT - 1
  MaxKeys  \* bound on the flags that one frame finds

\* The text is UTF-16: a character is a unit, or a high surrogate and a low one.
ASSUME ChatAssumption ==
  /\ \A c \in Char : /\ c \in Seq(STRING)
                     /\ c = <<"H", "L">> \/ (Len(c) = 1 /\ c[1] \notin {"H", "L"})
  /\ \A s \in Strings : s \in Seq(Char)
  /\ Limit \in Nat /\ MaxKeys \in Nat

VARIABLES
  text,    \* _buffer without its final zero
  caret,   \* _textCursorPosIndex
  pressed, \* _lastPressed, <<>> when 0
  fresh,   \* _textTimer = 0
  flags,   \* keysPressed
  editing, \* _editingText
  clip,    \* the clipboard
  ideal,   \* history: [before, after] the caret, of a box that takes each key at once
  hurried, \* history: keys since a frame that the box cannot put in order
  cut,     \* history: a paste was cut in the middle of a character
  missent  \* history: a message was not what a player who did not hurry had typed

typing   == <<pressed, fresh>>
ideals   == <<ideal, hurried, cut, missent>>
chatVars == <<text, caret, typing, flags, editing, clip, ideals>>

Blank == [before |-> <<>>, after |-> <<>>]
IsHigh(u) == u = "H"
IsLow(u) == u = "L"
Keys == {"CHAT", "RETURN", "PASTE", "HOME", "END", "BACK", "DELETE", "LEFT", "RIGHT"}

ChatInit ==
  /\ text = <<>> /\ caret = 0 /\ pressed = <<>> /\ fresh = TRUE /\ flags = {}
  /\ editing = FALSE /\ clip \in Strings
  /\ ideal = Blank /\ hurried = FALSE /\ cut = FALSE /\ missent = FALSE

(***************************************************************************)
(* The text: a box is its units and the caret.                             *)
(***************************************************************************)
Box(t, c) == [text |-> t, caret |-> c]
Insert(b, s) ==
  IF Len(b.text) + Len(s) > Limit THEN b
  ELSE Box(SubSeq(b.text, 1, b.caret) \o s \o SubSeq(b.text, b.caret + 1, Len(b.text)),
           b.caret + Len(s))
Erase(b, from, n) ==
  Box(SubSeq(b.text, 1, from) \o SubSeq(b.text, from + n + 1, Len(b.text)), from)

\* Mutant: one unit at a time.
UnitBefore(b) == 1

\* The units of the character before the caret; and of the one after it.
WidthBefore(b) ==
  IF b.caret > 1 /\ IsLow(b.text[b.caret]) /\ IsHigh(b.text[b.caret - 1]) THEN 2 ELSE 1

WidthAfter(b) ==
  IF /\ IsHigh(b.text[b.caret + 1]) /\ b.caret + 1 < Len(b.text)
     /\ IsLow(b.text[b.caret + 2])
  THEN 2 ELSE 1

Does(b, key) ==
  CASE key = "HOME" -> Box(b.text, 0)
    [] key = "END" -> Box(b.text, Len(b.text))
    [] key = "BACK" /\ b.caret > 0 -> Erase(b, b.caret - WidthBefore(b), WidthBefore(b))
    [] key = "DELETE" /\ b.caret < Len(b.text) -> Erase(b, b.caret, WidthAfter(b))
    [] key = "LEFT" /\ b.caret > 0 -> Box(b.text, b.caret - WidthBefore(b))
    [] key = "RIGHT" /\ b.caret < Len(b.text) -> Box(b.text, b.caret + WidthAfter(b))
    [] OTHER -> b

Becomes(b) == text' = b.text /\ caret' = b.caret

(***************************************************************************)
(* The history: a box that takes each key at once, in whole characters.    *)
(***************************************************************************)
Shown(i) == FlattenSeq(i.before \o i.after)
IdealInsert(i, c) ==
  IF Len(Shown(i)) + Len(c) > Limit THEN i ELSE [i EXCEPT !.before = Append(@, c)]
\* As many characters of s as fit.
IdealString(i, s) ==
  LET fits(n) == Len(Shown(i)) + Len(FlattenSeq(SubSeq(s, 1, n))) <= Limit
      n == CHOOSE k \in 0..Len(s) : fits(k) /\ \A j \in 0..Len(s) : fits(j) => j <= k
  IN  [i EXCEPT !.before = @ \o SubSeq(s, 1, n)]
IdealDoes(i, key) ==
  CASE key = "HOME" -> [before |-> <<>>, after |-> i.before \o i.after]
    [] key = "END" -> [before |-> i.before \o i.after, after |-> <<>>]
    [] key = "BACK" /\ i.before # <<>> -> [i EXCEPT !.before = Front(@)]
    [] key = "DELETE" /\ i.after # <<>> -> [i EXCEPT !.after = Tail(@)]
    [] key = "LEFT" /\ i.before # <<>> ->
         [before |-> Front(i.before), after |-> <<Last(i.before)>> \o i.after]
    [] key = "RIGHT" /\ i.after # <<>> ->
         [before |-> Append(i.before, Head(i.after)), after |-> Tail(i.after)]
    [] OTHER -> i

Waiting == pressed # <<>> /\ fresh

\* A history that is of no use any more is forgotten.
Remember(i, h) ==
  /\ hurried' = (hurried \/ h)
  /\ ideal' = IF hurried' THEN Blank ELSE i

(***************************************************************************)
(* The window procedure.                                                   *)
(***************************************************************************)
\* Mutant: a character that no frame has seen gives way to the next one.
SettleNever == Box(text, caret)

\* The waiting character goes in the text.
Settled == IF Waiting THEN Insert(Box(text, caret), pressed) ELSE Box(text, caret)

\* onKeyPressed; the keyboard repeats a key that is held.
onKeyPressed(c) ==
  /\ editing
  /\ Becomes(Settled) /\ pressed' = c /\ fresh' = TRUE
  /\ Remember(IdealInsert(ideal, c), flags # {})
  /\ UNCHANGED <<flags, editing, clip, cut, missent>>

\* onKeyReleased, of any key.
onKeyReleased ==
  /\ pressed # <<>>
  /\ Becomes(Settled) /\ pressed' = <<>> /\ fresh' = TRUE
  /\ UNCHANGED <<flags, editing, clip, ideals>>

\* The end of a composition: onKeyReleased, then addString, which does not cut a
\* character that does not fit.  An input method is used while the chat is open.
Compose(s) ==
  LET b == Settled
      units == FlattenSeq(s)
      fit == SubSeq(units, 1, IF Len(units) < Limit - Len(b.text) THEN Len(units)
                              ELSE Limit - Len(b.text))
  IN  /\ editing
      /\ Becomes(Insert(b, IF fit # <<>> /\ IsHigh(Last(fit)) THEN Front(fit) ELSE fit))
      /\ pressed' = <<>> /\ fresh' = TRUE
      /\ Remember(IdealString(ideal, s), flags # {})
      /\ UNCHANGED <<flags, editing, clip, cut, missent>>

\* A key that is not a character: noted for the next frame.
KeyDown(key) ==
  /\ (key = "CHAT") = ~editing /\ Cardinality(flags) < MaxKeys
  /\ flags' = flags \cup {key}
  /\ Remember(IF key = "PASTE" THEN IdealString(ideal, clip) ELSE IdealDoes(ideal, key),
              flags # {} \/ Waiting)
  /\ UNCHANGED <<text, caret, typing, editing, clip, cut, missent>>

(***************************************************************************)
(* A frame (_inputBoxUpdate).                                              *)
(***************************************************************************)
\* _initInputBox.
Opens ==
  /\ ~editing /\ flags # {}
  /\ flags' = {}
  /\ IF "CHAT" \in flags
     THEN /\ editing' = TRUE /\ Becomes(Box(<<>>, 0)) /\ pressed' = <<>> /\ fresh' = TRUE
          /\ ideal' = Blank /\ hurried' = FALSE /\ cut' = FALSE
     ELSE UNCHANGED <<editing, text, caret, typing, ideal, hurried, cut>>
  /\ UNCHANGED <<clip, missent>>

\* _pasteFromClipboard, if Ctrl is still down: as many units as fit.
Pastes ==
  LET units == FlattenSeq(clip)
      room == Limit - Len(text)
      n == IF Len(units) < room THEN Len(units) ELSE room
  IN  /\ editing /\ "PASTE" \in flags
      /\ flags' = {}
      /\ Becomes(Insert(Box(text, caret), SubSeq(units, 1, n)))
      /\ cut' = (cut \/ (n > 0 /\ IsHigh(units[n])))
      /\ UNCHANGED <<typing, editing, clip, ideal, hurried, missent>>

\* A message is sent unless it is empty.
Sends ==
  /\ editing /\ "RETURN" \in flags
  /\ flags' = {} /\ editing' = FALSE
  /\ missent' = (missent \/ (~hurried /\ ~cut /\ text # Shown(ideal)))
  /\ UNCHANGED <<text, caret, typing, clip, ideal, hurried, cut>>

\* The other flags, in the frame's order.
Takes(b, key) == IF key \in flags THEN Does(b, key) ELSE b
AfterKeys ==
  LET moved  == Takes(Takes(Box(text, caret), "HOME"), "END")
      erased == Takes(Takes(moved, "BACK"), "DELETE")
  IN  Takes(Takes(erased, "LEFT"), "RIGHT")

\* They, then the character: at once, and again when it has been held for long.
Edits ==
  /\ editing /\ "RETURN" \notin flags
  /\ flags' = {}
  /\ fresh' = (fresh /\ pressed = <<>>)
  /\ \/ /\ pressed # <<>>
        /\ Becomes(Insert(AfterKeys, pressed))
        /\ Remember(IF fresh THEN ideal ELSE IdealInsert(ideal, pressed), "PASTE" \in flags)
     \/ ~Waiting /\ Becomes(AfterKeys) /\ Remember(ideal, "PASTE" \in flags)
  /\ UNCHANGED <<pressed, editing, clip, cut, missent>>

ChatNext ==
  \/ \E c \in Char : onKeyPressed(c)
  \/ onKeyReleased
  \/ \E s \in Strings : Compose(s)
  \/ \E key \in Keys : KeyDown(key)
  \/ Opens \/ Pastes \/ Sends \/ Edits

ChatSpec == ChatInit /\ [][ChatNext]_chatVars

(***************************************************************************)
(* Properties.                                                             *)
(***************************************************************************)
\* The type invariant.
ChatTypeOK ==
  /\ Len(text) <= Limit /\ caret \in 0..Len(text)
  /\ pressed \in Char \cup {<<>>} /\ flags \subseteq Keys
  /\ {fresh, editing, hurried, cut, missent} \subseteq BOOLEAN
  /\ clip \in Strings

\* No half of a character without the other, and the caret between two of them.
CharactersWhole ==
  \A i \in 0..Len(text) :
    /\ (i > 0 /\ IsHigh(text[i])) = (i < Len(text) /\ IsLow(text[i + 1]))
    /\ i = caret => ~(i > 0 /\ IsHigh(text[i]))

\* What is in the box, once nothing waits, and what is sent, is what a box that took each
\* key at once would have; characters alone may come as fast as they like.  Not so for a
\* key that comes in the same frame as another key or as a character not yet released, nor
\* for a paste that ends in half a character.  And until a paste is cut no character is
\* split and the caret is never inside one, however the player hurries.
TextAsTyped ==
  /\ ~missent
  /\ editing /\ flags = {} /\ ~Waiting /\ ~hurried /\ ~cut =>
       Box(text, caret) = Box(Shown(ideal), Len(FlattenSeq(ideal.before)))
  /\ cut \/ CharactersWhole
=============================================================================
