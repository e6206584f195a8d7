----------------------------- MODULE ThreadList -----------------------------
(***************************************************************************)
(* The document about the threads: how qXferThreadRead writes it into      *)
(* sThreadInfoBuffer, and how gdb reads it.  A text is the sequence of its *)
(* characters, which are strings; a piece of markup, a number and a word   *)
(* that the code writes count for one.                                     *)
(***************************************************************************)
EXTENDS Integers, Sequences, SequencesExt

CONSTANTS Char,      \* what a text is made of
          ThreadCap, \* THREAD_INFO_BUFFER_CAPACITY
          InfoCap    \* size of sSomeStringBuffer in ThreadExtraInfo

Quote     == "\""
Semicolon == ";"
Closing   == "\">"

\* The markup, words and characters that the code writes itself.
Markup == {"<threads>", "<thread", "core=", "name=", Closing, "</thread>",
           "</threads>"}
Pieces == Markup \cup
          {"core", "*", "HUNG", "running", "ready", "waiting", "moribund",
           "detach", "name", "Idle", "0x", "&", Semicolon, "lt", "gt", "amp",
           "quot", "apos"}

\* What a name may have in it.
Plain == Char \ Markup

ASSUME BufferAssumption == ThreadCap \in Nat /\ ThreadCap >= 2 /\ InfoCap \in Nat \ {0}
ASSUME CharAssumption   == Pieces \subseteq Char

Min2(a, b) == IF a <= b THEN a ELSE b

-----------------------------------------------------------------------------
(* sThreadInfoBuffer.                                                      *)

\* For a character and the 0 behind the last one.
RoomLeft(buffer) == ThreadCap - 2 - Len(buffer)

\* PutStringIntoThreadInfoBuffer gives up at the first character without room,
\* and so will every put behind it.
PutString(buffer, s) == buffer \o SubSeq(s, 1, Min2(Len(s), RoomLeft(buffer)))

\* The characters that are special in a document.
Entities == [c \in {"<", ">", "&", Quote, "'"} |->
                CASE c = "<"   -> "lt"
                  [] c = ">"   -> "gt"
                  [] c = "&"   -> "amp"
                  [] c = Quote -> "quot"
                  [] OTHER     -> "apos"]

\* Mutated form: the ampersand of the text itself is left as it is.
EntityOfMarkup(c) == IF c \in DOMAIN Entities \ {"&"}
                     THEN <<"&", Entities[c], Semicolon>> ELSE <<c>>

Entity(c) == IF c \in DOMAIN Entities THEN <<"&", Entities[c], Semicolon>> ELSE <<c>>

\* What the buffer holds after each character of s.
Escaped(buffer, s) ==
    LET put[i \in 0..Len(s)] == IF i = 0 THEN buffer
                                ELSE PutString(put[i - 1], Entity(s[i]))
    IN  put

PutXMLEscapedString(buffer, s) == Escaped(buffer, s)[Len(s)]

-----------------------------------------------------------------------------
(* The threads.  A snapshot of the stopped cores has the list of threads,  *)
(* the cores that hung and the thread that gdb is told about.  A thread    *)
(* has an id, an affinity ("any" or a core), the core that it was last on, *)
(* a set of states and a name.  An idle thread has one for each core.      *)

\* What a number is written with.
Figures == Plain \ DOMAIN Entities

Threads == [id : Figures, idle : BOOLEAN, affinity : Figures \cup {"any"},
            upir : Figures, states : SUBSET Char, name : Seq(Plain) \cup {"none"}]

Named(t) == IF t.name = "none" THEN <<"0x", t.id>> ELSE t.name

CoreOfThread(t) == IF t.affinity = "any" THEN t.upir ELSE t.affinity

Mark(snap, t) == IF t.id = snap.stopped THEN <<"*">>
                 ELSE IF CoreOfThread(t) \in snap.hung THEN <<"HUNG">>
                 ELSE << >>

StateWord(t, word) == IF word \in t.states THEN <<word>> ELSE << >>

\* The states in the order they are written.
StateWords(t) == StateWord(t, "running") \o StateWord(t, "ready")
                     \o StateWord(t, "waiting") \o StateWord(t, "moribund")
                     \o StateWord(t, "detach")

\* MasterAgent_ThreadExtraInfo; snprintf leaves out what has no room.
ThreadExtraInfo(snap, t) ==
    LET full == <<"core", CoreOfThread(t)>> \o Mark(snap, t) \o StateWords(t)
                    \o <<"name">> \o Named(t)
    IN  IF t.idle THEN <<"core", t.upir, "*", "running", "name", "Idle">>
        ELSE SubSeq(full, 1, Min2(Len(full), InfoCap - 1))

ThreadName(t) == IF t.idle THEN <<"Idle">> ELSE Named(t)

PutThread(snap, buffer, t) ==
    LET opened == PutString(buffer, <<"<thread", t.id, "core=", t.upir, "name=">>)
        named  == PutString(PutXMLEscapedString(opened, ThreadName(t)), <<Closing>>)
    IN  PutString(PutXMLEscapedString(named, ThreadExtraInfo(snap, t)),
                  <<"</thread>">>)

\* What the buffer holds after each thread.
Listed(snap) ==
    LET put[k \in 0..Len(snap.threads)] ==
            IF k = 0 THEN PutString(<< >>, <<"<threads>">>)
                     ELSE PutThread(snap, put[k - 1], snap.threads[k])
    IN  put

\* The text of qXferThreadRead, written anew for every page.
ThreadDocument(snap) == PutString(Listed(snap)[Len(snap.threads)], <<"</threads>">>)

-----------------------------------------------------------------------------
(* gdb's reading, from left to right: markup leads from one place to the   *)
(* next, a text in between belongs to the element, with the entities       *)
(* replaced.                                                               *)

Fields    == {"id", "core", "name", "info"}
NoElement == [field \in Fields |-> << >>]

\* `held` is the part of an entity that was read, `got` the complete elements.
NothingRead == [place |-> "start", held |-> "none", element |-> NoElement, got |-> << >>]

LedTo(place, c) ==
    CASE place = "start" /\ c = "<threads>"  -> "list"
      [] place = "list"  /\ c = "<thread"    -> "id"
      [] place = "id"    /\ c = "core="      -> "core"
      [] place = "core"  /\ c = "name="      -> "name"
      [] place = "name"  /\ c = Closing      -> "info"
      [] place = "info"  /\ c = "</thread>"  -> "list"
      [] place = "list"  /\ c = "</threads>" -> "end"
      [] OTHER                               -> "wrong"

ReadMarkup(r, c) ==
    LET place == IF r.held = "none" THEN LedTo(r.place, c) ELSE "wrong"
    IN  [r EXCEPT !.place   = place,
                  !.element = IF place = "id" THEN NoElement ELSE @,
                  !.got     = IF place = "list" /\ c = "</thread>"
                              THEN Append(@, r.element) ELSE @]

EntityNames == Range(Entities)

Meant(name) == CHOOSE c \in DOMAIN Entities : Entities[c] = name

Took(r, c) == [r EXCEPT !.held = "none", !.element[r.place] = Append(@, c)]
Lost(r)    == [r EXCEPT !.place = "wrong"]

ReadText(r, c) ==
    IF r.place \notin Fields THEN Lost(r)
    ELSE CASE r.held = "none" /\ c = "&"               -> [r EXCEPT !.held = "&"]
           [] r.held = "none" /\ c \notin {"&", "<", Quote} -> Took(r, c)
           [] r.held = "&" /\ c \in EntityNames        -> [r EXCEPT !.held = c]
           [] r.held \in EntityNames /\ c = Semicolon  -> Took(r, Meant(r.held))
           [] OTHER                                    -> Lost(r)

ReadChar(r, c) == IF c \in Markup THEN ReadMarkup(r, c) ELSE ReadText(r, c)

\* What is read behind r after each character of a text.
Readings(r, text) ==
    LET read[i \in 0..Len(text)] == IF i = 0 THEN r ELSE ReadChar(read[i - 1], text[i])
    IN  read

Read(r, text) == Readings(r, text)[Len(text)]

ReadElements(text) == Read(NothingRead, text).got

\* What there is to read.
Described(snap) ==
    [k \in 1..Len(snap.threads) |->
        LET t == snap.threads[k]
        IN  [id |-> <<t.id>>, core |-> <<t.upir>>, name |-> ThreadName(t),
             info |-> ThreadExtraInfo(snap, t)]]

=============================================================================
