------------------------------- MODULE Pager -------------------------------
(***************************************************************************)
(* qXfer: gdb reads a document (the target description, the list of        *)
(* threads or of libraries) in pages, asking for a length at an offset,    *)
(* the same length every time, until a reply is marked 'l'.  gdb has the   *)
(* sequence of the positions it was sent; only what is at those of the     *)
(* list of threads matters.  A document does not change while the cores    *)
(* are stopped.                                                            *)
(***************************************************************************)
EXTENDS ThreadList

CONSTANTS Cap,        \* IO_BUFFER_CAPACITY
          Word,       \* 2^32: where a length times two wraps
          Sizes,      \* sizes of the documents
          Lengths,    \* lengths gdb asks of target.xml and threads
          LibLengths, \* lengths it asks of libraries
          Snapshots   \* bound: the threads there may be

ASSUME CapAssumption    == Cap \in Nat /\ Cap >= 8 /\ Word \in Nat /\ Word >= Cap
ASSUME LengthAssumption == /\ Sizes \subseteq Nat
                           /\ Lengths \subseteq Nat \ {0}
                           /\ LibLengths \subseteq Nat \ {0}
ASSUME SnapshotAssumption ==
    Snapshots \subseteq [threads : Seq(Threads), hung : SUBSET Char, stopped : Char]

VARIABLES
    kind,  \* which document: "features", "threads" or "libraries"
    size,  \* its size
    snap,  \* the threads, if it is about them
    len,   \* how much gdb asks for at a time
    image, \* what gdb has of it
    last,  \* history: the last length the code used for a library page
    phase  \* "idle", "reading" or "complete"

vars == <<kind, size, snap, len, image, last, phase>>

\* Lines 122 and 207: substr.
Page(offset, n) == Min2(n, size - offset)

Positions(from, n) == [i \in 1..n |-> from + i]

NoThreads == [threads |-> << >>, hung |-> {}, stopped |-> "none"]

Init == /\ kind = "features" /\ size = 0 /\ len = 1 /\ snap = NoThreads
        /\ image = << >> /\ last = 0 /\ phase = "idle"

\* gdb starts to read a document.
Open == /\ phase # "reading"
        /\ kind' \in {"features", "threads", "libraries"}
        /\ IF kind' = "threads"
           THEN snap' \in Snapshots /\ size' = Len(ThreadDocument(snap'))
           ELSE snap' = NoThreads /\ size' \in Sizes
        /\ len' \in IF kind' = "libraries" THEN LibLengths ELSE Lengths
        /\ image' = << >> /\ phase' = "reading" /\ UNCHANGED last

\* gdb appends a page; 'l' ends the reading.
Take(mark, data) == /\ image' = image \o data
                    /\ phase' = IF mark = "l" THEN "complete" ELSE "reading"
                    /\ UNCHANGED <<kind, size, snap, len>>

\* Mutated form: one character less.
BufferFitsShort(n) == n < Cap - 5

\* Lines 124 and 209: sOutPaginationBuffer has Cap - 4 characters and keeps its
\* terminating 0; a page that does not fit is left out.
BufferFits(n) == n < Cap - 4

\* Mutated form: the marks are swapped.
PageMarkSwapped(n) == IF n = len THEN "l" ELSE "m"

\* Lines 130 and 215.
PageMark(n) == IF n = len THEN "m" ELSE "l"

\* The mark and the data go through MasterAgent_IOPutString, which keeps
\* Cap - 4 characters of them.
ReadPage ==
    /\ LET offset == Len(image)
           n      == Page(offset, len)
           kept   == IF BufferFits(n) THEN Min2(n, Cap - 5) ELSE 0
       IN  IF offset >= size THEN Take("l", << >>)
           ELSE Take(PageMark(n), Positions(offset, kept))
    /\ UNCHANGED last

\* qXferFeaturesRead of target.xml, and qXferThreadRead, which writes the same
\* document anew for every page.
ReadFeatures == phase = "reading" /\ kind = "features" /\ ReadPage
ReadThreads  == phase = "reading" /\ kind = "threads"  /\ ReadPage

\* Mutated form: the length gdb asks for is used as it is.
Unclamped == len

\* Lines 81-83: two hexadecimal digits per character.
Clamp == IF ((len * 2) % Word) + 1 > Cap - 4 THEN (Cap - 4) \div 2 - 1 ELSE len

\* qXferLibrariesRead: coreinit's GDBqXfer_libraries_read writes at most the
\* given number of characters, its 0 included, and returns 0 at the end.
ReadLibraries ==
    /\ phase = "reading" /\ kind = "libraries"
    /\ LET offset == Len(image)
           used   == Clamp
           n      == Page(offset, used)
           kept   == Min2(n, (Cap - 5) \div 2)
       IN  /\ last' = used
           /\ Take(IF offset + n >= size THEN "l" ELSE "m", Positions(offset, kept))

Next == Open \/ ReadFeatures \/ ReadThreads \/ ReadLibraries

Spec == Init /\ [][Next]_vars
             /\ WF_vars(ReadFeatures \/ ReadThreads \/ ReadLibraries)

-----------------------------------------------------------------------------
(* Properties.                                                             *)

\* With the page lengths gdb uses, up to five less than the PacketSize that
\* qSupported announces, it gets the whole document, nothing twice and nothing
\* left out, also when a page ends exactly at the end or fills the buffer.  What
\* is read of the libraries fits sLibrariesReadBuffer with its final 0.
WholeDocument ==
    /\ last < Cap
    /\ image = Positions(0, Len(image))
    /\ phase = "complete" => Len(image) = size

\* gdb finds every thread in the list, with its id, core, name and description,
\* also when they have characters that mean something in a document; a list
\* that is too long for the buffer loses threads at its end, changes none, and
\* lacks its end.  (Control characters, which the code does not escape, are
\* like any other here, though an XML reader may refuse them.)
ThreadsReadBack ==
    kind = "threads" /\ phase = "complete" =>
        LET document == ThreadDocument(snap)
            text == [i \in 1..Len(image) |-> document[image[i]]]
            got  == ReadElements(text)
        IN  /\ IsPrefix(got, Described(snap))
            /\ Len(text) < ThreadCap - 2 =>
                  /\ Len(got) = Len(snap.threads)
                  /\ Head(text) = "<threads>" /\ Last(text) = "</threads>"

\* Reading ends: every page but the last brings something.
ReadingEnds == phase = "reading" ~> phase = "complete"

=============================================================================
