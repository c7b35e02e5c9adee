-------------------------- MODULE ItchNormalization --------------------------
(***************************************************************************)
(* Normalizing a Nasdaq ITCH stream (data_ingestion/itch.py): one message  *)
(* after another updates the active orders and the visible book of a       *)
(* symbol, and the messages inside the selected window become rows.  The   *)
(* code has two passes that must tell the same story: _normalize reads the *)
(* stream for one symbol, _normalize_symbols_one_pass for several at once. *)
(* Here both read the same stream in step.                                 *)
(*                                                                         *)
(* Of the rows a symbol is given, their number and the last one are kept;  *)
(* tracking numbers, match numbers and attribution are left out.           *)
(***************************************************************************)
EXTENDS Integers, FiniteSets, FiniteSetsExt

CONSTANTS
    Symbols,      \* the symbols of the one-pass normalization
    Chosen,       \* the symbol of the single normalization
    Locates,      \* stock locate codes of the day
    Refs, Prices, Sizes,
    Depth,        \* levels of a book row
    WindowStart, WindowEnd,
    MaxTime, MaxRecords   \* bounds on the stream

ASSUME ItchAssumption ==
    /\ Chosen \in Symbols /\ Prices \subseteq Nat \ {0} /\ Sizes \subseteq Nat \ {0}
    /\ 0 <= WindowStart /\ WindowStart < WindowEnd /\ Depth \in 1..100

VARIABLES
    directory,   \* [Locates -> symbol or NoSymbol]: symbol_by_locate
    lastTime,    \* previous_timestamp
    records,     \* messages read
    single,      \* the pass for Chosen: [status, normal]
    onePass,     \* the pass for Symbols: [status, normals]
    moved        \* the symbols of the one pass whose data set is in its place

itchVars == <<directory, lastTime, records, single, onePass, moved>>

NoSymbol == "no symbol"
Sides == {"BUY", "SELL"}
NoRow == [kind |-> "none", bids |-> {}, asks |-> {}]

(* _SymbolNormalizationState.  A level of quantity 0 is not in the book.   *)
Fresh == [active |-> {}, seen |-> {}, rows |-> 0, last |-> NoRow,
          book |-> [s \in Sides |-> [p \in Prices |-> 0]]]

ItchInit ==
    /\ directory \in {[l \in Locates |-> NoSymbol]} \cup
                     {f \in [Locates -> Symbols] : \A l, k \in Locates : f[l] = f[k] => l = k}
    /\ lastTime = 0 /\ records = 0
    /\ single = [status |-> "reading", normal |-> Fresh]
    /\ onePass = [status |-> "reading", normals |-> [s \in Symbols |-> Fresh]]
    /\ moved = {}

(***************************************************************************)
(* The book of one symbol.                                                 *)
(***************************************************************************)
Held(book, side) == {p \in Prices : book[side][p] # 0}

(* _adjust_level.                                                          *)
Adjust(book, side, price, delta) == [book EXCEPT ![side][price] = @ + delta]

(* _validate_book, and _adjust_level's refusal of a negative level.        *)
ValidBook(book) ==
    /\ \A s \in Sides, p \in Prices : book[s][p] >= 0
    /\ Held(book, "BUY") # {} /\ Held(book, "SELL") # {}
         => Max(Held(book, "BUY")) <= Min(Held(book, "SELL"))

(* _levels: the best Depth levels of a side with their quantities.         *)
Levels(book, side) ==
    LET better(p) == {q \in Held(book, side) : IF side = "BUY" THEN q > p ELSE q < p}
    IN  {<<p, book[side][p]>> : p \in {q \in Held(book, side) : Cardinality(better(q)) < Depth}}

Order(ref, side, shares, price) == [ref |-> ref, side |-> side, shares |-> shares, price |-> price]

KeepsReplaced(n, o, m) ==
    [n EXCEPT !.active = @ \cup {Order(m.to, o.side, m.size, m.price)},
              !.seen = @ \cup {m.to},
              !.book = Adjust(Adjust(@, o.side, o.price, -o.shares), o.side, m.price, m.size)]

(* U: the old order leaves the book and another takes its side.            *)
Replace(n, o, m) ==
    [n EXCEPT !.active = (@ \ {o}) \cup {Order(m.to, o.side, m.size, m.price)},
              !.seen = @ \cup {m.to},
              !.book = Adjust(Adjust(@, o.side, o.price, -o.shares), o.side, m.price, m.size)]

(* E, C and X: the order keeps what remains, and leaves when nothing does. *)
Reduce(n, o, m) ==
    [n EXCEPT !.active = (@ \ {o}) \cup
                (IF o.shares = m.size THEN {} ELSE {Order(o.ref, o.side, o.shares - m.size, o.price)}),
              !.book = Adjust(@, o.side, o.price, -m.size)]

(* A and F.                                                                *)
Add(n, m) ==
    [n EXCEPT !.active = @ \cup {Order(m.ref, m.side, m.size, m.price)},
              !.seen = @ \cup {m.ref},
              !.book = Adjust(@, m.side, m.price, m.size)]

(* The checks of _apply_book_message that raise.                           *)
Acceptable(n, symbol, m) ==
    CASE m.type = "A" -> m.symbol = symbol /\ m.ref \notin n.seen
      [] m.type = "U" -> /\ \E o \in n.active : o.ref = m.ref
                         /\ m.to \notin n.seen
      [] m.type = "X" -> \E o \in n.active : o.ref = m.ref /\ m.size <= o.shares
      [] OTHER -> \E o \in n.active : o.ref = m.ref

(* _apply_book_message for a message its checks accept.                    *)
Applied(n, m) ==
    IF m.type = "A" THEN Add(n, m)
    ELSE LET o == CHOOSE x \in n.active : x.ref = m.ref
         IN  CASE m.type = "X" -> Reduce(n, o, m)
               [] m.type = "U" -> Replace(n, o, m)
               [] OTHER -> [n EXCEPT !.active = @ \ {o}, !.book = Adjust(@, o.side, o.price, -o.shares)]

InWindow(time) == WindowStart <= time /\ time < WindowEnd

(* The row of a message in the window: the event, and the book after it.   *)
WithRow(n, m) ==
    IF ~InWindow(m.time) THEN n
    ELSE [n EXCEPT !.rows = @ + 1,
                   !.last = [kind |-> m.type, bids |-> Levels(n.book, "BUY"), asks |-> Levels(n.book, "SELL")]]

(***************************************************************************)
(* The stream.                                                             *)
(***************************************************************************)
Reading == single.status = "reading" \/ onePass.status = "reading"

(* A failed pass removes what it has written.                              *)
FailSingle == IF single.status = "reading" THEN [status |-> "failed", normal |-> Fresh] ELSE single
FailOnePass ==
    IF onePass.status = "reading"
    THEN [status |-> "failed", normals |-> [s \in Symbols |-> Fresh]] ELSE onePass

(* iter_records gives the next message: times do not decrease.             *)
NextRecord(time) ==
    /\ Reading /\ records < MaxRecords /\ time \in lastTime..MaxTime
    /\ records' = records + 1 /\ lastTime' = time

(* A truncated, misframed or out-of-order message ends both passes.        *)
BadRecord ==
    /\ Reading /\ records < MaxRecords
    /\ records' = records + 1
    /\ single' = FailSingle /\ onePass' = FailOnePass
    /\ UNCHANGED <<directory, lastTime, moved>>

(* Stock Directory.                                                        *)
DirectoryRecord(locate, symbol, time) ==
    LET oneToOne == /\ directory[locate] \in {NoSymbol, symbol}
                    /\ \A l \in Locates : directory[l] = symbol => l = locate
    IN  /\ NextRecord(time)
        /\ directory' = IF oneToOne THEN [directory EXCEPT ![locate] = symbol] ELSE directory
        /\ single' = IF oneToOne THEN single ELSE FailSingle
        /\ onePass' = IF oneToOne THEN onePass ELSE FailOnePass
        /\ UNCHANGED moved

(* The loop body of _normalize: before its directory entry, no message of  *)
(* any book is acceptable.                                                 *)
SingleStep(m) ==
    IF single.status # "reading" THEN single
    ELSE IF \A l \in Locates : directory[l] # Chosen THEN FailSingle
    ELSE IF directory[m.locate] # Chosen THEN single
    ELSE IF Acceptable(single.normal, Chosen, m) /\ ValidBook(Applied(single.normal, m).book)
         THEN [single EXCEPT !.normal = WithRow(Applied(@, m), m)]
         ELSE FailSingle

(* The loop body of _normalize_symbols_one_pass: a locate that is not in   *)
(* the directory yet, or not a symbol asked for, is skipped.               *)
OnePassStep(m) ==
    LET symbol == directory[m.locate]
    IN  IF onePass.status # "reading" \/ symbol \notin Symbols THEN onePass
        ELSE IF Acceptable(onePass.normals[symbol], symbol, m)
                /\ ValidBook(Applied(onePass.normals[symbol], m).book)
             THEN [onePass EXCEPT !.normals[symbol] = WithRow(Applied(@, m), m)]
             ELSE FailOnePass

BookRecord(m) ==
    /\ NextRecord(m.time)
    /\ single' = SingleStep(m) /\ onePass' = OnePassStep(m)
    /\ UNCHANGED <<directory, moved>>

(* The resource checks: disk or memory runs out in one pass.               *)
OutOfSpace ==
    /\ Reading
    /\ \/ single' = FailSingle /\ UNCHANGED onePass
       \/ onePass' = FailOnePass /\ UNCHANGED single
    /\ UNCHANGED <<directory, lastTime, records, moved>>

(* The end of the stream: each pass wants its symbols and rows for them.   *)
EndOfStream ==
    LET listed(s) == \E l \in Locates : directory[l] = s
        ends(pass, good, bad) == IF pass.status = "reading" /\ good
                                 THEN [pass EXCEPT !.status = "done"] ELSE bad
    IN  /\ Reading
        /\ single' = ends(single, listed(Chosen) /\ single.normal.rows > 0, FailSingle)
        /\ onePass' = ends(onePass, \A s \in Symbols : listed(s) /\ onePass.normals[s].rows > 0,
                           FailOnePass)
        /\ UNCHANGED <<directory, lastTime, records, moved>>

(* convert_itch_symbols puts the data sets of the one pass in their places *)
(* by one rename each; an exception takes back the ones already moved, the *)
(* end of the process does not.                                            *)
MoveDataSets ==
    /\ onePass.status = "done" /\ moved # Symbols
    /\ \/ (\E s \in Symbols \ moved : moved' = moved \cup {s}) /\ UNCHANGED onePass
       \/ onePass' = [onePass EXCEPT !.status = "failed"] /\ moved' = {}
       \/ onePass' = [onePass EXCEPT !.status = "killed"] /\ UNCHANGED moved
    /\ UNCHANGED <<directory, lastTime, records, single>>

BookMessages ==
    [type : {"A"}, locate : Locates, symbol : Symbols, ref : Refs, side : Sides, size : Sizes,
     price : Prices, time : 0..MaxTime]
    \cup [type : {"X"}, locate : Locates, ref : Refs, size : Sizes, time : 0..MaxTime]
    \cup [type : {"D"}, locate : Locates, ref : Refs, time : 0..MaxTime]
    \cup [type : {"U"}, locate : Locates, ref : Refs, to : Refs, size : Sizes, price : Prices,
          time : 0..MaxTime]

ItchNext ==
    \/ BadRecord \/ OutOfSpace \/ EndOfStream \/ MoveDataSets
    \/ \E l \in Locates, s \in Symbols, t \in 0..MaxTime : DirectoryRecord(l, s, t)
    \/ \E m \in BookMessages : BookRecord(m)

ItchSpec == ItchInit /\ [][ItchNext]_itchVars

(***************************************************************************)
(* Properties.                                                             *)
(***************************************************************************)
Exact(n) ==
    /\ \A s \in Sides, p \in Prices :
         n.book[s][p] = MapThenSumSet(LAMBDA o : o.shares, {o \in n.active : o.side = s /\ o.price = p})
    /\ \A o, q \in n.active : o.ref = q.ref => o = q

(* The visible book a pass writes is, level by level, the orders it holds  *)
(* active, whatever the sequence of adds, reductions, deletions and        *)
(* replacements, and no reference is active twice.                         *)
VisibleBookIsActiveOrders ==
    /\ single.status # "failed" => Exact(single.normal)
    /\ onePass.status # "failed" => \A s \in Symbols : Exact(onePass.normals[s])

(* When both normalizations of a stream succeed, they give the symbol the  *)
(* same rows: the window and the other symbols do not change its book.  A  *)
(* data set is in place only if its whole stream was normalized, and no    *)
(* call that ended in an error leaves one.                                 *)
PassesAgree ==
    /\ single.status = "done" /\ onePass.status = "done" => single.normal = onePass.normals[Chosen]
    /\ moved # {} => /\ onePass.status \in {"done", "killed"}
                     /\ \A s \in Symbols : onePass.normals[s].rows > 0

(* The visible book is exactly the active orders after every message, and  *)
(* normalizing one symbol alone gives what the pass over all of them gives *)
(* (itch.py).                                                              *)
NormalizationIsExact == VisibleBookIsActiveOrders /\ PassesAgree
=============================================================================
