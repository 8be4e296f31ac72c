----------------------------- MODULE FileReader ------------------------------
(***************************************************************************)
(* Queries to the file database (src/loads/db/_python.py): flush appends   *)
(* each result to the db file of the run, compressed and with an end mark; *)
(* read_zfile finds the records again in chunks of the file, and _batch    *)
(* counts, filters and cuts what it yields.  Nothing else runs meanwhile.  *)
(*                                                                         *)
(* When results get to the files, and under which keys, is BrokerDB.       *)
(***************************************************************************)
EXTENDS Queries

CONSTANTS
    Chunks,      \* bytes read at once, 1024: more or less than a record has
    Absent       \* a file that does not exist

VARIABLES
    dbFile,      \* the bytes of -db.json
    errorsFile,  \* the lines of -errors.json
    reader       \* the query under way or just answered

fileVars == <<dbFile, errorsFile, reader>>

X == 0
ZLIB_START == <<X, 1>>
ZLIB_END == <<X, 2>>

Compressed(r) == ZLIB_START \o r.bytes

ASSUME FileReaderAssumption ==
    /\ Chunks \subseteq Nat \ {0} /\ Absent \notin Seq(Nat) /\ None \notin Results
    /\ \A r \in Results : r.bytes \in Seq(Nat)
    /\ \A r, s \in Results : IsPrefix(Compressed(r), Compressed(s)) => r = s

NoReader == [status |-> "idle"]

FileInit ==
    /\ dbFile = Absent /\ errorsFile = <<>>
    /\ reader = NoReader

Idle == reader.status = "idle"
Reading == reader.status = "reading"

-----------------------------------------------------------------------------
(* Writing. *)

Contents == IF dbFile = Absent THEN <<>> ELSE dbFile

Encoded(r) == Compressed(r) \o ZLIB_END

IsFileError(r) == r.type \in {"addError", "addFailure"}

\* add and the flush before the next query.
FileAdd(r) ==
    /\ Idle
    /\ dbFile' = Contents \o Encoded(r)
    /\ errorsFile' = IF IsFileError(r) THEN Append(errorsFile, r) ELSE errorsFile
    /\ UNCHANGED reader

\* The broker dies while it writes the db file, and starts again; flush writes
\* the errors first.
FileTorn(r) ==
    /\ Idle
    /\ \E n \in 0..(Len(Encoded(r)) - 1) : dbFile' = Contents \o SubSeq(Encoded(r), 1, n)
    /\ errorsFile' = IF IsFileError(r) THEN Append(errorsFile, r) ELSE errorsFile
    /\ UNCHANGED reader

\* summarize_run.
FileSummarize ==
    /\ Idle
    /\ dbFile' = Absent
    /\ UNCHANGED <<errorsFile, reader>>

-----------------------------------------------------------------------------
(* read_zfile. *)

\* Where a mark is first found, 0 if it is not.
Find(data, mark, from) ==
    LET at == {i \in from..(Len(data) - 1) : SubSeq(data, i, i + 1) = mark}
    IN IF at = {} THEN 0 ELSE Min(at)

Mut_AfterRecord(rend) == rend

AfterRecord(rend) == rend + Len(ZLIB_END)

Mut_Remaining(data, pos) == <<>>

\* What is kept for the next chunk.
Remaining(data, pos) == SubSeq(data, pos, Len(data))

\* zlib.decompress: a stream tells where it ends, and what follows it is dropped.
\* None stands for the error of a line that does not begin with a whole stream.
Decompressed(line) ==
    IF \E r \in Results : IsPrefix(Compressed(r), line)
    THEN CHOOSE r \in Results : IsPrefix(Compressed(r), line) ELSE None

\* The records that are complete in data, and what remains.
Parsed(data) ==
    LET From[pos \in 1..(Len(data) + 1)] ==
          LET rstart == Find(data, ZLIB_START, pos)
              rend == IF rstart = 0 THEN 0 ELSE Find(data, ZLIB_END, rstart + 1)
          IN IF rend = 0 THEN [records |-> <<>>, remaining |-> Remaining(data, pos)]
             ELSE LET others == From[AfterRecord(rend)]
                      record == Decompressed(SubSeq(data, rstart, rend - 1))
                  IN [records |-> <<record>> \o others.records, remaining |-> others.remaining]
    IN From[1]

-----------------------------------------------------------------------------
(* _batch. *)

Mut_IsFull(q, rd) == q.size # None /\ q.start # None /\ rd.current > q.start + q.size

\* The window is passed, by one, or enough is sent.
IsFull(q, rd) == q.size # None /\ (rd.current > First(q) + q.size \/ rd.sent = q.size)

\* A record is given to _batch, which counts all of them.
Batch(rd, r) ==
    LET q == rd.query
        counted == [rd EXCEPT !.current = @ + 1]
    IN IF q.what = "data" /\ ~IsOfType(q, r) THEN counted
       ELSE IF rd.current < First(q) THEN counted
       ELSE IF IsFull(q, rd) THEN [rd EXCEPT !.status = "ended"]
       ELSE [counted EXCEPT !.found = Append(@, r), !.sent = @ + 1]

Feed(rd, r) ==
    IF rd.status # "reading" THEN rd
    ELSE IF r = None THEN [rd EXCEPT !.status = "failed"]
    ELSE Batch(rd, r)

Mut_Grouped(s) ==
    LET once == SetToSeq(ToSet(s))
    IN [i \in DOMAIN once |-> [result |-> once[i], count |-> Times(once[i], s) - 1]]

\* groupby: one of each with the number of those that are the same.
Grouped(s) ==
    LET once == SetToSeq(ToSet(s))
    IN [i \in DOMAIN once |-> [result |-> once[i], count |-> Times(once[i], s)]]

\* A query that has ended in whatever way is answered.
Answered(rd) ==
    IF rd.status = "ended" /\ rd.query.groupby THEN [rd EXCEPT !.found = Grouped(@)] ELSE rd

-----------------------------------------------------------------------------
(* Queries. *)

NewReader(q) ==
    [status |-> "reading", query |-> q, chunk |-> 0, at |-> 0, remaining |-> <<>>,
     current |-> 0, sent |-> 0, found |-> <<>>]

\* The broker refuses to look for details that are gone or not there yet; lines
\* of errors are read without decompressing them.
FileAsk(q) ==
    /\ Idle
    /\ IF q.what = "errors"
       THEN reader' = [FoldLeft(Feed, NewReader(q), errorsFile) EXCEPT !.status = "ended"]
       ELSE IF dbFile = Absent THEN reader' = [status |-> "refused"]
       ELSE \E n \in Chunks : reader' = [NewReader(q) EXCEPT !.chunk = n]
    /\ UNCHANGED <<dbFile, errorsFile>>

\* Where f.read gets to.
Upto(rd) == IF rd.at + rd.chunk < Len(dbFile) THEN rd.at + rd.chunk ELSE Len(dbFile)

\* One chunk of the file; without any data read_zfile is through.
ReadChunk ==
    /\ Reading
    /\ \E data \in {reader.remaining \o SubSeq(dbFile, reader.at + 1, Upto(reader))} :
       \E parsed \in {Parsed(data)} :
         reader' =
           IF data = <<>> THEN Answered([reader EXCEPT !.status = "ended"])
           ELSE Answered([FoldLeft(Feed, reader, parsed.records) EXCEPT
                            !.at = Upto(reader), !.remaining = parsed.remaining])
    /\ UNCHANGED <<dbFile, errorsFile>>

\* The answer is sent, or the error.
FileSends ==
    /\ ~Idle /\ ~Reading
    /\ reader' = NoReader
    /\ UNCHANGED <<dbFile, errorsFile>>
=============================================================================
