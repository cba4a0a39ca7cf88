------------------------------ MODULE MCValues ------------------------------
(***************************************************************************)
(* Messages, blobs, URLs, the log and the date library, each on its own:   *)
(* what says which of them a behaviour is about, and the variables of the  *)
(* others keep their first values.                                         *)
(***************************************************************************)
EXTENDS DateFormats, Message, Blob, Log, TLC

CONSTANTS o1, o2, MaxLen

VARIABLES what, uri, parts, thrown, urlCalls

urlVars     == <<uri, parts, thrown, urlCalls>>
allVars     == <<what, vars, msgVars, blobVars, urlVars, logVars>>

-----------------------------------------------------------------------------
\* Messages: two objects in two processes, the smallest time to live, and data
\* of another version or without a required field.

Objects   == {o1, o2}
Domains   == [o \in Objects |-> IF o = o1 THEN "d" ELSE "e"]
Givens    ==
  {[sender |-> Me(<<>>, "t"), recipient |-> <<"r">>, head |-> "action",
    flags |-> 0, iflags |-> 65536, ttl |-> -128]}
Addresses == {<< <<"n">>, <<"r", "f">> >>}
Alarms    == {<<"a1", <<"n">> >>, <<"a2", <<"n", "f">> >>}
Keys      == {<<"int", "x">>, <<"miniblob", "x">>}
Foreigns  == {[data |-> [version |-> 2, complete |-> TRUE], of |-> 2],
              [data |-> [version |-> 1, complete |-> FALSE], of |-> 1]}

U == INSTANCE Url WITH MaxCall <- 2, calls <- urlCalls

-----------------------------------------------------------------------------
\* The clock, in tenths of a second, from 201 days before its base to 201 days
\* after it: New Year of years about the epoch, the end of a 400 year era, a
\* century year that is no leap year, the years -1, 0 and 1 and a negative century
\* year, and all of the last two digit year.  It goes on by 20 hours, 54 minutes
\* and 1.3 seconds, so every day has its turn, at all hours.

Bases  == {ToDays(Ymd(y, 1, 1)) : y \in {1970, 2000, 2100, 0, 1, -100}}
          \cup {ToDays(Ymd(2068, 7, 18))}
\* A day out of the range of the calendar, of which nothing is claimed.
NoDay  == 81 * 146097

Steps  == {752413}
Shifts == {-25, -12, -1, 0, 7, 13}

Dashed(letters) ==
  [i \in 1..(2 * Len(letters) - 1) |->
     IF i % 2 = 1 THEN Conv(letters[(i + 1) \div 2]) ELSE Mark(Dash)]

Formats ==
  {Dashed(letters) :
     letters \in {<<"F", "T">>, <<"D", "T">>,
                  <<"Y", "m", "d", "w", "R", "S">>,
                  <<"Y", "j", "H", "M", "S">>,
                  <<"C", "y", "m", "d", "T">>,
                  <<"G", "V", "u", "T">>, <<"g", "V", "u", "T">>,
                  <<"Y", "U", "w", "T">>, <<"Y", "W", "u", "T">>,
                  <<"F", "T", "z">>, <<"F", "T", "Ez", "Z">>}}
  \cup {<<Conv("Y"), Conv("n"), Conv("m"), Mark(Blank), Conv("e"), Conv("t"), Conv("T")>>}

\* UTC, a zone east of it by hours and minutes, and one west of it.
Offsets == {0, 345, -480}

-----------------------------------------------------------------------------
ValuesInit ==
  /\ what \in {"message", "blob", "url", "log", "dates"}
  /\ MsgInit /\ BlobInit /\ U!Init
  /\ IF what = "dates" THEN Init ELSE base = NoDay /\ now = 0
  /\ LogInit /\ (what # "log" => minimum = 0)

ValuesNext ==
  /\ UNCHANGED what
  /\ \/ what = "message" /\ MsgNext /\ UNCHANGED <<vars, blobVars, urlVars, logVars>>
     \/ what = "blob" /\ BlobNext /\ UNCHANGED <<vars, msgVars, urlVars, logVars>>
     \/ what = "url" /\ U!Next /\ UNCHANGED <<vars, msgVars, blobVars, logVars>>
     \/ what = "log" /\ LogNext /\ UNCHANGED <<vars, msgVars, blobVars, urlVars>>
     \/ what = "dates" /\ Next /\ UNCHANGED <<msgVars, blobVars, urlVars, logVars>>

ValuesSpec == ValuesInit /\ [][ValuesNext]_allVars

\* The blobs a message holds are objects of shared memory (Blob and ShmArea are
\* one set of model values), and neither they nor the proxies stand for more
\* than themselves.
Symmetry == Permutations(ShmArea) \cup Permutations(Proxy)
-----------------------------------------------------------------------------
\* URLs: the cached URL reads back as the parts, after any calls.
UrlReadsBack == U!ReadsBack
=============================================================================
