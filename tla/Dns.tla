-------------------------------- MODULE Dns --------------------------------
(***************************************************************************)
(* The resolver of dns-lab (resolver.c): one query, one datagram each way, *)
(* and the walk over the records of the response, byte by byte, because    *)
(* the conversions to and from the wire are what it can get wrong.  A name *)
(* is a sequence of labels and a label a sequence of character codes; an   *)
(* empty label stands for two dots in a row, or for a dot at the end.      *)
(***************************************************************************)
EXTENDS Integers, SequencesExt

CONSTANTS
    Queries,        \* the queries: [name, answers], the answers of the server:
                    \* records [type, owner, data], see Response
    MAX_SIZE,
    Beyond,         \* the bytes that may stand behind the received ones in
                    \* recv's buffer, which nobody has set; zeros follow them
    Overruns,       \* how many bytes of its memory strlen may count to a name
    Elsewhere       \* the counts that memory outside the response may give

NUM_HEADER_BYTES == 12
Dot == 46
UpperCase == 65 .. 90

VARIABLES
    query,          \* the argument, and the server's answers to it
    stage,          \* where resolve is
    flight,         \* datagrams on their way: "request", "response"
    requestLen,
    wire,           \* the response
    indexp,         \* where the walk is in it
    over,           \* of each record read, what strlen counted beyond its name
    count, i,       \* numAnswerRecs and the loop variable
    cursor, dots,   \* indexp and i of grabCNames
    line, out       \* what is printed: this line, and the lines

vars == <<query, stage, flight, requestLen, wire, indexp, over, count, i, cursor, dots, line, out>>

----------------------------------------------------------------------------
\* canonicalize_name: lower case, and no dot at the end (the root stays).
canonicalize_name(name) ==
    LET lower == [k \in DOMAIN name |->
                    [j \in DOMAIN name[k] |-> IF name[k][j] \in UpperCase THEN name[k][j] + 32
                                              ELSE name[k][j]]]
    IN  IF name # <<<< >>, << >>>> /\ Last(name) = << >> THEN Front(lower) ELSE lower

\* Mutant: an empty label is written as one.
LabelBytes_Empty(label) == <<Len(label)>> \o label

\* name_ascii_to_wire: strtok skips empty labels.
LabelBytes(label) == IF label = << >> THEN << >> ELSE <<Len(label)>> \o label
name_ascii_to_wire(name) == FlattenSeq([k \in DOMAIN name |-> LabelBytes(name[k])]) \o <<0>>

\* create_dns_query: the header, with an id that nobody compares later, and the
\* question.
Header(answers) == <<7, 7, 1, 0, 0, 1, 0, answers, 0, 0, 0, 0>>
create_dns_query(name) == Header(0) \o name_ascii_to_wire(name) \o <<0, 1, 0, 1>>

(* The server's response repeats the question.  An answer's owner is a        *)
(* pointer: 0 to the question's name, k to the name in the data of answer k.  *)
(* The data is 4 bytes for an A record (type 1); for a CNAME (5) it is        *)
(* [labels, suffix], suffix 0 for none or s to end with the question's name   *)
(* from its s-th label on; it is anything for other types.                    *)
LabelAt(name, s) == NUM_HEADER_BYTES + Len(FlattenSeq([k \in 1 .. s - 1 |-> LabelBytes(name[k])]))
DataBytes(a, name) ==
    IF a.type # 5 THEN a.data
    ELSE FlattenSeq([k \in DOMAIN a.data.labels |-> LabelBytes(a.data.labels[k])])
         \o IF a.data.suffix = 0 THEN <<0>> ELSE <<192, LabelAt(name, a.data.suffix)>>

Response(name, answers) ==
    LET Question == name_ascii_to_wire(name) \o <<0, 1, 0, 1>>
        Record(k, target) == <<192, target, 0, answers[k].type, 0, 1, 0, 0, 0, 60, 0,
                               Len(DataBytes(answers[k], name))>> \o DataBytes(answers[k], name)
        start[k \in 1 .. Len(answers) + 1] ==
            IF k = 1 THEN NUM_HEADER_BYTES + Len(Question)
            ELSE start[k - 1] + 12 + Len(DataBytes(answers[k - 1], name))
    IN  Header(Len(answers)) \o Question \o FlattenSeq([k \in DOMAIN answers |->
            Record(k, IF answers[k].owner = 0 THEN NUM_HEADER_BYTES ELSE start[answers[k].owner] + 12)])

----------------------------------------------------------------------------
TypeOK ==
    /\ query \in Queries
    /\ stage \in {"start", "recv", "answer", "loop", "cname", "done", "crashed"}
    /\ flight \subseteq {"request", "response"}
    /\ requestLen \in 0 .. MAX_SIZE /\ indexp \in 0 .. MAX_SIZE /\ cursor \in 0 .. MAX_SIZE
    /\ over \in Seq(Overruns) /\ count \in 0 .. 255 /\ i \in 0 .. 255 /\ dots \in Nat

Init ==
    /\ query \in Queries
    /\ stage = "start" /\ flight = {} /\ requestLen = 0 /\ wire = << >>
    /\ indexp = 0 /\ over = << >> /\ count = 0 /\ i = 0 /\ cursor = 0 /\ dots = 0
    /\ line = << >> /\ out = << >>

\* resolve, and send_recv_message up to recv, which waits without a limit.
Send ==
    /\ stage = "start" /\ stage' = "recv"
    /\ requestLen' = Len(create_dns_query(canonicalize_name(query.name)))
    /\ flight' = {"request"}
    /\ UNCHANGED <<query, wire, indexp, over, count, i, cursor, dots, line, out>>

\* The network and the server.
Lose(m) ==
    /\ m \in flight /\ flight' = flight \ {m}
    /\ UNCHANGED <<query, stage, requestLen, wire, indexp, over, count, i, cursor, dots, line, out>>
Answer ==
    /\ "request" \in flight /\ flight' = {"response"}
    /\ UNCHANGED <<query, stage, requestLen, wire, indexp, over, count, i, cursor, dots, line, out>>

\* recv and memcpy of MAX_SIZE bytes.  A failed recv is not noticed.
Received(bytes) ==
    /\ stage = "recv" /\ stage' = "answer"
    /\ \E tail \in Beyond : wire' = SubSeq(bytes \o tail, 1, Min({Len(bytes \o tail), MAX_SIZE}))
    /\ indexp' = requestLen
    /\ UNCHANGED <<query, requestLen, over, count, i, cursor, dots, line, out>>
Recv ==
    /\ "response" \in flight /\ flight' = {}
    /\ Received(Response(canonicalize_name(query.name), query.answers))
RecvFails == flight = {} /\ Received(<< >>) /\ UNCHANGED flight

----------------------------------------------------------------------------
\* Reading the wire; behind the allocated bytes the model reads zeros, too.
Byte(p) == IF p < Len(wire) THEN wire[p + 1] ELSE 0

\* name_ascii_from_wire takes what stands before the first zero byte: of a
\* pointer its two bytes, as the type that follows starts with a zero.
name_ascii_from_wire(p) ==
    LET length[q \in Nat] == IF Byte(q) = 0 THEN 0 ELSE 1 + length[q + 1]
    IN  length[p]

\* C's | of two bytes.
BitOr[a \in Nat, b \in Nat] ==
    MapThenSumSet(LAMBDA k : IF (a \div 2^k) % 2 = 1 \/ (b \div 2^k) % 2 = 1 THEN 2^k ELSE 0, 0 .. 7)
Short(p) == BitOr[Byte(p), Byte(p + 1)]

\* rr_from_wire.  The bytes of a field are combined with |.  The name is copied
\* without its end, and strlen counts the n bytes that follow it up to a zero.
rr_from_wire(p, n) ==
    LET fields[q \in Nat] ==
            [type |-> Short(q), rdata |-> q + 10, end |-> q + 10 + Short(q + 8)]
    IN  fields[p + name_ascii_from_wire(p) + n]
resourceRec == rr_from_wire(indexp, Last(over))

\* get_answer_address reads the number of answers at an index that it has not
\* set: a place of the response's header, among them the right one (6), any
\* other memory, or none that can be read.
get_answer_address ==
    /\ stage = "answer"
    /\ \/ stage' = "loop" /\ count' \in {Short(at) : at \in 0 .. 11} \cup Elsewhere
       \/ stage' = "crashed" /\ UNCHANGED count
    /\ i' = 0 /\ over' \in {<<n>> : n \in Overruns}
    /\ UNCHANGED <<query, flight, requestLen, wire, indexp, cursor, dots, line, out>>

Advance ==
    /\ stage' = "loop" /\ i' = i + 1
    /\ indexp' = Min({resourceRec.end, MAX_SIZE})
    /\ over' \in {Append(over, n) : n \in Overruns}

\* Type 1: the address.
PrintAddress ==
    /\ stage = "loop" /\ i < count /\ resourceRec.type = 1
    /\ out' = Append(out, [k \in 1 .. 4 |-> Byte(resourceRec.rdata + k - 1)])
    /\ Advance
    /\ UNCHANGED <<query, flight, requestLen, wire, count, cursor, dots, line>>

\* Mutant: grabCNames prints the owner of the record itself.
PrintAlias_Own ==
    /\ stage = "loop" /\ i < count /\ resourceRec.type = 5
    /\ stage' = "cname"
    /\ cursor' = indexp /\ dots' = 0 /\ line' = << >>
    /\ UNCHANGED <<query, flight, requestLen, wire, indexp, over, count, i, out>>

\* Type 5: grabCNames prints the owner of the next record.
PrintAlias ==
    /\ stage = "loop" /\ i < count /\ resourceRec.type = 5
    /\ stage' = "cname"
    /\ cursor' = Min({resourceRec.end, MAX_SIZE}) /\ dots' = 0 /\ line' = << >>
    /\ UNCHANGED <<query, flight, requestLen, wire, indexp, over, count, i, out>>

\* Any other type returns, as the end of the loop does.
StopLoop ==
    /\ stage = "loop" /\ (i >= count \/ resourceRec.type \notin {1, 5})
    /\ stage' = "done"
    /\ UNCHANGED <<query, flight, requestLen, wire, indexp, over, count, i, cursor, dots, line, out>>

\* Mutant: a pointer is followed from where it stands.
grabCNames_Stays ==
    /\ stage = "cname"
    /\ \/ /\ Byte(cursor) >= 192
          /\ cursor' = cursor
          /\ UNCHANGED <<stage, indexp, over, i, dots, line, out>>
       \/ /\ Byte(cursor) \in 1 .. 44
          /\ dots' = dots + 1 /\ cursor' = cursor + 1
          /\ UNCHANGED <<stage, indexp, over, i, line, out>>
       \/ /\ Byte(cursor) \in 45 .. 191
          /\ line' = Append(line, Byte(cursor)) /\ cursor' = cursor + 1
          /\ UNCHANGED <<stage, indexp, over, i, dots, out>>
       \/ /\ Byte(cursor) = 0
          /\ out' = Append(out, line) /\ Advance
          /\ UNCHANGED <<cursor, dots, line>>
    /\ UNCHANGED <<query, flight, requestLen, wire, count>>

\* One turn of grabCNames: a pointer, a length (below '-'), a character, the end.
\* So a length of 45 or more is printed as a character, and without a dot.
grabCNames ==
    /\ stage = "cname"
    /\ \/ /\ Byte(cursor) >= 192
          /\ cursor' = Byte(cursor + 1)
          /\ UNCHANGED <<stage, indexp, over, i, dots, line, out>>
       \/ /\ Byte(cursor) \in 1 .. 44
          /\ line' = IF dots = 0 THEN line ELSE Append(line, Dot)
          /\ dots' = dots + 1 /\ cursor' = cursor + 1
          /\ UNCHANGED <<stage, indexp, over, i, out>>
       \/ /\ Byte(cursor) \in 45 .. 191
          /\ line' = Append(line, Byte(cursor)) /\ cursor' = cursor + 1
          /\ UNCHANGED <<stage, indexp, over, i, dots, out>>
       \/ /\ Byte(cursor) = 0
          /\ out' = Append(out, line) /\ Advance
          /\ UNCHANGED <<cursor, dots, line>>
    /\ UNCHANGED <<query, flight, requestLen, wire, count>>

Resolver == Send \/ Recv \/ get_answer_address \/ PrintAddress \/ PrintAlias \/ StopLoop \/ grabCNames
Next == Resolver \/ RecvFails \/ Answer \/ \E m \in {"request", "response"} : Lose(m)
Spec == Init /\ [][Next]_vars
FairSpec == Spec /\ WF_vars(Resolver)

----------------------------------------------------------------------------
\* What the query's server means: the addresses and the aliases' names, up to
\* the first record of another type.
Joined(labels) ==
    FlattenSeq([k \in DOMAIN labels |-> IF k = 1 THEN labels[k] ELSE <<Dot>> \o labels[k]])
FullName(data, name) ==
    IF data.suffix = 0 THEN data.labels ELSE data.labels \o SubSeq(name, data.suffix, Len(name))
Understood(k) == \A j \in 1 .. k : query.answers[j].type \in {1, 5}
Expected ==
    [k \in {j \in DOMAIN query.answers : Understood(j)} |->
        IF query.answers[k].type = 1 THEN query.answers[k].data
        ELSE Joined(FullName(query.answers[k].data, canonicalize_name(query.name)))]

\* The question on the wire is the canonical name: read by the rules of the
\* wire format, it gives the labels of the argument in lower case, the empty
\* ones left out, and nothing is left over.
LabelsOf(bytes) ==
    LET from[p \in 1 .. Len(bytes)] ==
            IF bytes[p] = 0 /\ p = Len(bytes) THEN << >>
            ELSE <<SubSeq(bytes, p + 1, p + bytes[p])>> \o from[p + bytes[p] + 1]
    IN  from[1]
Lower(ch) == IF ch \in UpperCase THEN ch + 32 ELSE ch
QuestionRight ==
    stage = "recv" =>
        LET bytes == create_dns_query(canonicalize_name(query.name))
            asked == SelectSeq(query.name, LAMBDA label : label # << >>)
        IN  LabelsOf(SubSeq(bytes, NUM_HEADER_BYTES + 1, Len(bytes) - 4))
              = [k \in DOMAIN asked |-> [j \in DOMAIN asked[k] |-> Lower(asked[k][j])]]

\* The response has come (no Beyond begins with its id), the records up to the
\* k-th are read where they stand, and the name of an alias is what follows it:
\* the next record's owner, of labels whose lengths are no characters.
Came == Byte(0) = Header(0)[1]
Straight(k) == \A j \in DOMAIN over : j <= k => over[j] = 0
Followed(k) ==
    query.answers[k].type = 5 =>
        /\ k < Len(query.answers) /\ query.answers[k + 1].owner = k
        /\ \A label \in ToSet(FullName(query.answers[k].data, canonicalize_name(query.name))) : Len(label) < 45

\* Line k of the output is what answer k says, however many records the walk is
\* told to expect, whatever stands behind the response and whatever happened to
\* the records behind this one; and no answer is left out that the count includes.
\* Not so for a record that strlen misplaced, and the alias of a last record, of
\* one that something else follows or of a label of 45 characters: for these the
\* program prints what it finds.
AnswersInOrder ==
    Came => \A k \in DOMAIN Expected :
        /\ k \in DOMAIN out /\ Straight(k) /\ Followed(k) => out[k] = Expected[k]
        /\ stage = "done" /\ Straight(k) /\ k <= count => k \in DOMAIN out

\* A response that has come is worked off: no compression pointer and no record
\* length makes the walk go round, as long as it reads the answers.  In bytes
\* that are none (behind the last answer, where the name of a last alias is looked
\* for, or at a misplaced record) a pointer may lead to itself.
Answered == stage = "answer" /\ Came
WorkedOff == stage \in {"done", "crashed"}
Astray ==
    \/ ~ Straight(Len(over)) \/ i >= Len(query.answers)
    \/ i + 1 = Len(query.answers) /\ query.answers[i + 1].type = 5
Resolves == Answered ~> (WorkedOff \/ Astray)
=============================================================================
