---------------------------- MODULE CodedChain ----------------------------
(***************************************************************************)
(* app/network_coding_for_transport: an encoder, a recoder and a decoder   *)
(* in a chain of lossy links.  A coded symbol is a linear combination of   *)
(* the symbols of a generation.  Its coefficients are 0 or 1 here: two of  *)
(* the values of the field binary8, closed under addition, with which a    *)
(* vector is a set and the sum of two vectors their symmetric difference.  *)
(***************************************************************************)
EXTENDS Naturals, Sequences, SequencesExt

CONSTANTS
  Symbols,         \* SYMBOLS: source packets in a generation
  MaxGeneration,   \* the last generation number (255)
  InitRedundancy,  \* INIT_REDUNDANCY
  OamValues,       \* the redundancies the controller sends
  MaxPackets,      \* bound: packets of the client
  MaxRecoded,      \* bound: packets of the client when the recoder recodes
  MaxLostFrames,   \* bound: frames the links lose
  MaxQueued        \* bound: frames on a link when a sender adds to it

ASSUME ChainAssumption ==
  /\ Symbols \in Nat /\ Symbols > 1
  /\ MaxGeneration \in Nat \ {0}
  /\ InitRedundancy \in Nat
  /\ OamValues \subseteq Nat
  /\ MaxPackets \in Nat /\ MaxRecoded \in Nat /\ MaxLostFrames \in Nat /\ MaxQueued \in Nat

VARIABLES
  recoding,    \* recoder.py --action recode, or forward
  systematic,  \* encoder.py without --disable_systematic
  next,        \* the number of the client's next packet
  block,       \* encoder: the packets in symbol_storage
  generation,  \* the generation of encoder, recoder and decoder
  redundancy,  \* the redundancy of encoder and recoder
  link,        \* the frames on the way to recoder and decoder
  recoder,     \* the combinations the recoder can write
  decoder,     \* the combinations the decoder knows
  undecoded,   \* decoder: not_decoded_indces
  delivered,   \* what the decoder sent to the server
  lostFrames   \* frames lost so far

chainVars == <<recoding, systematic, next, block, generation, redundancy, link, recoder, decoder,
          undecoded, delivered, lostFrames>>

Coders == {"encoder", "recoder", "decoder"}
Packets == 1..MaxPackets
Indices == 1..Symbols
AllIndices == [i \in Indices |-> i]

\* A row says: the sum of the symbols at the indices coef is the sum of the packets data.
Zero == [coef |-> {}, data |-> {}]
Plus(A, B) == (A \ B) \cup (B \ A)
Sum(r, s) == [coef |-> Plus(r.coef, s.coef), data |-> Plus(r.data, s.data)]
Extended(space, r) == space \cup {Sum(r, s) : s \in space}

ChainInit ==
  /\ recoding \in BOOLEAN
  /\ systematic \in BOOLEAN
  /\ next = 1
  /\ block = <<>>
  /\ generation = [c \in Coders |-> 0]
  /\ redundancy = [encoder |-> InitRedundancy, recoder |-> InitRedundancy]
  /\ link = [recoder |-> <<>>, decoder |-> <<>>]
  /\ recoder = {Zero}
  /\ decoder = {Zero}
  /\ undecoded = AllIndices
  /\ delivered = <<>>
  /\ lostFrames = 0

----------------------------------------------------------------------------
\* The encoder.

\* What write_payload makes of the symbols stored so far: a systematic encoder sends each
\* symbol once as it is; all else are random combinations.
Payload(stored, coef) == [coef |-> coef, data |-> {stored[i] : i \in coef}]
Payloads(stored, n) ==
  {f \in [1..n -> SUBSET (DOMAIN stored)] : systematic => f[1] = {Len(stored)}}

NextGeneration(g) == IF g < MaxGeneration THEN g + 1 ELSE 0

Encode ==
  LET stored == Append(block, next)
      full == Len(stored) = Symbols
      number == IF full THEN 1 + redundancy["encoder"] ELSE 1 IN
  /\ next <= IF recoding THEN MaxRecoded ELSE MaxPackets
  /\ Len(link["recoder"]) <= MaxQueued
  /\ \E f \in Payloads(stored, number) :
       link' = [link EXCEPT !["recoder"] =
                  @ \o [k \in 1..number |->
                          [gen |-> generation["encoder"], row |-> Payload(stored, f[k])]]]
  /\ next' = next + 1
  /\ block' = IF full THEN <<>> ELSE stored
  /\ generation' = IF full THEN [generation EXCEPT !["encoder"] = NextGeneration(@)] ELSE generation
  /\ UNCHANGED <<recoding, systematic, redundancy, recoder, decoder, undecoded, delivered, lostFrames>>

\* An OAM segment to the encoder.
OamEncoder ==
  /\ \E r \in OamValues : redundancy' = [redundancy EXCEPT !["encoder"] = r]
  /\ UNCHANGED <<recoding, systematic, next, block, generation, link, recoder, decoder,
                 undecoded, delivered, lostFrames>>

----------------------------------------------------------------------------
\* The recoder.

Forward ==
  /\ ~recoding
  /\ link["recoder"] # <<>>
  /\ Len(link["decoder"]) <= MaxQueued
  /\ link' = [recoder |-> Tail(link["recoder"]),
              decoder |-> Append(link["decoder"], Head(link["recoder"]))]
  /\ UNCHANGED <<recoding, systematic, next, block, generation, redundancy, recoder, decoder,
                 undecoded, delivered, lostFrames>>

\* The recoder starts afresh for a greater generation number.
Known(g, space) == IF g > generation["recoder"] THEN {Zero} ELSE space

\* It sends the frame on, learns it, and sends redundancy + 1 combinations after it.
Recode ==
  LET f == Head(link["recoder"])
      space == Extended(Known(f.gen, recoder), f.row)
      number == redundancy["recoder"] + 1 IN
  /\ recoding
  /\ link["recoder"] # <<>>
  /\ Len(link["decoder"]) <= MaxQueued
  /\ recoder' = space
  /\ generation' = [generation EXCEPT !["recoder"] = IF f.gen > @ THEN f.gen ELSE @]
  /\ \E rows \in [1..number -> space] :
       link' = [recoder |-> Tail(link["recoder"]),
                decoder |-> link["decoder"] \o <<f>>
                              \o [k \in 1..number |-> [gen |-> f.gen, row |-> rows[k]]]]
  /\ UNCHANGED <<recoding, systematic, next, block, redundancy, decoder, undecoded, delivered, lostFrames>>

\* An OAM segment to the recoder, which takes the first byte of the four of the number.
OamRecoder ==
  /\ recoding
  /\ \E r \in OamValues : redundancy' = [redundancy EXCEPT !["recoder"] = (r \div 2^24) % 2^8]
  /\ UNCHANGED <<recoding, systematic, next, block, generation, link, recoder, decoder,
                 undecoded, delivered, lostFrames>>

----------------------------------------------------------------------------
\* The decoder.

\* read_payload: a symbol whose coefficients are no news is dropped.
Learned(space, r) ==
  IF \E s \in space : s.coef = r.coef THEN space ELSE Extended(space, r)

\* is_symbol_uncoded, and the symbol.
Decodable(space) == {i \in Indices : \E s \in space : s.coef = {i}}
Symbol(space, i) == (CHOOSE s \in space : s.coef = {i}).data

\* for i in list: if ready, delete it from the list and send it.  The iterator counts
\* positions, so that the element behind a deleted one is passed over.
Sweep(list, ready) ==
  LET step[n \in 0..Len(list)] ==
        IF n = 0 THEN [left |-> list, pos |-> 1, out |-> <<>>]
        ELSE LET s == step[n - 1] IN
             IF s.pos > Len(s.left) THEN s
             ELSE IF s.left[s.pos] \in ready
             THEN [left |-> RemoveAt(s.left, s.pos), pos |-> s.pos + 1,
                   out |-> Append(s.out, s.left[s.pos])]
             ELSE [s EXCEPT !.pos = @ + 1]
  IN step[Len(list)]

\* Faulty variant: the numbers are taken never to start again.
RestartsOnGreater(g) == g > generation["decoder"]

\* Does a frame of generation g start a new decoder?
Restarts(g) ==
  g > generation["decoder"] \/ (g = 0 /\ generation["decoder"] = MaxGeneration)

\* Faulty variant: the loop over the symbols comes before read_payload.
DecodeLate ==
  LET f == Head(link["decoder"])
      fresh == Restarts(f.gen)
      before == IF fresh THEN {Zero} ELSE decoder
      swept == Sweep(IF fresh THEN AllIndices ELSE undecoded, Decodable(before)) IN
  /\ link["decoder"] # <<>>
  /\ link' = [link EXCEPT !["decoder"] = Tail(@)]
  /\ generation' = IF fresh THEN [generation EXCEPT !["decoder"] = f.gen] ELSE generation
  /\ decoder' = Learned(before, f.row)
  /\ undecoded' = swept.left
  /\ delivered' = delivered \o [k \in DOMAIN swept.out |-> Symbol(before, swept.out[k])]
  /\ UNCHANGED <<recoding, systematic, next, block, redundancy, recoder, lostFrames>>

Decode ==
  LET f == Head(link["decoder"])
      fresh == Restarts(f.gen)
      space == Learned(IF fresh THEN {Zero} ELSE decoder, f.row)
      swept == Sweep(IF fresh THEN AllIndices ELSE undecoded, Decodable(space)) IN
  /\ link["decoder"] # <<>>
  /\ link' = [link EXCEPT !["decoder"] = Tail(@)]
  /\ generation' = IF fresh THEN [generation EXCEPT !["decoder"] = f.gen] ELSE generation
  /\ decoder' = space
  /\ undecoded' = swept.left
  /\ delivered' = delivered \o [k \in DOMAIN swept.out |-> Symbol(space, swept.out[k])]
  /\ UNCHANGED <<recoding, systematic, next, block, redundancy, recoder, lostFrames>>

----------------------------------------------------------------------------
LoseFrame(c) ==
  /\ link[c] # <<>>
  /\ lostFrames < MaxLostFrames
  /\ lostFrames' = lostFrames + 1
  /\ link' = [link EXCEPT ![c] = Tail(@)]
  /\ UNCHANGED <<recoding, systematic, next, block, generation, redundancy, recoder, decoder,
                 undecoded, delivered>>

ChainNext ==
  \/ Encode \/ OamEncoder
  \/ Forward \/ Recode \/ OamRecoder
  \/ Decode
  \/ \E c \in {"recoder", "decoder"} : LoseFrame(c)

ChainSpec == ChainInit /\ [][ChainNext]_chainVars

----------------------------------------------------------------------------
\* Which generation of the whole transfer a packet is in; the header holds it modulo
\* MaxGeneration + 1.
Age(p) == (p - 1) \div Symbols

\* The generation numbers tell the generations apart: they have not been used twice, or,
\* if nobody recodes, the links took fewer frames than the smallest generation has.
InStep == Age(next - 1) <= MaxGeneration \/ (~recoding /\ lostFrames < Symbols)

\* Whatever is lost and however often it is recoded, what leaves the decoder is a packet of
\* the client, never a mixture; each at most once; and no generation after a later one.
DeliversPackets ==
  InStep =>
    /\ \A k \in DOMAIN delivered : Cardinality(delivered[k]) = 1
    /\ \A j, k \in DOMAIN delivered : j < k =>
         /\ delivered[j] # delivered[k]
         /\ \A p \in delivered[j], q \in delivered[k] : Age(p) <= Age(q)

\* Until the numbers start again, the recoder never combines packets of two generations,
\* although the frames that would tell it of a new one may all be lost.
RecoderPure ==
  InStep => \A s \in recoder : \A p, q \in s.data : Age(p) = Age(q)

\* Neither on the way nor at its end are packets mixed (recoder.py:121-131, decoder.py:100-136).
PacketsStayPure == DeliversPackets /\ RecoderPure

\* With a systematic encoder and no loss everything arrives, also when the generation
\* numbers start again, whatever the redundancy is and with recoding in between: a frame then
\* makes one symbol ready at most, and the loop of the decoder passes over none
\* (decoder.py:112-136).
LosslessIsComplete ==
  /\ systematic /\ lostFrames = 0 /\ InStep
  /\ \A c \in {"recoder", "decoder"} : link[c] = <<>>
  => UNION ToSet(delivered) = 1..(next - 1)

=============================================================================
