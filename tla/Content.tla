------------------------------- MODULE Content -------------------------------
(***************************************************************************)
(* The archived headers, query string or body of a request, read window by *)
(* window: GET /api/audit/{node}/{ray}/headers, args and body              *)
(* (internal/httpapi/content.go and content_parse.go) over FetchWindow     *)
(* (internal/store).  A window is cut from the object by its offset and    *)
(* limit; the text of a body that is cut inside a character is shortened   *)
(* to whole characters, headers and arguments are parsed as they are cut.  *)
(*                                                                         *)
(* A byte of a body is known by its part in UTF-8: "1" is a character of   *)
(* its own, "2", "3" and "4" begin one of so many bytes, "c" continues     *)
(* one, "0" is the NUL byte that no text has.  Those of headers and        *)
(* arguments are described in Fragments.  The reader and the store are not *)
(* part of the repository: the reader asks for the next window where the   *)
(* last one ended, as offset, returned and clipped tell it; the store      *)
(* answers with the range, names the total or not, or ignores the range.   *)
(***************************************************************************)
EXTENDS Fragments, ArchiveConfig

CONSTANTS
  Object,     \* the objects a run may read, for each kind of content
  Envs,       \* the environments the process may start in
  Sentinel,   \* first offsets a reader may ask for besides zero
  Asked,      \* limits a reader may ask for; 0 is none, Bare neither limit nor offset
  Chunk,      \* the limit when only an offset is named
  MaxBytes,   \* largest window
  Half        \* offsets are integers from -Half to Half - 1

\* A reader who names no limit, and no offset either where that is zero.
Bare == -1

ASSUME ContentAssumption ==
  /\ \A k \in Kinds : Object[k] \subseteq Seq(Byte)
  /\ \A k \in Kinds : \A s \in Object[k] : Len(s) < Half
  /\ Half \in Nat \ {0} /\ Envs \subseteq Environment
  /\ Sentinel \subseteq 0..Half - 1 /\ Asked \subseteq Bare..Half - 1
  /\ Chunk \in 1..Half - 1 /\ MaxBytes \in 1..Half - 1

\* No object is so large that a window in it comes near the largest integer.
ASSUME RoomAssumption == \A k \in Kinds : \A s \in Object[k] : Len(s) + MaxBytes + 1 < Half

VARIABLES
  env,      \* the environment the process started in
  kind,     \* what is read: headers, args or body
  object,   \* the archived bytes; what the locator points to
  loc,      \* the locator: where the object is and the size it names, 0 if none
  store,    \* "there", "ended" (its time is over) or "gone"
  asked,    \* the limit the reader asks for
  offset,   \* where the next window begins
  pages,    \* the windows the reader was given
  named,    \* the last answer named the total
  at,       \* the reader; "panicked" is a handler that sliced out of bounds
  reason    \* why there was no window

request == <<env, kind, object, loc, asked>>
vars == <<request, store, offset, pages, named, at, reason>>

\* A locator may be missing, say itself that nothing was archived, name no
\* place, or one in another store; the size counts where there is a body.
Locators(size) ==
  [where : {"absent", "unavailable", "nowhere", "foreign"}, size : {0}]
    \cup [where : {"s3"}, size : {0, size}]

Page == [from : Nat, data : Seq(Byte), text : BOOLEAN]

-----------------------------------------------------------------------------
(* UTF-8.  A definition named ...Mutant is the one after it with a plausible *)
(* bug; put in its place, it must break a property.                          *)

WidthOf(b) == CASE b = "2" -> 2 [] b = "3" -> 3 [] b = "4" -> 4 [] OTHER -> 1

\* No byte continues a character that is not there.
Continues(s) ==
  \A k \in DOMAIN s : s[k] = "c" => \E j \in 1..k - 1 : s[j] # "c" /\ j + WidthOf(s[j]) > k

\* utf8.Valid: the bytes are characters, one after the other.
Valid(s) ==
  /\ \A k \in DOMAIN s : s[k] # "c" =>
       /\ k + WidthOf(s[k]) - 1 <= Len(s)
       /\ \A j \in k + 1..k + WidthOf(s[k]) - 1 : s[j] = "c"
  /\ Continues(s)

\* The end of s without the continuation bytes it ends with, and without the
\* byte that began their character.
LastLeading(s) == Max({0} \cup {k \in DOMAIN s : s[k] # "c"})

Whole(s) ==
  LET last == LastLeading(s)
  IN IF last > 0 /\ s[last] \in {"2", "3", "4"} THEN last - 1 ELSE last

\* utf8Window: how many bytes of s are text; 0 for binary data.
TextLength(s) ==
  IF Contains(s, "0") THEN 0
  ELSE IF Valid(s) THEN Len(s)
  ELSE IF Valid(Upto(s, Whole(s))) THEN Whole(s) ELSE 0

-----------------------------------------------------------------------------
(* The window *)

\* Sums of 64-bit integers wrap around; those here are of two that are not
\* negative, so they exceed the range at most once.
Wrap(n) == IF n >= Half THEN n - 2 * Half ELSE n

\* windowOf: a request without parameters asks for all that may be shown, one that
\* names an offset, of zero too, for a chunk.
LimitOf(o, l) ==
  IF o = 0 /\ l = Bare THEN MaxBytes ELSE Min({IF l > 0 THEN l ELSE Chunk, MaxBytes})

\* The store ignored the range and sends the object from its first byte.
PastEndMutant(o, n) == FALSE
PastEnd(o, n) == o >= n

FullWindow(o, l) ==
  LET buf == Upto(object, Min({Max({Wrap(o + l + 1), 0}), Len(object)}))
      end == Min({Wrap(o + l), Len(buf)})
  IN IF PastEnd(o, Len(buf)) THEN [data |-> <<>>, more |-> FALSE, named |-> TRUE, fits |-> TRUE]
     ELSE [data |-> SubSeq(buf, o + 1, end), more |-> Len(buf) > Wrap(o + l), named |-> TRUE,
           fits |-> o <= end]

\* The store sends the bytes first to last and names the total, or does not.
RangeWindow(o, l, total) ==
  LET data == SubSeq(object, o + 1, Min({Wrap(o + l - 1) + 1, Len(object)}))
  IN [data |-> data, more |-> total /\ Wrap(o + Len(data)) < Len(object), named |-> total,
      fits |-> TRUE]

NoWindow == [data |-> <<>>, more |-> FALSE, named |-> TRUE, fits |-> TRUE]

\* What the store may answer: a range that makes no sense is ignored or refused
\* like one that begins past the end.
Answers(o, l) ==
  {FullWindow(o, l)}
    \cup (IF o < Len(object) /\ Wrap(o + l - 1) >= o
          THEN {RangeWindow(o, l, total) : total \in BOOLEAN} ELSE {NoWindow})

\* FetchWindow: more of the object follows if the store or the locator says so.
ClippedMutant(o, got) == got.more
Clipped(o, got) ==
  got.more \/ (loc.size > 0 /\ Wrap(o + Len(got.data)) < loc.size)

\* Why there is no window, in the order of the checks.
Reason ==
  CASE loc.where = "absent" -> "absent"
    [] loc.where = "unavailable" -> "unavailable"
    [] loc.where = "nowhere" -> "discarded"
    [] loc.where = "foreign" -> "driver_unsupported"
    [] loc.where = "s3" /\ store = "ended" -> "ttl_expired"
    [] loc.where = "s3" /\ store # "ended" /\ Disabled(env, kind) -> "store_disabled"
    [] loc.where = "s3" /\ store = "gone" /\ ~Disabled(env, kind) -> "expired"
    [] OTHER -> ""

-----------------------------------------------------------------------------
Init ==
  /\ env \in Envs
  /\ kind \in Kinds
  /\ object \in Object[kind]
  /\ loc \in Locators(Len(object))
  /\ store = "there"
  /\ asked \in Asked
  /\ offset \in {0} \cup Sentinel
  /\ pages = <<>> /\ named = TRUE
  /\ at = IF StartFails(env) THEN "down" ELSE "reading"
  /\ reason = ""

\* The number of bytes a window returns: of a body, those that are text.
ReturnedMutant(data) == Len(data)
Returned(data) ==
  IF kind = "body" /\ TextLength(data) > 0 THEN TextLength(data) ELSE Len(data)

\* The next window, decoded; the reader goes on where it ended.
Read ==
  /\ at = "reading" /\ Reason = ""
  /\ \E got \in Answers(offset, LimitOf(offset, asked)) :
       LET n == Returned(got.data)
           page == [from |-> offset, data |-> Upto(got.data, n),
                    text |-> got.data = <<>> \/ TextLength(got.data) > 0]
       IN IF got.fits
          THEN /\ pages' = Append(pages, page)
               /\ offset' = offset + n
               /\ named' = got.named
               /\ at' = IF Clipped(offset, got) /\ n > 0 THEN "reading" ELSE "end"
          ELSE at' = "panicked" /\ UNCHANGED <<pages, named, offset>>
  /\ UNCHANGED <<request, store, reason>>

\* There is no window, or fetching it fails.
Refuse ==
  /\ at = "reading"
  /\ at' = "refused"
  /\ reason' = IF Reason # "" THEN Reason ELSE "store_error"
  /\ UNCHANGED <<request, store, offset, pages, named>>

\* The time of the object is over, and the store drops it, in either order.
Disappear ==
  /\ at = "reading" /\ store = "there"
  /\ store' \in {"ended", "gone"}
  /\ UNCHANGED <<request, offset, pages, named, at, reason>>

Next == Read \/ Refuse \/ Disappear

Spec == Init /\ [][Next]_vars

-----------------------------------------------------------------------------
(* Properties *)

\* A character begins, or the object ends, after o bytes.
Boundary(o) == o = Len(object) \/ (o < Len(object) /\ object[o + 1] # "c")

\* Characters, the last perhaps cut off with the object.
IsText(s) ==
  /\ Continues(s) /\ ~Contains(s, "0")
  /\ \A k, j \in DOMAIN s : s[k] # "c" /\ k < j /\ j < k + WidthOf(s[k]) => s[j] = "c"

\* A reader who went on to the end missed no character: what was not shown is
\* less than one, the end of an object that was cut before it was archived.
\* Without a total and without a size the end cannot be told (s3.go:77-100,
\* store.go:109-111).  A body that ends with bytes which continue no character loses
\* the one before them, which is taken for cut off (content_parse.go:44-50).
NoneMissed ==
  (at = "end" /\ pages[1].from < Len(object)
     /\ (loc.size > 0 \/ named) /\ (kind = "body" => Continues(object))) =>
    \A k \in offset + 1..Len(object) : Boundary(k - 1) => k + WidthOf(object[k]) - 1 > Len(object)

\* Every character of the text has room in every window.
RoomyText ==
  /\ kind = "body" /\ IsText(object)
  /\ \A k \in DOMAIN object :
       WidthOf(object[k]) <= LimitOf(0, asked) /\ WidthOf(object[k]) <= LimitOf(1, asked)

\* Text is shown as text: a reader of whole characters, with windows that have room
\* for each of them, is given no window as binary data but the rest of a character
\* at the end of the object (utf8Window, content_parse.go:35-56).
TextStaysText ==
  RoomyText =>
    \A k \in DOMAIN pages :
      (Boundary(pages[1].from) /\ ~pages[k].text) =>
        pages[k].from + WidthOf(object[pages[k].from + 1]) > Len(object)

\* Where the k-th pair of the list l begins in Json(l), and where its strings do.
PairAt(l, k) == Len(Json(Upto(l, k - 1))) + IF k > 1 THEN 1 ELSE 0
NameAt(l, k) == PairAt(l, k) + 2
ValueAt(l, k) == PairAt(l, k) + 5 + Len(Encode(l[k].name))

\* The characters of s that fit into so many bytes, escapes undivided.
Fit(s, room) == Upto(s, Max({0} \cup {c \in DOMAIN s : Len(Encode(Upto(s, c))) <= room}))

\* Where the text s goes on after the blanks and commas it begins with.
FirstPlain(s) == Min({k \in DOMAIN s : s[k] \notin {"blank", "comma"}} \cup {Len(s) + 1})
Opens(s, B) == FirstPlain(s) \in DOMAIN s /\ s[FirstPlain(s)] \in B

\* What a part that is the page p of Json(l) should be decoded to.
DecodesTo(l, p, got) ==
  LET end == p.from + Len(p.data)
      cut(k) == [name |-> Fit(l[k].name, end + 1 - NameAt(l, k)),
                 value |-> Fit(l[k].value, end + 1 - ValueAt(l, k))]
      begun == FlattenSeq([k \in DOMAIN l |->
                 IF PairAt(l, k) > p.from /\ PairAt(l, k) < end THEN <<cut(k)>> ELSE <<>>])
      continues(s, start) ==
        \A c \in 0..Len(s) : p.from + 1 = start + Len(Encode(Upto(s, c))) =>
          LET rest == Fit(From(s, c + 1), Len(p.data))
          IN ~Opens(rest, {"[", "]"}) => \E k \in 1..FirstPlain(rest) : got.text = From(rest, k)
      between(k) == p.from + 1 \in {NameAt(l, k) - 1, ValueAt(l, k) - 2, ValueAt(l, k) - 1}
  IN /\ (p.from = 0 \/ \E k \in DOMAIN l : PairAt(l, k) - p.from \in {1, 2}) =>
          /\ got.pairs = begun
          /\ (end # 1 /\ \A k \in DOMAIN l : PairAt(l, k) # end) => got.text = <<>>
     /\ ~Opens(p.data, {"["}) => IsPrefix(got.pairs, begun)
     /\ p.data # <<>> =>
          \A k \in DOMAIN l :
            /\ continues(l[k].name, NameAt(l, k)) /\ continues(l[k].value, ValueAt(l, k))
            /\ between(k) => got.text = <<>>

\* A window of headers that begins where a pair does shows every pair that begins
\* in it, the last one as far as it reaches, and nothing else but for a bracket at
\* its very end.  One that begins inside a name or a value shows the rest of that
\* string, perhaps without the blanks and commas it begins with, one that begins
\* between the two strings of a pair no rest.  Wherever it begins, a pair that is
\* shown is one that begins in it, not glued to another nor shifted.  An opening
\* bracket inside a string is taken for one of the list, and excepted.  That the
\* pairs which begin later in a window are shown too is not claimed where it begins
\* inside a pair: they are not (scanHeaders and readPair, content_parse.go:58-151).
HeadersShown ==
  \A l \in {l \in HeaderLists : kind = "headers" /\ IsPrefix(object, Json(l))} :
    \A w \in DOMAIN pages : DecodesTo(l, pages[w], ParseHeadersFragment(pages[w].data))

\* A reader of a query string is shown each parameter once, in the window where it
\* begins and as far as that reaches, and its rest as continuation of the windows
\* it reaches into, unless a window ends just after a separator
\* (parseArgsFragment, content_parse.go:18-33).
ParamsShown ==
  (kind = "args" /\ pages # <<>> /\ pages[1].from = 0
     /\ \A w \in 2..Len(pages) : pages[w].from > 0 => object[pages[w].from] # "&") =>
    LET got(w) == ParseArgsFragment(pages[w].data, pages[w].from)
        ends(k) == Min({pages[w].from + Len(pages[w].data) : w \in DOMAIN pages} \cap k..offset)
        shown(k) == Param(Upto(PartAt(object, k), Min({Len(PartAt(object, k)), ends(k) + 1 - k})))
    IN /\ FlattenSeq([w \in DOMAIN pages |-> got(w).pairs]) =
            FlattenSeq([k \in 1..offset |-> IF k \in Begins(object) THEN <<shown(k)>> ELSE <<>>])
       /\ \A w \in 2..Len(pages) :
            got(w).text = Unescape(PartAt(pages[w].data, 1))

\* A process that started with an archive says of nothing it has that the store is
\* disabled: what can be wrong with the configuration fails the start, but for a
\* bucket that is not named (FromEnv, config.go:35-79).
DisabledOnlyUnnamed ==
  reason = "store_disabled" => ~env.endpoint \/ kind \notin env.buckets

\* No window slices out of bounds, wherever the reader begins, and none is longer
\* than may be shown (readFullWindow, s3.go:103-120; windowOf, content.go:132-152).
InBounds ==
  /\ at # "panicked"
  /\ \A k \in DOMAIN pages : Len(pages[k].data) <= MaxBytes

\* Windows fit together: each is the part of the object where it begins and the next
\* one begins where it ends, without a gap or an overlap, although text is shortened
\* at the end of a window (content.go:86-107).
WindowsTile ==
  \A k \in DOMAIN pages :
    LET p == pages[k]
    IN /\ \A j \in DOMAIN p.data : p.from + j \in DOMAIN object /\ p.data[j] = object[p.from + j]
       /\ (IF k = Len(pages) THEN offset ELSE pages[k + 1].from) = p.from + Len(p.data)

\* What keeps windows apart from characters: offsets stay in the range of integers,
\* whose sums wrap around (s3.go:103-120).
WindowsInv ==
  /\ kind \in Kinds /\ object \in Object[kind] /\ asked \in Asked
  /\ at # "down" => ~StartFails(env)
  /\ offset \in 0..Half - 1
  /\ pages \in Seq(Page)
  /\ WindowsTile /\ InBounds /\ DisabledOnlyUnnamed

\* A reader who began in the object stays in it, and one of a text who began between
\* two characters goes on between two.
StaysBetween ==
  /\ loc \in Locators(Len(object))
  /\ pages # <<>> =>
       /\ pages[1].from <= Len(object) => offset <= Len(object)
       /\ RoomyText /\ Boundary(pages[1].from) => Boundary(offset)

\* A reader goes on only with something shown: no window after the first begins where
\* the object does.
GoesOn ==
  /\ \A w \in 2..Len(pages) : pages[w].from > 0
  /\ at = "reading" /\ pages # <<>> => offset > 0

\* The inductive invariant: windows fit together, whole characters too.
ContentInv == WindowsInv /\ StaysBetween /\ NoneMissed /\ TextStaysText /\ GoesOn
=============================================================================
