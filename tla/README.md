# A verification of the `browse` web browser

`browse` is a small graphical web browser in C without libc: one process that
fetches pages over its own DNS, TCP and TLS 1.3, turns HTML into text with
spans, links and inline images, draws into a frame buffer in shared memory, and
takes its input from the same shared memory; four forked worker processes fetch
and decode the images. This directory holds TLA+ modules for its stateful parts,
TLC configurations that check them on small instances, and proofs for TLAPS.

Source paths below are relative to the repository (`src/browser/...`).

## 1. Inventory

| Component | Source | State it keeps | Operations |
|---|---|---|---|
| Image pixel pool | `browser_img.c` 240-402, 1440-1560 | bump pointer, unordered array of at most 128 free ranges, the blocks of cache entries | `img_pixel_alloc`, `img_pixel_free` (merge, compact, shrink the tail), undo after a failed large decode |
| Image cache, workers, pump | `browser_img.c` | 1024 cache entries (state, inflight, want, generation, failures, format, pixels), four slots of a shared mapping, worker processes | look up or mark pending, evict, collect results, dispatch, decode one large image, cancel on navigation, restart workers |
| Keep-alive HTTPS fetch | `browser_img.c` 735-879, `tls13_client.c` 50-231, 478-652 | one connection per worker: socket, host, keys, stash; the response being fed | open, close, request and read a response, retry, follow a redirect |
| TLS 1.3 client | `tls13_client.c` | transcript, traffic keys, record sequence numbers | handshake, seal and open a record, one-shot and keep-alive requests |
| HTTP and URL parsing | `http_parse.h`, `http.c`, `url.h` | chunk decoder | header fields, chunk decoding, `url_apply_location` |
| Network | `net_dns.h`, `net_tcp.h`, `net_ip4.h`, `net_ip6.h` | none between calls | resolve through four servers in turn, connect with a timeout |
| Navigation | `browser_nav.c` | visible text, links, spans, images, URL bar, active host | `browser_do_https_status`: fetch, at most six redirects, parse, show |
| Main loop and URL editor | `main.c` | host and path, editor, scroll position, last counters seen | poll keys, wheel, mouse; edit, click, scroll, reload; pump images; repaint |
| Shared input channel | `core/cfb.h`, `fb_shm.h`, `inputd/main.c`, `tools/viewer_sdl.c` | key ring of 32 slots, one mouse slot, one wheel slot, their counters | push an event, poll |
| Rendering and hit testing | `browser_ui.c` | none | draw a page; what a click hits |
| HTML, CSS, layout | `html_text.c`, `css_tiny.c`, `style_attr.c`, `text_layout.c` | none between calls | pure scanners |
| Image decoders | `image/*.c` | none between calls | PNG, JPEG, GIF |
| TLS cryptography | `src/tls/*.c` | none between calls | SHA-256, HKDF, AES-128-GCM, X25519 |
| Core, tools, tests | `src/core`, `tools` | - | frame buffer back ends, fonts, system calls; unit tests |

How they interact. `main` opens the shared header, starts the workers and
navigates; a navigation runs to its end inside one call and cancels all image
jobs. Then the loop polls the header, acts, calls `img_workers_pump` (collect,
dispatch), repaints if images arrived and decodes at most one large image.
A repaint looks images up in the cache and so decides which are wanted. Workers
share only their slot of an anonymous mapping with the browser: `state` goes
0 idle, 1 requested, 2 answered; there are no locks, the order of plain stores is
all the protocol there is. Each worker keeps its own TLS connection from job to
job. The viewer and `inputd` write the header's input half, again with plain
stores.

What is hard here, and what makes each part correct:

- *Pool.* The free list is merged in one backward pass with swaps, compacted, and
  the tail is given back in a loop; a failed large decode undoes its allocation
  by restoring the bump pointer. Two images must never share pixels, nothing may
  stay free at the top, and what is lost must be lost for a known reason.
- *Cache and workers.* Evictions, navigations, crashes and results cross each
  other. An entry in flight must have exactly one job; a result of an old page
  must not reach the new one; every image must be settled in the end.
- *HTTPS fetch.* A kept connection can be dead, answer late, answer too much, or
  be to another host. Responses must stay in step with requests, sockets must not
  leak on any way out, and each job must end.
- *Input.* No locks: keys may be overrun, coordinates torn, a click overwritten.
- *Main loop.* URL bar, editor, host and page are separate variables that several
  handlers change; they must agree.
- *Network and navigation.* Four resolvers, two kinds of address, a connect with a
  timeout, redirects, and an early return at each of them. A late answer must not
  be taken for the one asked for, every way out must close its socket, and the
  bar, the host and the text must end up belonging together.
- *HTML and CSS.* One loop with some twenty flags and five stacks that are pushed
  and popped under conditions of their own. What the document hides must stay
  hidden and nothing else, and text, links, spans and icons, kept as ranges of
  positions in one buffer, must fit one another.
- *Layout and hit testing.* The same text is laid out three times by separate
  walks (rows above the screen, rows on it, the row under a click); they must agree.

The full list of hazards, each at its line, is in `PROJECT.json`.

## 2. Modules

| Module | Models | Extends |
|---|---|---|
| `PixelStore` | abstract store of blocks: hands out blocks apart from all others, takes them back | |
| `PixelPool` | the allocator of the pool and its two users; implements `PixelStore` | |
| `ImgPipeline` | cache, workers, pump, navigation as the cache sees it | |
| `ImageProofs` | proofs about `PixelPool` and about `ImgPipeline` | `ImgPipeline`, `PixelPool` |
| `Iteration` | lemmas about loops: folds over sequences, recursive functions on numbers | |
| `HttpsConn` | a worker's fetch over a reusable connection, and the server | |
| `HttpsConnProofs` | proofs about `HttpsConn` | `HttpsConn` |
| `InputChannel` | the input half of the shared header and its writers | |
| `MainLoop` | the browser's loop, editor and navigation over that channel | `InputChannel` |
| `MainLoopProofs` | proofs about `MainLoop` | `MainLoop` |
| `ChunkedBody` | the decoder of chunked bodies, byte by byte, and hexadecimal numbers | |
| `HttpHead` | the head of a response, byte by byte: header lines, lengths, limits | `ChunkedBody` |
| `HttpResponse` | one response: the server, records, the two receivers, the body stored | `HttpHead` |
| `HttpResponseProofs` | proofs about `HttpResponse` | `HttpResponse` |
| `Tls13` | the TLS 1.3 client, handshake and records, and the server | |
| `Tls13Proofs` | proofs about `Tls13` | `Tls13` |
| `Scan` | the loops over characters that all parsers are made of | |
| `Url` | redirect and link targets, typed addresses, the text of the URL bar | |
| `PageLoad` | abstract navigation: clears the page, then shows a place or a message | |
| `Navigation` | a navigation call by call: resolver, connect, exchange, redirects; implements `PageLoad` | `Url` |
| `TextLayout` | the line breaker | `Scan` |
| `PageView` | painting, scrolling and clicking a page | `TextLayout` |
| `PageProofs` | proofs about `PageView` and about `Navigation` | `Navigation`, `PageView` |
| `StyleAttr` | style attributes: declarations, colours | `Scan` |
| `Css` | style sheets: parsing, matching, the style of an element | `StyleAttr` |
| `HtmlText` | the extractor: a document, token by token, to text, links, spans and icons | `Css` |
| `HtmlDoc` | documents, what they mean, and the extractor run over them | `HtmlText` |
| `HtmlDocProofs` | proofs about `HtmlDoc` | `HtmlDoc` |
| `MC...` | instances for TLC | |

### PixelPool

`used`, `free`, `freeN` are `g_img_pixel_pool_used`, `g_img_pix_free`,
`g_img_pix_free_n`; `live` gives each cache entry its `pix_off` and `pix_len`;
`stage`, `i`, `j`, `w` are the position inside `img_pixel_free`, and `saved` is
`old_used` of `img_decode_large_pump_one`. Each comparison of the merge loop, each
move of the compaction and each removal at the tail is a step, because which
ranges are merged depends on the order of the list at that moment. The pool is
used by one process, so the steps of a release are not interleaved with others.

The abstract specification `PixelStore` knows only the blocks: `Acquire` gives an
entry a block apart from all other blocks, `Release` takes it back. `StoreSpec`
is its specification under the mapping `Owner <- Owner`, `live <- live`.

### ImgPipeline

The steps of the browser process are cut wherever a worker can get in between:
between collecting one slot and the next, between dispatching one slot and the
next, and between the two stores `w->state = 1u; w->rc = 0;` of one dispatch. The
workers are one process each: take a job, answer it, die. `lru` is the order of
the `last_use` ticks and `cur` says whether an entry is of the current
generation. `told` is a history variable: what the worker meant by its answer.

### HttpsConn

`pc` and `job` are the position in the nested loops of
`https_get_prefix_follow_redirects_keepalive`; `conn` is `struct
tls13_https_conn`, `feed` is `struct http_resp_feed_ctx`, `fds` the sockets the
kernel has given out. `peer` is the server's end: what it has still to send, what
it has sent and is unread (whole records, the socket's stream), whether it has
closed or reset. A response is a sequence of units: a head (framing, length,
redirect target, `Connection: close`), body units and the terminator of a chunked
body; it may be preceded by an informational head. A record holds any part of it.
The marks `new` on units and `fresh` are history.

### InputChannel and MainLoop

A writer stores field after field, and each store and each load of a counter is a step,
but for two pairs of neighbouring stores that are one: kind and character of a key
(`viewer_sdl.c:146-147`), button and state of the mouse (205-206), which the loop also reads
in one step (`main.c:318`). What is lost is a button of one event read with the state of
another, or half a key, in a slot overrun; that a counter is bumped after all
fields are stored, and read before them, is kept. Each other read of the loop is a step. The loop's own work on an event, up to its next read of
the header, is part of that step, a whole navigation included. A site stands for
host and path, the text in the editor is reduced to its length, and what it
parses to is any site or nothing. `typed`, `overrun`, `due` and `turn` are history:
keys pushed and not taken, whether one was overwritten, the last press and the
last turn of the wheel not yet acted upon.

### ChunkedBody, HttpHead, HttpResponse

The program reads a response in two places: `http_resp_feed` on a connection that is
kept, and a loop of its own in the one-shot request (`tls13_client.c:1325-1489`),
which repeats the first one's parsing of the head. `rx` is the receiver of either kind:
`struct http_resp_feed_ctx` or the locals of the loop, with `struct
http_chunked_dec` in it. They differ in what they do with a body without framing
(none of it, or all up to the end of the connection), where they stop (at the
byte, or at the end of a record that filled the buffer or ended the message), and
in what an alert means (the end, or an error).

One `Receive` is one record with as many bytes as have come, any number; inside it
byte after byte is taken (`TakeByte`, a fold). The server sends a head line by line, with
fields in any order, some of no meaning and longer than the line buffer, then a body in
chunks (leading zeros, extensions, trailers), of the length announced, or up to the
end of the connection; the next response may follow, and the connection may end at
any point. Bytes are reduced to digits, CR, LF, blank, comma, the three names and
two words looked for, and the rest; the wire remembers of each byte which part of
the message it belongs to, and the properties compare with that.

Lengths the program misreads (`LongLengths`) are left out of the run `response`;
`MCHttpResponseLength.cfg` has them. A length is written with fewer digits than `NumberCap`: of
a longer one, which can only begin with zeros, the program reads the first 31. The lines that
say something have room in the receiver's line buffer (`RoomAssumption`, far below the 512
bytes of the program); a server that pads such a line beyond it is not modelled.

### Tls13

`pc` is the position in `tls13_handshake_to_app` and after it, `tr` the transcript,
`tx` and `rx` the two `struct tls13_aead` in use. Cryptography is ideal: a key is
its side, phase, connection and transcript, and a record opens under the key and
number it was sealed with only. Messages of the handshake are whole, or parts of
a split one (less than four bytes, more, or the rest), because the loop at
`tls13_client.c:400` treats them in three ways. `sealed` and `reused` are the history
of keys and numbers, `why` says how the client left a connection.

### Url, PageLoad and Navigation

`Url` has the three places that deal with URLs as strings: `url_apply_location`
(a redirect or a link), `url_parse_user_input` (what is typed) and
`browser_compose_url_bar`. A string is a sequence of tokens, of which the parsers
know seven; a buffer that is too small cuts (typed input) or refuses (links).

`Navigation` is `browser_do_https_status` with the calls it makes: `pc` says in
which of them the process is, `try` and `qtype` which resolver is asked for what,
`open` counts the descriptors open and `sock` is the one in use. `late` holds the
answers to queries given up: one of them may arrive at the socket of the next
query, which can have got the same port. Identifiers are random 16-bit numbers;
the model takes two that can still meet for different. The four `dns_try_server_*`
functions are the same code for a record type and an address family; they
are one action, `TryServer`, in the states that each of them runs in. The exchange
of request and response over TLS ends with one of the outcomes its caller tells
apart (no response, an encoded body, a final answer, a redirect). Until then it is a
loop over records: `ServerSends` is the server, which may send or not, `ReadOn` a turn of one of the
three loops (`tls13_client.c:1164-1181`, 1222-1265, 1325-1489) that does not end it. None of
them counts, and the timeout is of one read, so that the exchange is as long as the server likes.
A socket made ready (`Ready`) blocks and has its timeouts: `net_tcp.h` (17-18, 26, 59) does not look at
what `setsockopt` and `fcntl` return, and on an open socket they succeed.

`PageLoad` is what the rest of the browser sees: the page is cleared, and when the
call returns the bar names the place and the text is of that place or a message.
Two cases are let through, because the program has them: a host that cannot
be reached leaves the old bar, and a redirect too many shows the text of the page
that leads on. `LoadSpec` is `PageLoad` under the mapping that hides all calls.

### Scan, TextLayout and PageView

`NextRow` is `text_layout_next_line_ex`. `PageView` is `browser_ui.c`: one
step for every row a walk goes over, `walk` says which walk. A page (`doc`) is a sequence of
pieces (characters, blanks `"SP"`, newlines `"LF"`, placeholders of images), and its text and links
are what `html_text.c` writes for them (`PageOf`), with the rows it adds below a marker. `screen` is
what the walk of the renderer has drawn. The renderer's `line[1024]` and the
hit test's `line[256]` are the constants `DrawCap` and `ClickCap`. `doc.of` says which
piece a position of the text comes from; the program does not know it, and only the properties use it.

`PagesAssumption` says what is a page (`Written`): no NUL in the text, and a placeholder begins a line
(`append_newline_collapse`, `html_text.c:1848`), has two rows or more and a marker
shorter than the renderer's buffer (its address has at most 511 characters, `src_tmp[512]`, and its label 95).

### StyleAttr, Css, HtmlText and HtmlDoc

The parsers are operators on sequences of characters, keywords cut to one letter.
`HtmlText` is the loop of `html_visible_text_extract_impl` as a function from the record
`x` of its local variables to the next, one for each kind of token. `Finished(x)`
is what the function leaves behind when the document ends there.

`HtmlDoc` writes documents: at every step a character, an entity, a blank, a
comment, a start tag, an end tag or a piece of a style sheet, every element closed in its
turn. Beside `x` it keeps the truth about the document (`open`, `written`,
`rules`, `primary`), from which the properties say what the page should show:
which elements hide, which style nesting and cascade give, which link a character is
in, which part of the document is the main one. These definitions are the
specification; they do not use the flags and stacks of the extractor.

The operators were also compared with the compiled C functions on some 1300
generated documents and 1300 style sheets, and agree on all of them.

The properties do not hold for every document. The kinds for which they fail are
named in `AwkwardKinds`; `HtmlDoc` writes a document of a kind only when its
name is in the constant `Awkward`. To reproduce one, put the name into
`MCHtmlDoc.cfg` (`Awkward = {"..."}`); those marked * need `Elements <- AllElements`.

| Kind | What happens | Property |
|---|---|---|
| comment in hidden | a comment counts as an open element without a name (1105-1131) | `VisibleText` |
| hidden void * | `<img style="display:none">` waits for its end tag for ever | `VisibleText` |
| entity outside | an entity is written without asking whether the part is shown (1901) | `VisibleText` |
| article in article | the end of the inner one ends the main part | `VisibleText` |
| deep (`StackCap = 2`) | more elements open than the stack holds are not counted | `VisibleText` |
| icon before main | the text before `main` is dropped, the ranges of its icons are not (1549) | `IconsInPlace` |
| main inside style | the open style and link are dropped with the text (1557) | `StyledAsNested`, `LinksCover` |
| styled void * | the style of `<hr style>` is pushed and never popped | `StyledAsNested` |
| same name * | an end tag ends the style of an outer element of that name | `StyledAsNested` |
| raw inside (`MaxTags = 4`, `MaxWritten = 1`, `MaxGaps = 0`) | `script` and `style` stay on the stack of ancestors (1355) | `StyledAsNested` |
| tight sheet | without a blank after `}` the first character of the next rule is lost (`css_tiny.c:482`, `i = j` and then `i++`) | `SheetAsWritten`, `StyledAsNested` |

Two of them contradict what the repository says of itself: `comment in hidden` (the run
`hidden_comment`) and `tight sheet` (`MCHtmlDocTight.cfg`, see section 3).

`HttpsConn` takes from `HttpResponse` and `Tls13` that a response ends where the decoder stops
and that records arrive in order, unchanged, or not at all.

## 3. Runs

Passing runs:

| Run | Instance | Shows |
|---|---|---|
| `pool` | 4 entries, 6 pixels, 3 slots in the free list | `PoolInv` (blocks in bounds and apart), `TailTrimmed`, `AtMostOneSeam`, `LostOnlyByOverflowOrFailedDecode`, and that the pool implements `PixelStore` |
| `pipeline` | 3 keys, 2 cache slots, 2 workers, 2 pool units, 2 failures | `InflightIffOneJob`, `JobsAreForThisPage`, `GivenUpStays` |
| `pipeline_live` | 2 keys, workers that may die, images that are never decoded | `Settles` |
| `https` | 2 hosts, 2 descriptors, chains of 2 requests, bodies of at most 1 unit, 1 ticket | `SocketsAccounted`, `StaysInSync`, `RightHost`, `JobsEnd` |
| `ui` | ring of 2, counters that wrap at 3 and 4, 2x2 places, 2 sites, editor of 2 characters | `RingIsFifo`, `LatestEventActed`, `BarNamesPage`, `EditorVisible`, `LoopComesRound`, `TypeOK` (the length of the edited text) |
| `response` | 2 digits, numbers that wrap at 4, heads of 23 bytes and at most 2 fields, header lines of 8 and size lines of 5 bytes, 3 bytes of body, a buffer of 2 or none, 1 trailer, both receivers | `StoresTheBody`, `EndsWithMessage`, `RejectsTheUnfit` |
| `tls` | 2 connections, 2 requests on each, 2 records of the server after its Finished | `NonceOnce`, `Agreement`, `ServerAccepts`, `RejectsOnlyTheOdd` |
| `layout` | pages of at most 5 pieces, 2 columns, 2 rows, images of 2 or 3 rows, scrolling by at most 2 | `NothingLost`, `ScrollIsSlice`, `ClickHitsShown` |
| `network` | every string of at most 3 tokens as the start, alone and behind each prefix; 2 typed addresses, 4 targets, 2 exchanges, 1 late answer | `AddressIsOfHost`, `SocketsAccounted`, `BarLeadsBack`, that a navigation implements `PageLoad`, `NavigationEnds` (unless a server keeps one exchange going for ever) |
| `page` | 18 elements, 3 of them in a document, 2 characters, 1 blank or comment, 2 pieces of style sheet, a text buffer of 12 | `VisibleText`, `StyledAsNested`, `LinksCover`, `IconsInPlace`, `SheetAsWritten`, `TypeOK` (ranges within the text) |

Type invariants of the other modules are defined there (`TypeOK`) and can be added
to any configuration.

Why the bounds are enough. `pool`: with three slots in the list one can hold
seams, overflow it and have it swap the last slot into a hole; six pixels leave
room for four neighbours of one pixel and two of two. `pipeline`: three images
compete for two cache slots, so eviction and dropping happen; the pool has room
for two small images or one large one. `https`: two hosts are one to keep and one
to change to; two descriptors let a leak show as a second open one; two requests
in a chain reach the limit; one body unit gives an unread rest. Longer bodies only
repeat the middle. `ui`: two slots overrun after three keys and wrap after four.
The three users of `Leads` are separate initial states: one who types, one who
clicks and one who turns the wheel; their product is beyond TLC, and the loop
looks at the devices one after the other, each with its own counter. That one
user does all three is covered by the theorems of `MainLoopProofs`, all but the
liveness. `response`: three digits
are one too many for the width and may start with a zero; a size line of five bytes
does not fit; a meaningless header line of nine bytes does not fit in its buffer, one
of them beside any other field fits in the head and two do not; two fields are every
pair in both orders (a length beside chunks, a length beside `Connection: close`);
three bytes of body are more than the buffer has, and made of `0`, CR and LF they can
look like the end of a chunked message; up to three bytes (`MaxAhead`: a line's end and one more) are unread when the
server sends more, so that records join the head with the body, and chunks with
each other. `tls`: with one
connection more than the first, keys of the first could come back; the server's
three messages after its hello can be split and packed in all ways, two records
are one before and one after the first request. `layout`: with two columns a word of
five characters is cut twice and a blank falls on every place of a row, two rows
of screen can begin and end inside an image of three. `network`: two tokens are
a host that begins with any of the signs, three a host with a path; two exchanges are one
redirect and the limit; two identifiers are one in use and one given up. `page`: two elements
nested and one beside them, or three nested, with a character in each of two places, meet
every pair of flags; the limits of links, spans and icons are not reached, that of
the text is (a marker with its rows and an icon fill the buffer).

Violations, each a statement of the repository the code does not keep:

| Run | Statement | What happens |
|---|---|---|
| `late_rc` | `browser_img.c:1274` "Transient failure: keep pending so we can retry a few times." | The job is published (1433) before `rc` is cleared (1434): a failure between the two is collected as a success. |
| `hidden_comment` | `html_text.c:1095` "Ignore everything until we close the hidden element(s)." | A comment inside a hidden element counts as an element without a name: the end tag of the hidden one does not match it, and the rest of the page is not shown. |

More of the kind, each with a configuration to be run by hand
(`tlc -config MCHttpsConnRetry.cfg MCHttpsConn` and so on), and each violated:

| Configuration | Statement | What happens |
|---|---|---|
| `MCImgPipelineFork.cfg`, `JobHasWorker` | `browser_img.c:1221` "if fork failed, just leave fewer workers" | Slots without a process get jobs too; those images wait until the next navigation. |
| `MCImgPipelineLarge.cfg`, `LargeEvictsDecoded` | `browser_img.c:1494` "Try to free some space by evicting old decoded entries, similar to worker path." | Entries without pixels are evicted, which frees nothing. |
| `MCHttpsConnRetry.cfg`, `RetriedOnFresh` | `browser_img.c:836` "Retry once with a fresh connection." | A kept connection closed by the server reads as a successful response without a head; no fresh one is tried. |
| `MCHttpResponseLength.cfg`, `LengthParsedOrInvalid` | `http_parse.h:95` "Returns 0 if parsed, -1 if not a Content-Length line or invalid." | The overflow test `nv < v` (29) misses products that wrap past the old value: 30000000000000000000 is read as 11553255926290448384. |
| `MCHttpResponseUnframed.cfg`, `BodyDelivered` | `tls13_client.h:99` "body receives up to body_cap bytes (may be a prefix); the full response body is still drained." | Without chunks and length a kept connection is done at the end of the head: no byte of the body is delivered. |
| `MCHtmlDocTight.cfg`, `HidesAsMeant` | `css_tiny.h:69` "later rules override earlier rules" (and `docs/content.md:210`) | Without white space behind the brace of a rule (596, and then `i++` at 482) the next one loses its first character: in `b{display:inline}.k{display:none}` the second rule is read as one for elements `k`, and a `b` of class `k` is shown. |
| `MCMainLoopPress.cfg`, `NoPressLost` | `docs/click.md:17` a click is recognized on button-down | Press and release between two polls: one new event, and it is a release. |
| `MCPageView.cfg` with `UrlLen = 2`, `ClickHitsShown` | `text_layout.c:39-42` a marker line must not be wrapped, it may contain a payload like a URL | A marker longer than the hit test's `line[256]` (`browser_ui.c:1031`) is several rows there and one on the screen: clicks below it miss by as many rows. |

`MCHtmlDocHides.cfg` is run by hand too, and passes: `HidesAsMeant`, with 8 elements, 5 of them in a
document, and 3 pieces of style sheet that hide and show again, no text. Five elements are a style
sheet, an ancestor a rule names, one beside it that is closed already, and two inside; the three
rules contradict each other and can be written in any order.

Seen on the way, and contradicted by no comment:

- A redirect followed by a failed exchange leaves the redirect's status in the
  status bar over an empty page.
- After the last redirect allowed the bar and the host name the next target, the text
  is the body of the redirect.
- The one-shot request takes an alert for an error (`tls13_client.c:1355`), the kept
  connection for the end of the response (613): a page whose body ends with the
  connection is lost when the server announces the end with a `close_notify`.
- A response cut short by the end of the connection counts as a success in both
  receivers, whatever length it announced.
- A typed host keeps its `:port`, the host of a link loses it; a typed host longer
  than its buffer is cut without a word.

## 4. Fairness

- `ImgPipeline`: weak fairness of the pump's steps and of a quiet turn of the
  loop (the process is scheduled and nothing in the pump blocks), and of each
  worker's start and answer (every network call of a fetch has a timeout, see
  `HttpsConn!JobsEnd`). None for events, navigations, deaths or large decodes.
  `Settles` assumes that the user stops navigating and that not all workers
  are dead.
- `HttpsConn`: weak fairness of the client as a whole: connects, reads and writes
  return. None for the server: it may stay silent for ever. Records that carry no
  response are bounded by `MaxTickets`; a server that sends them without end can
  hold a worker, as nothing in `tls13_client.c:600-617` limits them.
- `MainLoop`: weak fairness of the loop. None for the user.
- `Navigation`: weak fairness of the calls of a navigation taken together: each
  of them returns (an answer of a resolver is awaited for one second, a connection
  for three, and each read and write of an exchange too, `tls13_client.c:1134`, which replaces the
  five seconds of `tcp__set_timeouts`). None for what they return, and none for the
  server, which may be silent or send for ever. The comment at `tls13_client.c:1131`,
  "Avoid hanging forever during bring-up.", holds for the silent one. `NavigationEnds` says so: either the
  navigation ends, or it stays in one exchange for ever and records keep coming. In `MainLoop` a
  navigation, and in `ImgPipeline` a navigation and a fetch, is one step or one fair answer: `LoopComesRound` and
  `Settles` say nothing of a server of that kind.
- `PageView`, `HtmlDoc`, `HttpResponse`, `Tls13` and `PixelPool` state safety only. Documents,
  messages and connections may end anywhere, so that their runs do not check deadlock.

## 5. Proofs

Assumptions are the named `ASSUME`s of the modules, which the runs evaluate; a
theorem that needs more says so. They are weak: sizes are positive, sets the
right subsets, the keys of `ImgPipeline` finitely many (`IsFiniteSet(Key)`: a cache of
1024 entries, and pages of a bounded number of images).

### Loops

Much of the code is loops over data, and the modules write them as folds and
recursive functions. The induction theorems of the library take an operator
as a parameter, which the provers cannot instantiate. `Iteration` does without: it
has the body of the loop as a constant (each user has an instance, such as
`Adding == INSTANCE Iteration WITH op <- AddPiece`), and a property is a *set* of numbers or of
values. From the well-foundedness of `<` it proves that a set of numbers has a least element
(`LeastElement`) and induction over a set (`NatSetInduction`); that a recursive function on `0..n` exists and
keeps what each of its steps keeps (`IterationExists`, `IterationKeeps`); that `FoldLeft` is such a
function over the elements in their order (`FoldIterates`, `FoldEmpty`); and that a fold keeps what one step of it
keeps, for values in a set (`FoldKeeps`) or in a set for each position (`FoldKeepsAlong`).

### ImageProofs, about PixelPool

For every number of entries, capacity of the pool and length of the free list:

- `PoolSafe`: `PoolSpec => []PoolInv`. `LiveApart` alone is not inductive: an
  allocation must know that free ranges are apart from blocks in use, a merge
  that they are apart from one another, the undo of a large decode that nothing
  lies above the restored bump pointer, and each loop of `img_pixel_free` where
  it stands. `PoolInv` is the conjunction of these; during the compaction it
  speaks of the slots that still count (`ActiveSlot`).
- `PoolImplementsStore`: `PoolSpec => StoreSpec`. Alone an allocation and a release
  are not stutters, and both need `PoolInv`.
- `PoolTrimmed`: `PoolSpec => []TailTrimmed`, from `PoolInv`.
- `OneSeamAtMost`: `PoolSpec => []AtMostOneSeam`. The invariant `SeamInv` counts the seams during
  the merge pass and tells those whose pair is still due from those passed. A
  release makes at most three, all due. A merge removes one and may move another to a pair
  that is passed. So of three none is passed, of two at most one, and of four there
  are none; when the pass is over no pair is due. The position of the freed block in
  the list plays no part.
- `LeaksKnown`: `PoolSpec => LostOnlyByOverflowOrFailedDecode`: every pixel of a block in use or in the
  list is in one afterwards, or above the bump pointer.

### ImageProofs, about ImgPipeline

For any images, pages, workers and sizes of cache and pool:

- `OneJobPerEntry` (`InflightIffOneJob`), `NoJobOfAnOldPage` (`JobsAreForThisPage`), both from
  `IInv` (`PipelineInvariant`). It adds what the two need of each other: the list of entries in
  the order of use has each key once and is the set of entries that exist, so that a
  victim is one that is not in flight; each slot has the worker it should; what is in flight
  is of this page. Evictions are loops within a step (`EvictRounds`, `MakeRoom`), and so
  is the look-up of all images of a page; `After(s)` is the set of caches they can lead to.
- `NoImageIsTriedForEver` (`GivenUpStays`), an action property, from the same lemmas.

### HttpsConnProofs

For any hosts, descriptors, chain length, bodies and tickets:

- `SocketsSafe`: `Spec => []SocketsAccounted`, and `RequestsToRightHost`:
  `Spec => []RightHost`, both from `ConnInv`, which adds what each value of `pc`
  knows of the connection (dead while opening, live and to the job's host while
  sending and reading).
- `ResponsesInSync`: `Spec => []StaysInSync`. The invariant `SyncInv` has, while a response is
  awaited, `Arrives`: what is fed, what is unread and what the server has still to send make
  one response between them. While none is awaited, nothing is on its way but what is
  no response. A record is cut anywhere; that cutting does not matter is a property of folds.

### MainLoopProofs

For any ring, sites and editor, users of all devices at once and any lead:

- `BarAlwaysNamesPage` and `EditorAlwaysVisible`, both from one fact about every
  handler (`StepOk`): it leaves the page alone, replaces it as a whole or fails, and
  it paints what it changes of the editor. These hold for any values in the header.
- `Typed`: `Spec => []TypeOK`.
- `KeysInOrder`: `Spec => []RingIsFifo`, from `RingInv`: the keys pushed and not taken lie in the slots
  before the write position, one after another modulo the size of the ring, and a
  writer in the middle of a push has touched no slot of them without `overrun` being
  set. The arithmetic of positions that wrap is a handful of lemmas on `%`.
- `LastEventActed`: `Spec => []LatestEventActed`, for one writer (`Writer = {Viewer}`). With two
  the counters can lose an increment (`inputd/main.c:256`, listed as a hazard), and it is false.
  The invariant `LatestInv` follows the one event in the header from the stores of the writer
  to the reads of the loop.

### Tls13Proofs

For any number of connections, requests and records:

- `NonceNeverTwice`: `Spec => []NonceOnce`. The invariant sorts the history: keys of
  earlier connections, the one record under the handshake key, numbers below the
  current one. A write that fails leaves a stale number, and the invariant then
  holds only because the client leaves the connection for good.
- `SameHandshake` (`Agreement`) and `ServerUnderstands` (`ServerAccepts`), from `AgreeInv`: the
  transcript at each end is a prefix of that of the connection, as far as `pc` and the
  server say, the key that each end uses follows from it, and the records on their way to
  the server are those it will accept, numbered from the one it expects.
- `OnlyTheOddIsRejected` (`RejectsOnlyTheOdd`), from `RejectInv`. `Understood` says that the records on
  their way lead from where the client is to where the server is: `FlowsTo` is that
  relation, one record at a time; a record is a fold over its messages (`TakeMsgs`).

### HttpResponseProofs

For digits of any base, widths, buffers, heads, bodies, extensions and trailers of any size
and records cut anywhere, `TheBodyIsStored` (`StoresTheBody`), `ResponsesEndWithTheirMessage`
(`EndsWithMessage`) and `OnlyTheUnfitIsRejected` (`RejectsTheUnfit`), all from `ResponseInv`.

They have the hypothesis `~LongLengths`: the server announces no length of `Width` (2^64) or
more. Without it they are false, as `MCHttpResponseLength.cfg` shows: the program takes such a
length for another one.

The bytes on their way fix what becomes of the receiver, however they are cut. `Path` is that
sequence of receivers, one more than there are bytes; it is not in the state, so the invariant
says that there is one (`GoodPath`). Each receiver of it agrees with what the server had sent
when it sent that byte (`Good`), and the last one is where the server is (`AtEnd`): between
two lines, in front of a size or of a chunk's data. Hence sending makes the path longer at its end
(`PathGoesOn` with one lemma per action: `StatusGoesOn`, `FieldGoesOn`, `SizeGoesOn`...), and a
record of any number of bytes makes it shorter at its beginning (`FeedIs`, `PathLeft`). The
lemmas per action are the parsers':

- `SizeOfDigits`: shifting back finds every chunk size that does not fit, and only those; `LengthOfDigits`: a
  length below `Width` is read as it is.
- `SizeDecodes`: a size line of digits, extension and end of line leaves the decoder in front of as many
  bytes, or rejecting; the same for the ends of chunks and for trailers.
- `LineRead`, `LineTaken`: the bytes of a line, whatever their number, make what the buffer keeps of it one
  call of `TakeLine`, and only an empty line ends the head (`LineEnds`).
- `EveryFieldSays`: each line of a head says to the parsers of `http_parse.h` and `url.h` what the server
  meant by it, and a line cut off at the buffer's end says nothing.

### PageProofs, about Navigation

For any hosts, strings, redirects and late answers:

- `SocketsNeverLost`: `Spec => []SocketsAccounted`; every way out of every call, one by one.
- `AddressesRight`: `Spec => []AddressIsOfHost`. It needs that a query in flight is of the
  host and type looked for and that no late answer has its identifier (`AddressInv`).
- `NavigationIsLoad`: `Spec => LoadSpec`. `LoadInv` says whose body is in the buffer at each
  point; how strings are parsed does not matter to it.
- `RequestsWellFormed`: `Spec => []WellFormed(url)`, and `BarNamesPlace`: `Spec => []BarLeadsBack`,
  for strings of any length. `PlaceInv`: `url` is a `Place`, a host without a slash and a path
  that begins with one, both within their buffers. Whatever `ApplyLocation` and
  `UserInput` make of a string is a place or nothing, and a place written out by `UrlBar` is
  read as the same place. Both rest on where a scan stops (`BeforeFacts`, `BeforeIs`), which is
  the least element of a set of numbers (`Iteration`). The assumption that what can be typed
  and followed are sequences of strings is part of `NavigationAssumption`.

### PageProofs, about PageView

For any pages, windows, heights of images and buffers, scrolled and clicked in any order while
images arrive:

- `NothingIsLost` (`NothingLost`) and `ScrollShowsSlice` (`ScrollIsSlice`), both from `ViewInv`. Alone neither is
  inductive, because the renderer counts the rows of an image as it goes, and where it begins to
  draw it knows no more than its counter. `ViewInv` says that what has been skipped (`SkipInv`) or drawn
  (`DrawInv`) are the first rows of the page (`PagePart`), and that `box` is no box in front of the text between
  images, and the image and the slice due in front of its reserved rows (`BoxAt`). The end of a page
  shorter than the scroll position is a case of its own.
- `ClickOpensShown`: `MarkersFit /\ ViewSpec => []ClickHitsShown`. `HitInv` adds that the hit test is at the
  start of the same row as the renderer was, which needs that a row is cut at the same
  character into either buffer (`SameRow`). This is so for text, as the window is narrower
  than both, and for a marker only if it fits `line[256]` (`browser_ui.c:1031`). That is the
  hypothesis `MarkersFit`; it holds of the pages of the run, and for pages with a longer address the
  property is false (`UrlLen = 2`, see the table of section 3).

The lemmas underneath:

- `NextRowFacts`: every row of the line breaker begins where the last one ended, is not empty unless at
  the end of a line, has no more than `Cols` characters if it is text, and between its end and the start of the
  next there are only blanks and an end of line.
- `PageFacts` (by a fold over the pieces): each position of the text belongs to one piece and lies in what
  that piece is written as, and the links are in order, apart, and cover their pieces and nothing else.
- `MarkerRowFacts`, `EmptyRowFacts`, `BoxRow`: the marker is one row, each newline under it another, and the
  counter of the renderer and the position in the text say the same slice.
- `RowsUnfold`, `PartSlice`: the rows of a page, defined from their end, and what a walk has gone over, which
  grows at its end, are the same sequence.
- `StartedByIs`, `HrefAtIs`: the binary search over the links returns how many start at a position or before it,
  and the address found is that of the piece there, if it has one.

### HtmlDocProofs

For any elements, style sheets, documents and limits, wherever the document ends:

- `DocTypeOK`: `Spec => []TypeOK`, from `Extracted`. It says `Sound(x)`: no stack is deeper than
  `StackCap`, the ranges of links, spans and inline images are within the text, each
  behind the one before, and an open span or link begins within the text; and `FromDocument`, that a
  character of the text is one the document has written.
- `DocIconsInPlace`: `"icon before main" \notin Awkward => (Spec => []IconsInPlace)`, from `IconsListed`, which
  adds `InPlace`: the ranges are those of the images whose markers are in the text, in the order of the
  document, and no image is missing unless the text or the list was full. The hypothesis is one of the kinds of
  section 2: where an image stands in front of `main`, the text is dropped, the ranges are
  not, and the property is false.

- `DocHidesAsMeant`: `Spec /\ []SheetAsWritten => []HidesAsMeant`, and
- `DocVisibleText`: `Spec /\ []SheetAsWritten => []VisibleText`, under the same hypotheses.

The two theorems on what is hidden and seen leave out the first five kinds of section 2 (those marked
`VisibleText`) and `raw inside`, and ask of the elements and rules what an assumption of `MCHtmlDoc` repeats for the
run: no element without an end tag is raw text, `main` or `article` (the code takes `<main/>` for one); the
style attributes are read as they are meant (`StylesRead`); and no rule is for what stands
inside raw text or inside a row of a table (`SheetsAskForOthers`). Of the sheet it is only asked that
it holds the rules the document states, which is `SheetAsWritten`. The invariant has three parts:

- `Following`: of the elements open the outermost `n` are not hidden; the stack of
  hidden elements has the tags of the others, in their order; the raw text is that of the last element
  open, if it is shown; the flags of `main` and `article` say which of them was seen first and whether the
  innermost element shown is in it (`At`); nothing written so far is in a main part that is
  not begun (`AllEarly`); and the text has what is meant to be seen, each once and in order, and misses at
  most an end of it, if the buffer is full (`Shows`). It is inductive as long as `HidesAsMeant` holds.
- `Rooted`: the ancestors the sheet is asked with are not the elements open, since a raw
  element is never taken off the stack, a row of an infobox is not put there, and the end tag of such a
  row may take an outer one off. `Stands` gives the height of the stack with each of the elements
  open: at the bottom the raw elements, above them the entry of each element in turn, or none for a row.
  Everything but rows is there as long as it is open, and nothing else is. (`raw inside` is what breaks this: the
  raw element would stay above those it was written in, whose end tags then leave them there.)
- `Ruled`: no rule read asks for what the stack has wrong.

With them a rule matches with the stack if and only if it does in the document (`MatchSame`), and the cascade, which applies
the rules in turn, ends with what the last that has a say wants (`ComputeSays`): `HidesAsWritten`.

The proofs go down the extractor, one lemma or two for every operator of `HtmlText`. Most have
one of two forms: `Kept(v, w, cs)` says that `w` has the text of `v` and perhaps more
characters, all of the set `cs`, and the same images; `But(v, w, fs)` that nothing changed but the fields `fs`.
Both compose (`KeptOn`, `ButBoth`), so that a handler is the sum of its calls. The others are `Drew` (an
image and its marker), `Dropped` (`main` drops the text), and what is said of `Finished`, which trims the text and
clamps the ranges. The styles are any; how a sheet is parsed does not matter to
the first two theorems. `ElementAssumption` says that the height of an image in rows is a number, `BlockAssumption` that the rules
a piece of a sheet states are a list.

### What is only model-checked

- The liveness properties (`Settles`, `JobsEnd`, `LoopComesRound`, `NavigationEnds`), which are
  out of the prover's reach.
- `SheetAsWritten`, `StyledAsNested` and `LinksCover` of `HtmlDoc`. They compare the
  extractor's result with a second definition of what a document shows, and hold only but for the
  kinds in `AwkwardKinds`. The first is about what the parser of style sheets reads, character by character,
  of the rules written: an induction over data of any shape. `VisibleText` is proved from it. The others
  are about how what is seen looks, and would need the invariants of `DocVisibleText` and the spans besides.
- `ClickHitsShown` has the hypothesis named above, the theorems about `HttpResponse` have `~LongLengths`, and
  `DocIconsInPlace` the one about images in front of `main`,
  `DocHidesAsMeant` and `DocVisibleText` those just given, with `SheetAsWritten`, and
  `LatestEventActed` has one writer. The other theorems have none beyond the assumptions on constants.

## 6. Not modelled, and the plan

Not modelled: images that float to the right (`browser_ui.c:509-533`, 541-546, 631-690, 773-864,
1033-1045, 1070-1118), whose markers `html_text.c:1774` writes only if it is built with
`HTML_ENABLE_FLOAT_RIGHT`, which is 0 (`html_text.h:70`). Nor the cryptography (fixed arithmetic with published vectors, which
the repository's own tests check), drawing, fonts, image decompression, system
call wrappers, developer tools. Of `html_text.c`: cutting bytes into tags and
attributes, the table of named entities and the glyph of each code point; a
token of the model is what these leave. Of HTTP: the
values that are only copied (status, `Location`, content type and encoding), and the
wording of a request.

Hazards without a property, and why, are in `PROJECT.json`.

Planned:

1. The renderer entry by entry over `ImgPipeline` (`browser_ui.c:931`: an entry may
   be evicted between its look-up and its use), and restarts of the browser under
   a writer in the middle of an event.
2. Proofs: `LinksCover`, on top of `Following`, and `StyledAsNested`, with the cascade of the styles as that
   of `display` (`ComputeSays`).
