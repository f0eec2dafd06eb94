----------------------------- MODULE RedisReplies -----------------------------
(***************************************************************************)
(* Reading replies: library.c for Redis objects, cluster_library.c for     *)
(* RedisCluster.  A reply has no length: each method has a reader of its   *)
(* own, written for the shape its command answers with, and whatever the   *)
(* reader does not consume is read as the answer to the next command.      *)
(*                                                                         *)
(* The stream is a sequence of tokens: an error, a status line, an integer,*)
(* the header of a bulk string and its body, the header of an array.  A    *)
(* header has a count, -1 for nil.  A line whose type byte alone was read  *)
(* is left behind as `text'.  A reader maps the stream to what it leaves   *)
(* and says whether it succeeded; what it returns to PHP is left out.      *)
(***************************************************************************)
EXTENDS Integers, Sequences, SequencesExt

CONSTANT MaxPending   \* bound: commands sent before their replies are read

VARIABLES pending,    \* the exchanges whose reply is still to be read, in order
          wire,       \* the tokens the server sent and nobody has read
          reading,    \* exec() of the pipeline has started on the replies
          culprit     \* the exchange after which the two no longer agreed

vars == <<pending, wire, reading, culprit>>

Tok(t, n) == [t |-> t, n |-> n]
Err == <<Tok("err", 0)>>
Line == <<Tok("line", 0)>>
Num == <<Tok("int", 0)>>
Bulk == <<Tok("bulk", 1), Tok("body", 0)>>
Nil == <<Tok("bulk", -1)>>
NilArr == <<Tok("arr", -1)>>
Arr(els) == <<Tok("arr", Len(els))>> \o FlattenSeq(els)

\* What a reader returns.  With nothing to read it blocks until the timeout;
\* the mark `lost' stays.
Done(s) == [ok |-> TRUE, s |-> s]
Fail(s) == [ok |-> FALSE, s |-> s]
Lost == Tok("lost", 0)
First(s) == IF s = << >> THEN Lost ELSE Head(s)
Rest(s) == IF First(s) = Lost THEN <<Lost>> ELSE Tail(s)

Then(r, Step(_)) == IF r.ok THEN Step(r.s) ELSE r
Times(n, Step(_), s) ==
    FoldLeft(LAMBDA r, i : Then(r, Step), Done(s), [i \in 1..n |-> i])
If(guard, r) == IF guard THEN r ELSE Fail(r.s)

----------------------------------------------------------------------------
(* The primitives.                                                         *)

redis_sock_gets(s) == [ok |-> First(s) # Lost, t |-> First(s).t, n |-> First(s).n, s |-> Rest(s)]

\* Of an error or a status line only the type byte is taken.
redis_read_reply_type(s) ==
    LET h == redis_sock_gets(s) IN
    IF h.t \in {"err", "line", "body", "text"} THEN [h EXCEPT !.s = <<Tok("text", 0)>> \o @] ELSE h

redis_sock_read_bulk_reply(s, n) == IF n = -1 THEN Fail(s) ELSE If(First(s) # Lost, Done(Rest(s)))

\* One value.  The header of an array is a value too; its elements stay.
redis_sock_read(s) ==
    LET h == redis_sock_gets(s) IN
    CASE h.t = "bulk" -> redis_sock_read_bulk_reply(h.s, h.n)
      [] h.t \in {"line", "int"} \/ (h.t = "arr" /\ h.n # -1) -> Done(h.s)
      [] OTHER -> Fail(h.s)

read_mbulk_header(s) == LET h == redis_sock_gets(s) IN [h EXCEPT !.ok = h.t = "arr"]

\* Values that cannot be read become FALSE and the loop goes on.
Tolerant(Step(_), s) == Done(Step(s).s)
ReadAny(s) == Tolerant(redis_sock_read, s)
redis_mbulk_reply_loop(s, n) == Times(n, ReadAny, s)

redis_sock_read_multibulk_reply(s) ==
    LET h == read_mbulk_header(s) IN IF h.ok THEN redis_mbulk_reply_loop(h.s, h.n) ELSE Fail(h.s)
redis_mbulk_reply_raw(s) == redis_sock_read_multibulk_reply(s)
redis_mbulk_reply_double(s) == redis_sock_read_multibulk_reply(s)
redis_mbulk_reply_assoc(s) == redis_sock_read_multibulk_reply(s)
redis_mbulk_reply_zipped(s) == redis_sock_read_multibulk_reply(s)

RECURSIVE redis_read_multibulk_recursive(_, _)
redis_read_multibulk_recursive(s, n) ==
    IF n <= 0 THEN Done(s)
    ELSE LET h == redis_read_reply_type(s) IN
         CASE ~h.ok -> Fail(h.s)
           [] h.t \in {"err", "line"} -> redis_read_multibulk_recursive(redis_sock_gets(h.s).s, n - 1)
           [] h.t = "bulk" ->
                redis_read_multibulk_recursive(redis_sock_read_bulk_reply(h.s, h.n).s, n - 1)
           [] h.t = "arr" ->
                redis_read_multibulk_recursive(redis_read_multibulk_recursive(h.s, h.n).s, n - 1)
           [] OTHER -> redis_read_multibulk_recursive(h.s, n - 1)

variant_reply_generic(s) ==
    LET h == redis_read_reply_type(s) IN
    CASE ~h.ok \/ h.t \in {"body", "text"} -> Fail(h.s)
      [] OTHER -> Done(redis_read_multibulk_recursive(s, 1).s)

----------------------------------------------------------------------------
(* Single values.                                                          *)

redis_string_response(s) == redis_sock_read(s)
redis_ping_response(s) == redis_sock_read(s)
redis_bulk_double_response(s) == redis_sock_read(s)
redis_type_response(s) == redis_sock_read(s)
redis_info_response(s) == redis_sock_read(s)
redis_client_info_reply(s) == redis_sock_read(s)
redis_client_list_reply(s) == redis_sock_read(s)
redis_long_response(s) == If(First(s).t = "int", redis_sock_read(s))
redis_boolean_response_impl(s) == If(First(s).t = "line", redis_sock_read(s))
redis_1_response(s) == redis_sock_read(s)

----------------------------------------------------------------------------
(* Replies of a structure of their own.  The arguments after the stream are *)
(* those of a header already read.                                         *)

redis_read_lpos_response(s, t, n, count) ==
    IF ~count THEN If(t \in {"int", "bulk"}, Done(s))
    ELSE IF t # "arr" THEN Fail(s)
    ELSE Times(n, LAMBDA x : LET h == redis_sock_gets(x) IN If(h.ok, Done(h.s)), s)

\* A key, then its elements; ZMPOP's are pairs.
PoppedPair(s) ==
    LET h == read_mbulk_header(s) IN
    IF h.ok /\ h.n = 2 THEN redis_mbulk_reply_loop(h.s, 2) ELSE Fail(h.s)
redis_read_mpop_response(s, n, zset) ==
    IF n < 0 THEN Done(s)
    ELSE Then(redis_sock_read(s),
              LAMBDA x : LET h == read_mbulk_header(x) IN
                  IF ~h.ok \/ h.n < 0 THEN Fail(h.s)
                  ELSE IF zset THEN Times(h.n, PoppedPair, h.s)
                  ELSE redis_mbulk_reply_loop(h.s, h.n))

redis_read_geosearch_response(s, n, aux) ==
    IF aux THEN Done(redis_read_multibulk_recursive(s, n).s) ELSE redis_mbulk_reply_loop(s, n)

\* A message is an id and an even number of fields, or no fields at all.
\* A mistake to catch: the nil in place of the fields is taken for odd.
Fields_nil_rejected(s) ==
    LET h == read_mbulk_header(s) IN
    IF ~h.ok \/ h.n % 2 # 0 THEN Fail(h.s) ELSE redis_mbulk_reply_loop(h.s, h.n)
Fields(s) ==
    LET h == read_mbulk_header(s) IN
    IF ~h.ok \/ (h.n > 0 /\ h.n % 2 # 0) THEN Fail(h.s) ELSE redis_mbulk_reply_loop(h.s, h.n)
Message(s) ==
    LET h == read_mbulk_header(s) IN
    IF ~h.ok \/ h.n # 2 THEN Fail(h.s) ELSE Then(redis_sock_read(h.s), Fields)
redis_read_stream_messages(s, n) == Times(n, Message, s)
Stream(s) ==
    LET h == read_mbulk_header(s) IN
    IF ~h.ok \/ h.n # 2 THEN Fail(h.s)
    ELSE Then(redis_sock_read(h.s),
              LAMBDA x : LET m == read_mbulk_header(x) IN
                  IF m.ok THEN redis_read_stream_messages(m.s, m.n) ELSE Fail(m.s))
redis_read_stream_messages_multi(s, n) == Times(n, Stream, s)

\* A claimed message is an id, when JUSTID was asked for, or a message; a nil
\* in its place abandons the others.
Claimed(s) ==
    LET h == redis_read_reply_type(s) IN
    CASE h.t = "bulk" /\ h.n > 0 -> redis_sock_read_bulk_reply(h.s, h.n)
      [] h.t = "arr" /\ h.n = 2 -> Then(redis_sock_read(h.s), Fields)
      [] OTHER -> Fail(h.s)
redis_read_xclaim_ids(s, n) == Times(n, Claimed, s)

\* XAUTOCLAIM: the next id, the messages, the ids that are gone; the first
\* header is only asserted to be 3.
redis_read_xclaim_reply(s, n, is_xautoclaim) ==
    IF ~is_xautoclaim THEN redis_read_xclaim_ids(s, n)
    ELSE LET h == redis_read_reply_type(s) IN
         IF h.t # "bulk" THEN Fail(h.s)
         ELSE Then(Then(redis_sock_read_bulk_reply(h.s, h.n),
                        LAMBDA x : LET m == read_mbulk_header(x) IN
                            IF m.ok THEN redis_read_xclaim_ids(m.s, m.n) ELSE Fail(m.s)),
                   redis_sock_read_multibulk_reply)

\* Keys and values of any depth, but no status lines, and no nil for a key.
RECURSIVE redis_read_xinfo_response(_, _, _)
redis_read_xinfo_response(s, n, key) ==
    IF n <= 0 THEN Done(s)
    ELSE LET h == redis_read_reply_type(s) IN
         CASE h.t = "bulk" /\ h.n = -1 /\ ~key -> Fail(h.s)
           [] h.t = "bulk" /\ (h.n # -1 \/ key) ->
                  redis_read_xinfo_response(redis_sock_read_bulk_reply(h.s, h.n).s, n - 1, ~key)
           [] h.t = "int" -> redis_read_xinfo_response(h.s, n - 1, ~key)
           [] h.t = "arr" -> Then(redis_read_xinfo_response(h.s, h.n, FALSE),
                                  LAMBDA x : redis_read_xinfo_response(x, n - 1, FALSE))
           [] OTHER -> Fail(h.s)

\* A log entry: names with values that are strings or integers.
redis_mbulk_reply_zipped_raw_variant(s, n) ==
    Times((n + 1) \div 2,
          LAMBDA x : Then(redis_sock_read(x), LAMBDA y :
              LET h == redis_read_reply_type(y) IN
              IF h.t = "bulk" THEN redis_sock_read_bulk_reply(h.s, h.n) ELSE If(h.ok, Done(h.s))),
          s)
LogEntry(s) ==
    LET h == read_mbulk_header(s) IN
    IF ~h.ok \/ h.n % 2 # 0 THEN Fail(h.s) ELSE redis_mbulk_reply_zipped_raw_variant(h.s, h.n)
redis_read_acl_log_reply(s, n) == Times(n, LogEntry, s)

\* A user: names with strings or flat lists.
redis_read_acl_getuser_reply(s, n) ==
    Times((n + 1) \div 2,
          LAMBDA x : Then(redis_sock_read(x), LAMBDA y :
              LET h == redis_read_reply_type(y) IN
              CASE h.t = "bulk" -> redis_sock_read_bulk_reply(h.s, h.n)
                [] h.t = "arr" -> redis_mbulk_reply_loop(h.s, h.n)
                [] OTHER -> Fail(h.s)),
          s)
\* An error has lost its first byte only.
redis_acl_custom_reply(s, Cb(_, _)) ==
    LET h == redis_read_reply_type(s) IN IF h.t = "arr" THEN Cb(h.s, h.n) ELSE Fail(h.s)

redis_sock_read_scan_reply(s) ==
    LET h == redis_read_reply_type(s) IN
    IF h.t = "err" THEN Fail(redis_sock_gets(h.s).s)
    ELSE IF h.t # "arr" \/ h.n # 2 THEN Fail(h.s)
    ELSE LET c == redis_read_reply_type(h.s) IN
         IF c.t # "bulk" THEN Fail(c.s)
         ELSE Then(redis_sock_read_bulk_reply(c.s, c.n), redis_sock_read_multibulk_reply)

\* A reader that starts with the header of an array.
Headed(s, Body(_, _)) ==
    LET h == read_mbulk_header(s) IN IF h.ok THEN Body(h.s, h.n) ELSE Fail(h.s)
redis_geosearch_response(s, aux) == Headed(s, LAMBDA x, n : redis_read_geosearch_response(x, n, aux))
redis_mpop_response(s, zset) == Headed(s, LAMBDA x, n : redis_read_mpop_response(x, n, zset))
redis_command_info_reply(s) == Headed(s, redis_read_multibulk_recursive)
redis_function_reply(s) == Headed(s, redis_read_multibulk_recursive)
redis_client_trackinginfo_reply(s) == Headed(s, redis_read_multibulk_recursive)
redis_xrange_reply(s) == Headed(s, redis_read_stream_messages)
redis_xread_reply(s) == Headed(s, redis_read_stream_messages_multi)
redis_xclaim_reply(s, auto) == Headed(s, LAMBDA x, n : redis_read_xclaim_reply(x, n, auto))
redis_xinfo_reply(s) == Headed(s, LAMBDA x, n : redis_read_xinfo_response(x, n, FALSE))
redis_lpos_response(s, count) ==
    LET h == redis_sock_gets(s) IN
    IF h.ok THEN redis_read_lpos_response(h.s, h.t, h.n, count) ELSE Fail(h.s)

----------------------------------------------------------------------------
(* RedisCluster.  cluster_check_response() has read the first line before a *)
(* reader sees the reply: h is its type, its count and what follows.  Of an *)
(* error nothing follows, and the count is 0.                              *)

cluster_check_response(s) ==
    LET h == redis_sock_gets(s) IN [h EXCEPT !.n = IF h.t = "err" THEN 0 ELSE @]

cluster_bulk_resp(h) == IF h.t = "bulk" THEN redis_sock_read_bulk_reply(h.s, h.n) ELSE Fail(h.s)
cluster_bulk_raw_resp(h) == cluster_bulk_resp(h)
cluster_dbl_resp(h) == cluster_bulk_resp(h)
cluster_line_resp(h) == If(h.t = "line", Done(h.s))
cluster_bool_resp(h) == cluster_line_resp(h)
cluster_ping_resp(h) == cluster_line_resp(h)
cluster_type_resp(h) == cluster_line_resp(h)
cluster_long_resp(h) == If(h.t = "int", Done(h.s))
cluster_1_resp(h) == cluster_long_resp(h)

\* These two take the count for that of a bulk string whatever the type.
cluster_info_resp(h) == redis_sock_read_bulk_reply(h.s, h.n)
cluster_client_list_resp(h) == redis_sock_read_bulk_reply(h.s, h.n)

RECURSIVE cluster_multibulk_resp_recursive(_, _)
cluster_multibulk_resp_recursive(s, n) ==
    IF n <= 0 THEN Done(s)
    ELSE LET h == redis_read_reply_type(s)
             More(x) == cluster_multibulk_resp_recursive(x, n - 1)
         IN  CASE h.t \in {"err", "line"} -> More(redis_sock_gets(h.s).s)
               [] h.t = "int" \/ (h.t = "bulk" /\ h.n < 0) -> More(h.s)
               [] h.t = "bulk" /\ h.n >= 0 -> Then(redis_sock_read_bulk_reply(h.s, h.n), More)
               [] h.t = "arr" -> Then(cluster_multibulk_resp_recursive(h.s, h.n), More)
               [] OTHER -> Fail(h.s)
cluster_read_sock_resp(h) ==
    CASE h.t \in {"int", "line", "err"} -> Done(h.s)
      [] h.t = "bulk" -> Done(redis_sock_read_bulk_reply(h.s, h.n).s)
      [] h.t = "arr" -> cluster_multibulk_resp_recursive(h.s, h.n)
      [] OTHER -> Fail(h.s)
cluster_variant_resp_generic(h) == cluster_read_sock_resp(h)

\* The loops over an array differ in what a nil does.
mbulk_resp_loop(s, n) == redis_mbulk_reply_loop(s, n)
mbulk_resp_loop_dbl(s, n) == redis_mbulk_reply_loop(s, n)
mbulk_resp_loop_assoc(s, n) == redis_mbulk_reply_loop(s, n)
mbulk_resp_loop_raw(s, n) == Times(n, redis_sock_read, s)
mbulk_resp_loop_zipstr(s, n) == IF n % 2 # 0 THEN Fail(s) ELSE Times(n, redis_sock_read, s)
mbulk_resp_loop_zipdbl(s, n) == IF n % 2 # 0 THEN Fail(s) ELSE redis_mbulk_reply_loop(s, n)

cluster_gen_mbulk_resp(h, Loop(_, _)) ==
    IF h.t # "arr" \/ h.n < -1 THEN Fail(h.s)
    ELSE IF h.n > 0 THEN Loop(h.s, h.n) ELSE Done(h.s)
cluster_mbulk_resp(h) == cluster_gen_mbulk_resp(h, mbulk_resp_loop)
cluster_mbulk_raw_resp(h) == cluster_gen_mbulk_resp(h, mbulk_resp_loop_raw)
cluster_mbulk_zipstr_resp(h) == cluster_gen_mbulk_resp(h, mbulk_resp_loop_zipstr)
cluster_mbulk_zipdbl_resp(h) == cluster_gen_mbulk_resp(h, mbulk_resp_loop_zipdbl)
cluster_mbulk_dbl_resp(h) == cluster_gen_mbulk_resp(h, mbulk_resp_loop_dbl)
cluster_mbulk_assoc_resp(h) == cluster_gen_mbulk_resp(h, mbulk_resp_loop_assoc)

\* The part of MGET, MSET, MSETNX, DEL or UNLINK that was sent to one slot.
cluster_mbulk_mget_resp(h) ==
    IF h.t # "arr" \/ h.n = -1 THEN Fail(h.s) ELSE mbulk_resp_loop(h.s, h.n)
cluster_mset_resp(h) == cluster_line_resp(h)
cluster_msetnx_resp(h) == cluster_long_resp(h)
cluster_del_resp(h) == cluster_long_resp(h)

cluster_scan_resp(h, type) ==
    IF h.t # "arr" \/ h.n # 2 THEN Fail(h.s)
    ELSE LET c == cluster_check_response(h.s) IN
         IF c.t # "bulk" THEN Fail(c.s)
         ELSE Then(redis_sock_read_bulk_reply(c.s, c.n),
                   LAMBDA x : LET m == cluster_check_response(x) IN
                       CASE type = "scan" -> cluster_mbulk_raw_resp(m)
                         [] type = "sscan" -> cluster_mbulk_resp(m)
                         [] type = "hscan" -> cluster_mbulk_zipstr_resp(m)
                         [] type = "zscan" -> cluster_mbulk_zipdbl_resp(m))

cluster_lpos_resp(h, count) == redis_read_lpos_response(h.s, h.t, h.n, count)
cluster_geosearch_resp(h, aux) ==
    IF h.t = "arr" THEN redis_read_geosearch_response(h.s, h.n, aux) ELSE Fail(h.s)
cluster_mpop_resp(h, zset) == redis_read_mpop_response(h.s, h.n, zset)
cluster_xrange_resp(h) == redis_read_stream_messages(h.s, h.n)
cluster_xread_resp(h) == redis_read_stream_messages_multi(h.s, h.n)
cluster_xclaim_resp(h, auto) == redis_read_xclaim_reply(h.s, h.n, auto)
cluster_xinfo_resp(h) == redis_read_xinfo_response(h.s, h.n, FALSE)
cluster_acl_custom_resp(h, Cb(_, _)) == Cb(h.s, h.n)

----------------------------------------------------------------------------
(* The methods.  `form' is what the builder left in ctx: the form of reply  *)
(* the arguments asked for.                                                *)

\* Readers that ctx chooses between.
redis_srandmember_response(s, form) ==
    IF form = "count" THEN redis_sock_read_multibulk_reply(s) ELSE redis_string_response(s)
redis_pop_response(s, form) == redis_srandmember_response(s, form)
redis_zrandmember_response(s, form) ==
    CASE form = "one" -> redis_string_response(s)
      [] form = "count" -> redis_mbulk_reply_raw(s)
      [] form = "with" -> redis_mbulk_reply_zipped(s)
redis_hrandfield_response(s, form) == redis_zrandmember_response(s, form)
redis_zdiff_response(s, form) ==
    IF form = "with" THEN redis_mbulk_reply_zipped(s) ELSE redis_mbulk_reply_raw(s)
redis_zrange_response(s, form) == redis_zdiff_response(s, form)
redis_zadd_response(s, form) ==
    IF form = "incr" THEN redis_bulk_double_response(s) ELSE redis_long_response(s)
redis_set_response(s, form) ==
    IF form = "get" THEN redis_string_response(s) ELSE redis_boolean_response_impl(s)
redis_object_response(s, form) ==
    IF form = "refcount" THEN redis_long_response(s) ELSE redis_string_response(s)
redis_config_response(s, form) ==
    IF form = "get" THEN redis_mbulk_reply_zipped(s) ELSE redis_boolean_response_impl(s)
redis_pubsub_response(s, form) ==
    CASE form = "numpat" -> redis_long_response(s)
      [] form = "channels" -> variant_reply_generic(s)
      [] form = "numsub" -> redis_mbulk_reply_zipped(s)
redis_client_response(s, form) ==
    CASE form = "info" -> redis_client_info_reply(s)
      [] form = "list" -> redis_client_list_reply(s)
      [] form = "ok" -> redis_boolean_response_impl(s)
      [] form = "id" -> redis_long_response(s)
      [] form = "getname" -> redis_string_response(s)
      [] form = "trackinginfo" -> redis_client_trackinginfo_reply(s)
redis_function_response(s, form) ==
    CASE form = "ok" -> redis_boolean_response_impl(s)
      [] form = "dump" -> redis_string_response(s)
      [] form = "list" -> redis_function_reply(s)
\* GETKEYSANDFLAGS has a form of its own which the reader does not know.
redis_command_response(s, form) ==
    CASE form = "info" -> redis_command_info_reply(s)
      [] form = "count" -> redis_long_response(s)
      [] form = "getkeys" -> redis_mbulk_reply_raw(s)
      [] form = "getkeysandflags" -> Fail(s)
redis_acl_response(s, form) ==
    CASE form = "list" -> variant_reply_generic(s)
      [] form = "load" -> redis_boolean_response_impl(s)
      [] form = "whoami" -> redis_string_response(s)
      [] form = "deluser" -> redis_long_response(s)
      [] form = "getuser" -> redis_acl_custom_reply(s, redis_read_acl_getuser_reply)
      [] form = "log" -> redis_acl_custom_reply(s, redis_read_acl_log_reply)

cluster_pop_resp(h, form) == IF form = "count" THEN cluster_mbulk_resp(h) ELSE cluster_bulk_resp(h)
cluster_srandmember_resp(h, form) == cluster_pop_resp(h, form)
cluster_zrandmember_resp(h, form) ==
    CASE form = "one" -> cluster_bulk_resp(h)
      [] form = "count" -> cluster_mbulk_raw_resp(h)
      [] form = "with" -> cluster_mbulk_zipdbl_resp(h)
cluster_hrandfield_resp(h, form) == cluster_zrandmember_resp(h, form)
cluster_zdiff_resp(h, form) ==
    IF form = "with" THEN cluster_mbulk_zipdbl_resp(h) ELSE cluster_mbulk_raw_resp(h)
cluster_zrange_resp(h, form) ==
    IF form = "with" THEN cluster_mbulk_zipdbl_resp(h) ELSE cluster_mbulk_resp(h)
cluster_zadd_resp(h, form) == IF form = "incr" THEN cluster_dbl_resp(h) ELSE cluster_long_resp(h)
cluster_set_resp(h, form) == IF form = "get" THEN cluster_bulk_resp(h) ELSE cluster_bool_resp(h)
cluster_object_resp(h, form) ==
    IF form = "refcount" THEN cluster_long_resp(h) ELSE cluster_bulk_resp(h)

RedisReader(fn, form, s) ==
    CASE fn = "get" -> redis_string_response(s)
      [] fn = "randomkey" -> redis_ping_response(s)
      [] fn = "del" -> redis_long_response(s)
      [] fn = "setnx" -> redis_1_response(s)
      [] fn = "rename" -> redis_boolean_response_impl(s)
      [] fn = "zscore" -> redis_bulk_double_response(s)
      [] fn = "type" -> redis_type_response(s)
      [] fn = "info" -> redis_info_response(s)
      [] fn = "lrange" -> redis_sock_read_multibulk_reply(s)
      [] fn = "hgetall" -> redis_mbulk_reply_zipped(s)
      [] fn = "hmget" -> redis_mbulk_reply_assoc(s)
      [] fn = "zmscore" -> redis_mbulk_reply_double(s)
      [] fn = "geohash" -> redis_mbulk_reply_raw(s)
      [] fn = "eval" -> variant_reply_generic(s)
      [] fn = "srandmember" -> redis_srandmember_response(s, form)
      [] fn = "lpop" -> redis_pop_response(s, form)
      [] fn = "zrandmember" -> redis_zrandmember_response(s, form)
      [] fn = "hrandfield" -> redis_hrandfield_response(s, form)
      [] fn = "zdiff" -> redis_zdiff_response(s, form)
      [] fn = "zrange" -> redis_zrange_response(s, form)
      [] fn = "zadd" -> redis_zadd_response(s, form)
      [] fn = "set" -> redis_set_response(s, form)
      [] fn = "object" -> redis_object_response(s, form)
      [] fn = "config" -> redis_config_response(s, form)
      [] fn = "pubsub" -> redis_pubsub_response(s, form)
      [] fn = "client" -> redis_client_response(s, form)
      [] fn = "function" -> redis_function_response(s, form)
      [] fn = "command" -> redis_command_response(s, form)
      [] fn = "acl" -> redis_acl_response(s, form)
      [] fn = "lpos" -> redis_lpos_response(s, form = "count")
      [] fn = "mpop" -> redis_mpop_response(s, form = "zset")
      [] fn = "geosearch" -> redis_geosearch_response(s, form = "with")
      [] fn = "xrange" -> redis_xrange_reply(s)
      [] fn = "xread" -> redis_xread_reply(s)
      [] fn = "xclaim" -> redis_xclaim_reply(s, FALSE)
      [] fn = "xautoclaim" -> redis_xclaim_reply(s, TRUE)
      [] fn = "xinfo" -> redis_xinfo_reply(s)
      [] fn = "scan" -> redis_sock_read_scan_reply(s)

ClusterReader(fn, form, h) ==
    CASE fn = "get" -> cluster_bulk_resp(h)
      [] fn = "xadd" -> cluster_bulk_raw_resp(h)
      [] fn = "ping" -> cluster_ping_resp(h)
      [] fn = "mget" -> cluster_mbulk_mget_resp(h)
      [] fn = "mset" -> cluster_mset_resp(h)
      [] fn = "msetnx" -> cluster_msetnx_resp(h)
      [] fn = "unlink" -> cluster_del_resp(h)
      [] fn = "del" -> cluster_long_resp(h)
      [] fn = "setnx" -> cluster_1_resp(h)
      [] fn = "rename" -> cluster_bool_resp(h)
      [] fn = "zscore" -> cluster_dbl_resp(h)
      [] fn = "type" -> cluster_type_resp(h)
      [] fn = "info" -> cluster_info_resp(h)
      [] fn = "client" -> cluster_client_list_resp(h)
      [] fn = "lrange" -> cluster_mbulk_resp(h)
      [] fn = "hgetall" -> cluster_mbulk_zipstr_resp(h)
      [] fn = "hmget" -> cluster_mbulk_assoc_resp(h)
      [] fn = "zmscore" -> cluster_mbulk_dbl_resp(h)
      [] fn = "geohash" -> cluster_mbulk_raw_resp(h)
      [] fn \in {"eval", "command"} -> cluster_variant_resp_generic(h)
      [] fn = "srandmember" -> cluster_srandmember_resp(h, form)
      [] fn = "lpop" -> cluster_pop_resp(h, form)
      [] fn = "zrandmember" -> cluster_zrandmember_resp(h, form)
      [] fn = "hrandfield" -> cluster_hrandfield_resp(h, form)
      [] fn = "zdiff" -> cluster_zdiff_resp(h, form)
      [] fn = "zrange" -> cluster_zrange_resp(h, form)
      [] fn = "zadd" -> cluster_zadd_resp(h, form)
      [] fn = "set" -> cluster_set_resp(h, form)
      [] fn = "object" -> cluster_object_resp(h, form)
      [] fn = "acl" -> CASE form = "getuser" -> cluster_acl_custom_resp(h, redis_read_acl_getuser_reply)
                         [] form = "log" -> cluster_acl_custom_resp(h, redis_read_acl_log_reply)
                         [] OTHER -> cluster_variant_resp_generic(h)
      [] fn = "lpos" -> cluster_lpos_resp(h, form = "count")
      [] fn = "mpop" -> cluster_mpop_resp(h, form = "zset")
      [] fn = "geosearch" -> cluster_geosearch_resp(h, form = "with")
      [] fn = "xrange" -> cluster_xrange_resp(h)
      [] fn = "xread" -> cluster_xread_resp(h)
      [] fn = "xclaim" -> cluster_xclaim_resp(h, FALSE)
      [] fn = "xautoclaim" -> cluster_xclaim_resp(h, TRUE)
      [] fn = "xinfo" -> cluster_xinfo_resp(h)
      [] fn = "scan" -> cluster_scan_resp(h, form)

\* Outside MULTI a method of RedisCluster returns FALSE on an error and does not
\* call its reader, except those that name the node (cluster_send_slot()):
\* INFO and CLIENT then want a bulk string and fail before it, ACL does not.
Read(x, s) ==
    IF x.via = "redis" THEN RedisReader(x.fn, x.form, s)
    ELSE LET h == cluster_check_response(s) IN
         IF ~h.ok \/ (x.via = "cluster" /\ h.t = "err" /\ x.fn # "acl") THEN Fail(h.s)
         ELSE ClusterReader(x.fn, x.form, h)

----------------------------------------------------------------------------
(* What the server answers with, for each form of each command.            *)

Answer(fns, form, replies) ==
    {[fn |-> f, form |-> form, reply |-> r] : f \in fns, r \in replies \cup {Err}}

Pair == Arr(<<Bulk, Bulk>>)
Entry == Arr(<<Bulk, Pair>>)
Deleted == Arr(<<Bulk, NilArr>>)
Nested == Arr(<<Bulk, Arr(<<Line, Num>>), Nil>>)
Flat == {Arr(<< >>), Pair}
Sparse == Arr(<<Nil, Bulk>>)
User == Arr(<<Bulk, Arr(<<Bulk>>), Bulk, Bulk>>)
Selectors == Arr(<<Bulk, Arr(<<Arr(<<Bulk, Bulk>>)>>)>>)
Help == Arr(<<Line, Line>>)
Claims == {Arr(<<Entry, Entry>>), Arr(<<Bulk, Bulk>>), Arr(<<Nil, Entry>>)}

Common ==
    Answer({"get", "zscore"}, "", {Bulk, Nil}) \cup Answer({"del", "setnx"}, "", {Num}) \cup
    Answer({"rename", "type"}, "", {Line}) \cup Answer({"info"}, "", {Bulk}) \cup
    Answer({"lrange"}, "", Flat \cup {NilArr, Sparse}) \cup Answer({"hgetall"}, "", Flat) \cup
    Answer({"hmget", "zmscore", "geohash"}, "", {Sparse}) \cup
    Answer({"eval"}, "", {Nil, Num, Line, Bulk, Arr(<<Nested, Err, Nil>>)}) \cup
    Answer({"srandmember", "lpop", "zrandmember", "hrandfield"}, "one", {Bulk, Nil}) \cup
    Answer({"srandmember", "lpop", "zrandmember", "hrandfield"}, "count", Flat) \cup
    Answer({"zrandmember", "hrandfield", "zdiff", "zrange"}, "with", Flat) \cup
    Answer({"zdiff", "zrange"}, "", Flat) \cup Answer({"zadd"}, "", {Num}) \cup
    Answer({"zadd"}, "incr", {Bulk, Nil}) \cup Answer({"set"}, "", {Line, Nil}) \cup
    Answer({"set"}, "get", {Bulk, Nil}) \cup Answer({"object"}, "refcount", {Num, Nil}) \cup
    Answer({"object"}, "", {Bulk, Nil}) \cup Answer({"client"}, "list", {Bulk}) \cup
    Answer({"acl"}, "list", Flat) \cup Answer({"acl"}, "getuser", {User, Nil, Selectors}) \cup
    Answer({"acl"}, "log", {Arr(<< >>), Arr(<<Arr(<<Bulk, Num, Bulk, Bulk>>)>>)}) \cup
    Answer({"lpos"}, "", {Num, Nil}) \cup Answer({"lpos"}, "count", {Arr(<< >>), Arr(<<Num, Num>>)}) \cup
    Answer({"mpop"}, "", {NilArr, Arr(<<Bulk, Pair>>)}) \cup
    Answer({"mpop"}, "zset", {NilArr, Arr(<<Bulk, Arr(<<Pair, Pair>>)>>)}) \cup
    Answer({"geosearch"}, "", Flat) \cup
    Answer({"geosearch"}, "with", {Arr(<<Arr(<<Bulk, Num, Pair>>), Arr(<<Bulk, Num, Pair>>)>>)}) \cup
    Answer({"xrange"}, "", {Arr(<<Entry, Entry>>), Arr(<<Deleted, Entry>>)}) \cup
    Answer({"xread"}, "", {NilArr, Arr(<<Arr(<<Bulk, Arr(<<Entry, Deleted>>)>>)>>)}) \cup
    Answer({"xclaim"}, "", Claims) \cup
    Answer({"xautoclaim"}, "", {Arr(<<Bulk, c, Arr(<< >>)>>) : c \in Claims \ {Arr(<<Nil, Entry>>)}}) \cup
    Answer({"xautoclaim"}, "6.2", {Arr(<<Bulk, c>>) : c \in Claims}) \cup
    Answer({"xinfo"}, "", {Arr(<<Bulk, Num, Bulk, Arr(<<Entry>>)>>), Arr(<<Arr(<<Bulk, Nil>>)>>)}) \cup
    Answer({"xinfo"}, "help", {Help})
OfRedis ==
    Answer({"randomkey"}, "", {Bulk, Nil}) \cup Answer({"config"}, "get", {Pair}) \cup
    Answer({"config"}, "set", {Line}) \cup Answer({"pubsub"}, "numpat", {Num}) \cup
    Answer({"pubsub"}, "channels", Flat) \cup Answer({"pubsub"}, "numsub", {Arr(<<Bulk, Num>>)}) \cup
    Answer({"client"}, "info", {Bulk}) \cup Answer({"client", "function"}, "ok", {Line}) \cup
    Answer({"client"}, "id", {Num}) \cup Answer({"client"}, "getname", {Bulk, Nil}) \cup
    Answer({"client"}, "trackinginfo", {Nested}) \cup Answer({"function"}, "dump", {Bulk}) \cup
    Answer({"function"}, "list", {Nested}) \cup Answer({"command"}, "info", {Nested}) \cup
    Answer({"command"}, "count", {Num}) \cup Answer({"command"}, "getkeys", Flat) \cup
    Answer({"command"}, "getkeysandflags", {Arr(<<Arr(<<Bulk, Arr(<<Line>>)>>)>>)}) \cup
    Answer({"acl"}, "load", {Line}) \cup Answer({"acl"}, "whoami", {Bulk}) \cup
    Answer({"acl"}, "deluser", {Num}) \cup Answer({"scan"}, "", {Arr(<<Bulk, f>>) : f \in Flat})
OfCluster ==
    Answer({"xadd"}, "", {Bulk, Nil}) \cup Answer({"ping", "mset"}, "", {Line}) \cup
    Answer({"mget"}, "", {Sparse, Pair}) \cup Answer({"msetnx", "unlink"}, "", {Num}) \cup
    Answer({"command"}, "", {Nested, Num}) \cup
    Answer({"scan"}, "scan", {Arr(<<Bulk, f>>) : f \in Flat}) \cup
    Answer({"scan"}, "sscan", {Arr(<<Bulk, f>>) : f \in Flat}) \cup
    Answer({"scan"}, "hscan", {Arr(<<Bulk, f>>) : f \in Flat}) \cup
    Answer({"scan"}, "zscan", {Arr(<<Bulk, f>>) : f \in Flat})

\* RedisCluster reads the reply to each command, or, in MULTI, those of EXEC;
\* it does not scan in MULTI.
Via(via, answers) ==
    {[via |-> via, fn |-> a.fn, form |-> a.form, reply |-> a.reply] : a \in answers}
Exchange ==
    Via("redis", Common \cup OfRedis) \cup Via("cluster", Common \cup OfCluster) \cup
    Via("cluster exec", {a \in Common \cup OfCluster : a.fn # "scan"})
None == [via |-> "none", fn |-> "none", form |-> "none", reply |-> << >>]

----------------------------------------------------------------------------
Init == pending = << >> /\ wire = << >> /\ reading = FALSE /\ culprit = None

Ask(x) ==
    /\ ~reading /\ culprit = None /\ Len(pending) < MaxPending
    /\ \A i \in DOMAIN pending : pending[i].via = x.via /\ x.via # "cluster"
    /\ pending' = Append(pending, x) /\ wire' = wire \o x.reply
    /\ UNCHANGED <<reading, culprit>>

Exec ==
    /\ ~reading /\ pending # << >>
    /\ reading' = TRUE
    /\ UNCHANGED <<pending, wire, culprit>>

\* A reader that fails does not stop the ones after it.
ReadNext ==
    /\ reading /\ culprit = None
    /\ pending' = Tail(pending) /\ wire' = Read(Head(pending), wire).s
    /\ reading' = (pending' # << >>)
    /\ culprit' = IF wire' = FlattenSeq([i \in DOMAIN pending' |-> pending'[i].reply]) THEN None
                  ELSE Head(pending)

\* The program gives up the connection.
Reconnect ==
    /\ culprit # None
    /\ pending' = << >> /\ wire' = << >> /\ reading' = FALSE /\ culprit' = None

Next == (\E x \in Exchange : Ask(x)) \/ Exec \/ ReadNext \/ Reconnect

Spec == Init /\ [][Next]_vars

----------------------------------------------------------------------------
\* The replies whose readers do not end where the reply ends.
Abandons ==
    LET Of(via, fns, form, replies) ==
            {x \in Exchange : x.via \in via /\ x.fn \in fns /\ x.form = form /\ x.reply \in replies}
        AnyReply == {x.reply : x \in Exchange}
        Every == {"redis", "cluster", "cluster exec"}
    IN  \* a user with selectors (Redis 7): a list in a list
        Of(Every, {"acl"}, "getuser", {Selectors}) \cup
        \* XINFO HELP: status lines
        Of(Every, {"xinfo"}, "help", {Help}) \cup
        \* a nil for a message deleted meanwhile (before Redis 7)
        Of(Every, {"xclaim"}, "", {Arr(<<Nil, Entry>>)}) \cup
        \* XAUTOCLAIM before Redis 7: two elements
        Of(Every, {"xautoclaim"}, "6.2", AnyReply \ {Err}) \cup
        \* a geohash that is nil, when it is not the last
        Of({"cluster", "cluster exec"}, {"geohash"}, "", {Sparse}) \cup
        \* the text of an error
        Of({"redis"}, {"acl"}, "getuser", {Err}) \cup Of({"redis"}, {"acl"}, "log", {Err}) \cup
        \* never read
        Of({"redis"}, {"command"}, "getkeysandflags", AnyReply) \cup
        \* an error in EXEC's reply taken for a bulk string, or for the header
        Of({"cluster exec"}, {"info", "mpop"}, "", {Err}) \cup
        Of({"cluster exec"}, {"client"}, "list", {Err}) \cup
        Of({"cluster exec"}, {"mpop"}, "zset", {Err}) \cup
        UNION {Of({"cluster exec"}, {"xautoclaim"}, form, {Err}) : form \in {"", "6.2"}}

\* Each reader takes from the stream exactly one reply, whatever form of reply,
\* nil, empty array or error the server chose, and however many replies follow
\* it: the next command reads its own reply.  The exceptions are named above;
\* after them every later value on the connection is another command's.
InStep == culprit = None \/ culprit \in Abandons

=============================================================================
