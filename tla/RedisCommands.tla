---------------------------- MODULE RedisCommands ----------------------------
(***************************************************************************)
(* The command builders of the Redis client (redis_commands.c).  Every     *)
(* method of Redis and RedisCluster hands its arguments to one of them; it *)
(* refuses them or puts one command on the wire:                           *)
(*                                                                         *)
(*     *<argc+1>  $<keyword>  $<token> ... $<token>                        *)
(*                                                                         *)
(* argc is computed before the tokens are appended, by an expression of    *)
(* its own, and the server believes argc.  A builder also prefixes the     *)
(* keys, and in a cluster leaves in *slot where the command must go.       *)
(*                                                                         *)
(* A token is a key as sent (prefixed or not), a channel (prefixed too), a *)
(* number of keys, or any other argument; what that says is left out.  fn  *)
(* names the branch that built the command.  One operator per              *)
(* builder, whose parameters are the facts about the PHP arguments that    *)
(* its branches look at.                                                   *)
(***************************************************************************)
EXTENDS Integers, Sequences, FiniteSets, SequencesExt

CONSTANTS Key,       \* names of keys and channels
          SlotOf,    \* the slot of a prefixed key
          RawSlotOf, \* the slot of the same key without its prefix
          Prefix,    \* the object has a prefix
          MaxArgs    \* bound: elements of a list a method is given

ASSUME CommandAssumption ==
    /\ SlotOf \in [Key -> Nat] /\ RawSlotOf \in [Key -> Nat]
    /\ Prefix \in BOOLEAN /\ (~Prefix => RawSlotOf = SlotOf)
    /\ MaxArgs \in Nat

VARIABLES cluster,   \* the object is a RedisCluster: slot is not NULL
          sent       \* the command built last

Unset == -1          \* short slot; read without ever being assigned
AnySlot == -2        \* CMD_RAND_SLOT: any slot will do

\* Tokens.
K(k)   == <<"key", k>>
Raw(k) == <<"raw", k>>
Chan(k) == <<"channel", k>>
N(n)   == <<"numkeys", n>>
Arg    == <<"arg">>
Args(n) == [i \in 1..n |-> Arg]
Keys(ks) == [i \in DOMAIN ks |-> K(ks[i])]
Chans(ks) == [i \in DOMAIN ks |-> Chan(ks[i])]
Opt(b, n) == IF b THEN Args(n) ELSE << >>
B(b, n) == IF b THEN n ELSE 0

Lists == UNION {[1..n -> Key] : n \in 0..MaxArgs}
Sizes == 0..MaxArgs

\* redis_cmd_init_sstr() with the declared argc, then the appended tokens.
Command(fn, argc, toks, slot) ==
    [fn |-> fn, argc |-> argc, toks |-> toks, slot |-> slot, ok |-> TRUE]
Refused == [fn |-> "refused", argc |-> 0, toks |-> << >>, slot |-> Unset, ok |-> FALSE]
When(guard, c) == IF guard THEN c ELSE Refused

\* The format string is both the argument count and the list of arguments.
redis_spprintf(fn, toks, slot) == Command(fn, Len(toks), toks, slot)
Keyed(fn, k, n) == redis_spprintf(fn, <<K(k)>> \o Args(n), SlotOf[k])

\* The check most builders make before they send several keys to a cluster.
\* A mistake to catch: nothing compares the slots.
SameSlot_unchecked(ks) == TRUE
SameSlot(ks) == cluster => \A i, j \in DOMAIN ks : SlotOf[ks[i]] = SlotOf[ks[j]]

\* The check of ZDIFF, ZINTER and ZUNION: the slot of the key before, unless
\* that slot is 0, their mark for "no key yet".
SameSlotUnlessZero(ks) ==
    cluster => \A i \in 2..Len(ks) :
                  SlotOf[ks[i - 1]] # 0 => SlotOf[ks[i]] = SlotOf[ks[i - 1]]

SlotOfLast(ks) == IF ks = << >> THEN Unset ELSE SlotOf[Last(ks)]

----------------------------------------------------------------------------
(* Methods that share a signature.                                         *)

redis_empty_cmd == redis_spprintf("empty", << >>, Unset)
redis_opt_str_cmd(given) == redis_spprintf("opt_str", Opt(given, 1), Unset)
redis_str_cmd == redis_spprintf("str", Args(1), Unset)
redis_long_long_cmd == redis_spprintf("long_long", Args(2), Unset)
redis_key_cmd(k) == Keyed("key", k, 0)
redis_key_long_cmd(k) == Keyed("key_long", k, 1)
redis_key_dbl_cmd(k) == Keyed("key_dbl", k, 1)
redis_kv_cmd(k) == Keyed("kv", k, 1)
redis_key_str_cmd(k) == Keyed("key_str", k, 1)
redis_key_long_val_cmd(k) == Keyed("key_long_val", k, 2)
redis_key_long_str_cmd(k) == Keyed("key_long_str", k, 2)
redis_key_str_str_cmd(k) == Keyed("key_str_str", k, 2)
redis_key_long_long_cmd(k) == Keyed("key_long_long", k, 2)
redis_key_key_cmd(k, j) ==
    When(SameSlot(<<k, j>>), Command("key_key", 2, Keys(<<k, j>>), SlotOf[k]))

\* rawCommand(): argc counts the keyword; the rest must be scalars and are
\* sent as they are, keys included.
redis_build_raw_cmd(ks, scalar) ==
    When(scalar, Command("raw", (1 + Len(ks)) - 1, [i \in DOMAIN ks |-> Raw(ks[i])], AnySlot))

\* script(): argc is what the caller passed, whatever the directive takes.
\* It goes to the node the caller names.
\* FLUSH asks the mode to differ from neither SYNC nor ASYNC, so refuses any.
redis_build_script_cmd(op, argc) ==
    CASE op = "kill"   -> Command("script kill", argc, Args(1), AnySlot)
      [] op = "flush"  -> When(argc = 1, Command("script flush", argc, Args(1), AnySlot))
      [] op = "load"   -> When(argc >= 2, Command("script load", argc, Args(2), AnySlot))
      [] op = "exists" -> When(argc >= 2, Command("script exists", argc, Args(argc), AnySlot))

redis_failover_cmd(to, force, abort, timeout) ==
    Command("failover", B(to, 3 + B(force, 1)) + B(abort, 1) + B(timeout, 2),
            Opt(to, 3) \o Opt(to /\ force, 1) \o Opt(abort, 1) \o Opt(timeout, 2), Unset)

redis_flush_cmd(given) == Command("flush", B(given, 1), Opt(given, 1), AnySlot)

redis_replicaof_cmd == redis_spprintf("replicaof", Args(2), Unset)

\* SCAN and its variants; the key is prefixed by the caller.  argc counts
\* COUNT when count > 0, the builders append it when count # 0.  The cluster's
\* builder, and that of Redis, which may add the TYPE asked for.
redis_fmt_scan_cmd(keyed, k, pattern, count) ==
    Command(IF count < 0 THEN "scan count < 0" ELSE "scan",
            1 + B(keyed, 1) + B(pattern, 2) + B(count > 0, 2),
            (IF keyed THEN <<K(k)>> ELSE << >>) \o Args(1)
               \o Opt(count # 0, 2) \o Opt(pattern, 2),
            IF keyed THEN SlotOf[k] ELSE AnySlot)
redis_build_scan_cmd(keyed, k, pattern, count, match_type) ==
    LET c == redis_fmt_scan_cmd(keyed, k, pattern, count) IN
    Command(c.fn, c.argc + B(match_type, 2), c.toks \o Opt(match_type, 2), c.slot)

gen_vararg_cmd(fn, n) == Command(fn, n, Args(n), Unset)
redis_info_cmd(n) == gen_vararg_cmd("info", n)
redis_script_cmd(n) == When(n >= 1, gen_vararg_cmd("script", n))

gen_key_arr_cmd(fn, k, n) ==
    When(n > 0, Command(fn, 1 + n, <<K(k)>> \o Args(n), SlotOf[k]))
redis_key_val_arr_cmd(k, n) == gen_key_arr_cmd("key_val_arr", k, n)
redis_key_str_arr_cmd(k, n) == gen_key_arr_cmd("key_str_arr", k, n)

redis_key_varval_cmd(k, n) ==
    LET argc == 1 + n IN
    When(argc >= 2, Command("key_varval", argc, <<K(k)>> \o Args(argc - 1), SlotOf[k]))

\* Variadic keys or one array of them, and a timeout for the blocking pops.
gen_varkey_cmd(fn, ks, single_array, has_timeout) ==
    LET argc == (IF single_array THEN Len(ks) ELSE Len(ks) + B(has_timeout, 1))
                   + B(single_array /\ has_timeout, 1) IN
    When(ks # << >> /\ SameSlot(ks),
         Command(fn, argc, Keys(ks) \o Opt(has_timeout, 1), SlotOfLast(ks)))
redis_varkey_cmd(ks, arr) == gen_varkey_cmd("varkey", ks, arr, FALSE)
redis_blocking_pop_cmd(ks, arr) == gen_varkey_cmd("blocking_pop", ks, arr, TRUE)

----------------------------------------------------------------------------
(* Sorted sets, configuration, scripts, channels.                          *)

\* What each keyword lets redis_get_zcmd_options() find in the options.
ZcmdFlag == {"dst", "withscores", "lexscore", "rev", "limit", "aggregate", "int"}
redis_get_zcmd_flags(kw) ==
    CASE kw = "zrangestore"   -> {"dst", "withscores", "lexscore", "rev", "limit"}
      [] kw = "zrange"        -> {"withscores", "lexscore", "rev", "limit"}
      [] kw = "zrevrange"     -> {"withscores", "int"}
      [] kw = "zrangebyscore" -> {"limit", "withscores"}
      [] kw = "zrangebylex"   -> {"limit"}
      [] kw = "zdiff"         -> {"withscores"}
      [] kw = "zinterunion"   -> {"withscores", "aggregate"}
redis_get_zcmd_options(asked, kw) == asked \cap redis_get_zcmd_flags(kw)

\* `asked' holds at most one of BYLEX and BYSCORE: "lexscore" is either.
redis_zrange_cmd(kw, dst, src, asked, valid_zlex) ==
    LET opt   == redis_get_zcmd_options(asked, kw)
        store == "dst" \in redis_get_zcmd_flags(kw)
        extra == {"lexscore", "rev", "withscores"} \cap opt
    IN  When(("lexscore" \in opt => valid_zlex) /\ (store => SameSlot(<<dst, src>>)),
             Command("zrange", 3 + B(store, 1) + Cardinality(extra) + B("limit" \in opt, 3),
                     (IF store THEN Keys(<<dst, src>>) ELSE <<K(src)>>) \o Args(2)
                       \o Args(Cardinality(extra)) \o Opt("limit" \in opt, 3),
                     SlotOf[src]))

redis_build_config_get_cmd(n) == When(n > 0, Command("config get", 1 + n, Args(1 + n), Unset))
redis_build_config_set_cmd(pair, n, named) ==
    IF pair THEN Command("config set", 3, Args(3), Unset)
    ELSE When(n > 0 /\ named, Command("config set", 1 + 2 * n, Args(1) \o Args(2 * n), Unset))
redis_config_cmd(op, pair, n, named) ==
    CASE op = "other"   -> Command("config", 1, Args(1), Unset)
      [] op = "get"     -> redis_build_config_get_cmd(n)
      [] op = "set"     -> redis_build_config_set_cmd(pair, n, named)
      [] op = "unknown" -> Refused

\* mode_ok: the mode among the arguments is one the directive knows, and what
\* that mode takes follows it.
redis_function_cmd(op, argc, mode_ok) ==
    When(CASE op = "delete"  -> argc >= 1
           [] op = "flush"   -> argc > 0 => mode_ok
           [] op = "list"    -> argc > 0 => mode_ok
           [] op = "load"    -> argc >= 1 /\ mode_ok
           [] op = "restore" -> argc >= 1 /\ (argc > 1 => mode_ok)
           [] op = "dump"    -> TRUE
           [] op = "unknown" -> FALSE,
         Command("function", 1 + argc, Args(1) \o Args(argc), Unset))

redis_acl_cmd(op, argc) ==
    When(CASE op = "user"   -> argc >= 1
           [] op = "dryrun" -> argc >= 2
           [] op = "list"   -> TRUE
           [] op = "unknown" -> FALSE,
         Command("acl", 1 + argc, Args(1) \o Args(argc), Unset))

\* Every key overwrites *slot and none is compared with another.
redis_fcall_cmd(ks, n) ==
    Command("fcall", 2 + Len(ks) + n, Args(1) \o <<N(Len(ks))>> \o Keys(ks) \o Args(n),
            SlotOfLast(ks))

redis_zrandmember_cmd(k, count, withscores) ==
    Command("zrandmember", 1 + B(count # 0, 1) + B(withscores, 1),
            <<K(k)>> \o Opt(count # 0, 1) \o Opt(withscores, 1), SlotOf[k])

redis_zdiff_cmd(ks, asked) ==
    LET opts == redis_get_zcmd_options(asked, "zdiff") IN
    When(ks # << >> /\ SameSlotUnlessZero(ks),
         Command("zdiff", 1 + Len(ks) + B("withscores" \in opts, 1),
                 <<N(Len(ks))>> \o Keys(ks) \o Opt("withscores" \in opts, 1), SlotOfLast(ks)))

\* A score that is no number and no infinity fails: nothing was appended.
redis_cmd_append_sstr_score(scores) == \A i \in DOMAIN scores : scores[i]

redis_intercard_cmd(ks, given, limit) ==
    When(ks # << >> /\ ~(given /\ limit < 0) /\ SameSlot(ks),
         Command("intercard", 1 + Len(ks) + B(limit > 0, 2),
                 <<N(Len(ks))>> \o Keys(ks) \o Opt(limit > 0, 2), SlotOf[Head(ks)]))

\* WEIGHTS must be as many as the keys, and each a score.
Weighted(ks, weights) ==
    /\ weights # << >> => Len(weights) = Len(ks)
    /\ redis_cmd_append_sstr_score(weights)
Weights(ks, weights) == B(weights # << >>, 1 + Len(ks))

redis_zinterunion_cmd(ks, weights, asked) ==
    LET opts == redis_get_zcmd_options(asked, "zinterunion") IN
    When(ks # << >> /\ Weighted(ks, weights) /\ SameSlotUnlessZero(ks),
         Command("zinterunion",
                 1 + Len(ks) + Weights(ks, weights) + B("aggregate" \in opts, 2)
                   + B("withscores" \in opts, 1),
                 <<N(Len(ks))>> \o Keys(ks) \o Opt(weights # << >>, 1) \o Args(Len(weights))
                   \o Opt("aggregate" \in opts, 2) \o Opt("withscores" \in opts, 1),
                 SlotOfLast(ks)))

\* A mistake to catch: the destination is counted among the keys.
redis_zdiffstore_cmd_counted(dst, ks) ==
    When(ks # << >> /\ SameSlot(<<dst>> \o ks),
         Command("zdiffstore", 2 + Len(ks), <<K(dst), N(1 + Len(ks))>> \o Keys(ks), SlotOf[dst]))
redis_zdiffstore_cmd(dst, ks) ==
    When(ks # << >> /\ SameSlot(<<dst>> \o ks),
         Command("zdiffstore", 2 + Len(ks), <<K(dst), N(Len(ks))>> \o Keys(ks), SlotOf[dst]))

redis_zinterunionstore_cmd(dst, ks, weights, agg) ==
    When(ks # << >> /\ agg # "bad" /\ Weighted(ks, weights) /\ SameSlot(<<dst>> \o ks),
         Command("zinterunionstore", 2 + Len(ks) + Weights(ks, weights) + B(agg = "valid", 2),
                 <<K(dst), N(Len(ks))>> \o Keys(ks) \o Opt(weights # << >>, 1)
                   \o Args(Len(weights)) \o Opt(agg = "valid", 2),
                 SlotOf[dst]))

\* Channels carry the prefix of keys; the slot they leave behind is not used,
\* PUBSUB goes to the node the caller names.
redis_pubsub_cmd(op, pattern, ks, typed) ==
    LET channels == IF op = "numsub" THEN ks ELSE << >>
        pat == op = "channels" /\ pattern
    IN  When(op # "unknown" /\ typed,
             Command("pubsub", 1 + B(pat, 1) + Len(channels),
                     Args(1) \o Opt(pat, 1) \o Chans(channels), AnySlot))

\* SSUBSCRIBE hashes the first channel without its prefix, and compares with
\* that the slot of each prefixed channel.
redis_subscribe_cmd(shard, ks) ==
    LET shardslot == RawSlotOf[Head(ks)] IN
    When(ks # << >> /\ (shard /\ cluster => \A i \in DOMAIN ks : SlotOf[ks[i]] = shardslot),
         Command(IF shard THEN "ssubscribe" ELSE "subscribe", Len(ks),
                 IF shard THEN Keys(ks) ELSE Chans(ks),
                 IF shard THEN shardslot ELSE AnySlot))
redis_unsubscribe_cmd(ks) ==
    When(ks # << >>, Command("unsubscribe", Len(ks), Chans(ks), SlotOfLast(ks)))

redis_zrangebylex_cmd(k, argc, valid_zlex) ==
    When(argc \in {3, 5} /\ valid_zlex,
         Keyed("zrangebylex", k, IF argc = 3 THEN 2 ELSE 5))
redis_gen_zlex_cmd(k, valid_zlex) == When(valid_zlex, Keyed("gen_zlex", k, 2))

\* The first num_keys elements are keys, whatever num_keys says of the rest.
redis_eval_cmd(args, num_keys) ==
    LET ks == [i \in 1..(IF num_keys < Len(args) THEN IF num_keys < 0 THEN 0 ELSE num_keys
                          ELSE Len(args)) |-> args[i]]
    IN  When(SameSlot(ks),
             Command(CASE num_keys \notin 0..Len(args) -> "eval short"
                       [] num_keys = 0 /\ args # << >> -> "eval keyless"
                       [] OTHER -> "eval",
                     2 + Len(args),
                     Args(1) \o <<N(num_keys)>> \o Keys(ks) \o Args(Len(args) - Len(ks)),
                     IF args = << >> THEN AnySlot ELSE SlotOfLast(ks)))

redis_mset_cmd(ks) ==
    When(ks # << >>,
         Command("mset", Len(ks) * 2,
                 [i \in 1..(Len(ks) * 2) |-> IF i % 2 = 1 THEN K(ks[(i + 1) \div 2]) ELSE Arg],
                 Unset))

redis_mpop_cmd(blocking, ks, from_ok, count) ==
    When(ks # << >> /\ count >= 1 /\ from_ok /\ SameSlot(ks),
         Command("mpop", 2 + B(blocking, 1) + Len(ks) + B(count # 1, 2),
                 Opt(blocking, 1) \o <<N(Len(ks))>> \o Keys(ks) \o Args(1) \o Opt(count # 1, 2),
                 SlotOfLast(ks)))

redis_pop_cmd(k, count) ==
    Command("pop", 1 + B(count > 0, 1), <<K(k)>> \o Opt(count > 0, 1), SlotOf[k])

----------------------------------------------------------------------------
(* Strings, hashes, and the rest of the simple keys.                       *)

\* SET: an expiry may be the third argument (exp # "none" with no exp_type) or
\* an option; the plain case is sent as SETEX.  expire is -1 when not given.
redis_set_cmd(k, exp_set, expire, exp_type, set_type, keep_ttl, get) ==
    When(~(exp_set /\ expire < 1) /\ ~(exp_type /\ keep_ttl),
         IF expire > 0 /\ ~exp_type /\ ~set_type /\ ~keep_ttl
         THEN Keyed("setex", k, 2)
         ELSE Command("set", 2 + B(exp_type, 2) + B(set_type, 1) + B(keep_ttl, 1) + B(get, 1),
                      <<K(k)>> \o Args(1) \o Opt(exp_type, 2) \o Opt(set_type, 1)
                        \o Opt(keep_ttl, 1) \o Opt(get, 1), SlotOf[k]))
redis_try_get_expiry(kind) == kind \in {"number", "numeric"}

redis_mget_cmd(ks) == When(ks # << >>, Command("mget", Len(ks), Keys(ks), Unset))

\* Of EX.. and PERSIST the option that comes last wins.
redis_getex_cmd(k, exp_type, expire, persist) ==
    LET stays == persist /\ ~exp_type IN
    When(~(exp_type /\ expire < 1),
         Command("getex", 1 + (IF exp_type THEN 2 ELSE B(stays, 1)),
                 <<K(k)>> \o Opt(exp_type, 2) \o Opt(stays, 1), SlotOf[k]))

redis_brpoplpush_cmd(src, dst, timeout) ==
    When(SameSlot(<<src, dst>>),
         Command("brpoplpush", IF timeout < 0 THEN 2 ELSE 3,
                 Keys(<<src, dst>>) \o Opt(timeout >= 0, 1), SlotOf[src]))

redis_atomic_increment(k, val) == Keyed("atomic_increment", k, IF val = 1 THEN 0 ELSE 1)
redis_incr_cmd(k, val) == redis_atomic_increment(k, val)
redis_decr_cmd(k, val) == redis_atomic_increment(k, val)
redis_hincrby_cmd(k) == Keyed("hincrby", k, 2)
redis_hincrbyfloat_cmd(k) == Keyed("hincrbyfloat", k, 2)
redis_hstrlen_cmd(k) == Keyed("hstrlen", k, 1)

\* Fields that are no names are skipped; fields[i] says whether one is.
redis_hmget_cmd(k, fields) ==
    LET valid == Cardinality({i \in DOMAIN fields : fields[i]}) IN
    When(valid > 0, Command("hmget", 1 + valid, <<K(k)>> \o Args(valid), SlotOf[k]))
redis_hmset_cmd(k, n) ==
    When(n > 0, Command("hmset", 1 + (2 * n), <<K(k)>> \o Args(2 * n), SlotOf[k]))

\* LEN and IDX put each other out.
redis_get_lcs_options(mode, withmatchlen, minmatchlen) ==
    B(mode # "none", 1) + B(withmatchlen, 1) + B(minmatchlen, 2)
redis_lcs_cmd(k, j, mode, withmatchlen, minmatchlen) ==
    When(SameSlot(<<k, j>>),
         Command("lcs", 2 + redis_get_lcs_options(mode, withmatchlen, minmatchlen),
                 Keys(<<k, j>>) \o Opt(mode # "none", 1) \o Opt(withmatchlen, 1)
                   \o Opt(minmatchlen, 2), SlotOf[k]))

redis_slowlog_cmd(op, given) ==
    LET get == op = "get" /\ given IN
    When(op # "unknown", Command("slowlog", 1 + B(get, 1), Args(1) \o Opt(get, 1), Unset))

\* IDLETIME and FREQ put each other out: freshness is one of them or "none".
redis_get_restore_options(freshness, absttl, replace) ==
    B(freshness # "none", 2) + B(absttl, 1) + B(replace, 1)
redis_restore_cmd(k, freshness, absttl, replace) ==
    Command("restore", 3 + redis_get_restore_options(freshness, absttl, replace),
            <<K(k)>> \o Args(2) \o Opt(replace, 1) \o Opt(absttl, 1)
              \o Opt(freshness # "none", 2), SlotOf[k])

redis_bitpos_cmd(k, range, bybit) ==
    Command("bitpos", 2 + B(range, 2) + B(bybit, 1),
            <<K(k)>> \o Args(1) \o Opt(range, 2) \o Opt(bybit, 1), SlotOf[k])
redis_bitop_cmd(ks, named) ==
    When(Len(ks) >= 2 /\ named /\ SameSlot(ks),
         Command("bitop", 1 + Len(ks), Args(1) \o Keys(ks), SlotOfLast(ks)))
redis_bitcount_cmd(k, isbit) == Keyed("bitcount", k, IF isbit THEN 3 ELSE 2)

redis_gen_pf_cmd(k, ks, is_keys) ==
    When(ks # << >> /\ (is_keys => SameSlot(<<k>> \o ks)),
         Command("pf", 1 + Len(ks),
                 <<K(k)>> \o (IF is_keys THEN Keys(ks) ELSE Args(Len(ks))), SlotOf[k]))
redis_pfadd_cmd(k, ks) == redis_gen_pf_cmd(k, ks, FALSE)
redis_pfmerge_cmd(k, ks) == redis_gen_pf_cmd(k, ks, TRUE)
redis_pfcount_cmd(ks) ==
    When(ks # << >> /\ SameSlot(ks), Command("pfcount", Len(ks), Keys(ks), SlotOfLast(ks)))

\* The credentials are kept on the socket whatever the server will answer.
redis_auth_cmd(user, valid) ==
    When(valid, redis_spprintf("auth", Args(1 + B(user, 1)), Unset))

redis_setbit_cmd(k, in_range) == When(in_range, Keyed("setbit", k, 2))

redis_lmove_cmd(src, dst, ends_ok, blocking) ==
    When(ends_ok /\ SameSlot(<<src, dst>>),
         Command("lmove", 4 + B(blocking, 1),
                 Keys(<<src, dst>>) \o Args(2) \o Opt(blocking, 1), SlotOf[src]))

redis_linsert_cmd(k, pos_ok) == When(pos_ok, Keyed("linsert", k, 3))
redis_lrem_cmd(k) == Keyed("lrem", k, 2)
redis_lpos_cmd(k, withrank, count, maxlen) ==
    Command("lpos", 2 + B(withrank, 2) + B(count >= 0, 2) + B(maxlen >= 0, 2),
            <<K(k)>> \o Args(1) \o Opt(withrank, 2) \o Opt(count >= 0, 2)
              \o Opt(maxlen >= 0, 2), SlotOf[k])

redis_smove_cmd(src, dst) ==
    When(SameSlot(<<src, dst>>),
         Command("smove", 3, Keys(<<src, dst>>) \o Args(1), SlotOf[src]))

\* HSET with an array declares one argument per element and appends two per
\* element with a name; with a list of arguments their number must be odd.
redis_hset_cmd(k, array, n, named) ==
    IF array
    THEN When(n > 0, Command("hset array", 1 + n, <<K(k)>> \o Args(2 * named), SlotOf[k]))
    ELSE When(n > 1 /\ n % 2 = 0, Command("hset", 1 + n, <<K(k)>> \o Args(n), SlotOf[k]))
redis_hsetnx_cmd(k) == Keyed("hsetnx", k, 2)
redis_hrandfield_cmd(k, count, withvalues) ==
    Command("hrandfield", 1 + B(count # 0, 1) + B(withvalues, 1),
            <<K(k)>> \o Opt(count # 0, 1) \o Opt(withvalues, 1), SlotOf[k])

redis_select_cmd(db) == When(db >= 0, redis_spprintf("select", Args(1), Unset))
redis_srandmember_cmd(k, given) ==
    Command("srandmember", 1 + B(given, 1), <<K(k)>> \o Opt(given, 1), SlotOf[k])
redis_zincrby_cmd(k) == Keyed("zincrby", k, 2)

\* SORT collects its arguments in an array and declares its size.  With options
\* it frees the key it has prefixed before it hashes it, so that the slot is
\* that of whatever memory it finds: left.  The STORE key goes out without the
\* prefix, and without it is its slot compared.
\* gets: how many GET patterns are strings, of those given.
KeySlots == {SlotOf[k] : k \in Key} \cup {RawSlotOf[k] : k \in Key}
SlotLeft(k) == IF Prefix THEN KeySlots ELSE {SlotOf[k]}
redis_sort_cmd(k, left, given, by, dir, store, dst, get, gets, alpha, limit) ==
    LET argv == (IF by THEN Args(2) ELSE << >>) \o Opt(dir, 1)
                  \o (IF store THEN <<Arg, Raw(dst)>> ELSE << >>)
                  \o (IF get THEN Args(2 * gets) ELSE << >>)
                  \o Opt(alpha, 1) \o Opt(limit, 3)
    IN  IF ~given THEN Keyed("sort", k, 0)
        ELSE When(/\ cluster => ~by /\ ~get
                  /\ store /\ cluster => left = RawSlotOf[dst]
                  /\ get => gets > 0,
                  redis_spprintf(IF Prefix THEN "sort prefixed" ELSE "sort",
                                 <<K(k)>> \o argv, left))

\* sortAsc(), sortDesc() and the like count for themselves: an array of GET
\* patterns is counted as its size, though each takes a GET and a pattern, an
\* empty pattern not at all, and an empty STORE as two that are not sent.
generic_sort_cmd(k, by, limit, get, gets, store, dst, desc, alpha) ==
    LET patterns == IF get = "array" THEN gets ELSE B(get # "none", 1)
        argc == 1 + B(by, 2) + B(limit, 3) + B(alpha, 1) + B(store # "none", 2) + B(desc, 1)
                  + (CASE get = "array" -> gets [] get = "string" -> 2 [] OTHER -> 0)
        off == (get = "array" /\ gets > 0) \/ get = "empty" \/ store = "empty"
    IN  Command(IF off THEN "generic sort" ELSE "sort", argc,
                <<K(k)>> \o Opt(by, 2) \o Opt(limit, 3) \o Args(2 * patterns) \o Opt(desc, 1)
                  \o Opt(alpha, 1) \o (IF store = "key" THEN <<Arg, K(dst)>> ELSE << >>), Unset)

redis_hdel_cmd(k, n) ==
    When(n > 0, Command("hdel", 1 + n, <<K(k)>> \o Args(n), SlotOf[k]))

\* ZADD: an odd number of arguments after the key starts with the options.
redis_zadd_cmd(k, scores, opts) ==
    LET extra == Cardinality(opts \cap {"exp", "range", "ch", "incr"})
        pos   == B(opts # {}, 1)
        argc  == pos + 2 * Len(scores)
    IN  When(/\ scores # << >>
             /\ "incr" \in opts => argc = 3
             /\ redis_cmd_append_sstr_score(scores),
             Command("zadd", 1 + (argc - pos) + extra,
                     <<K(k)>> \o Args(extra) \o Args(2 * Len(scores)), SlotOf[k]))

redis_object_cmd(k, known) ==
    When(known, Command("object", 2, <<Arg, K(k)>>, SlotOf[k]))

\* GEOADD: what remains after triples is the key, or the key and the options.
redis_geoadd_cmd(k, argc, mode, ch) ==
    LET options == argc % 3 = 2
        n == argc - B(options, 1)
    IN  When(argc >= 4 /\ argc % 3 # 0 /\ (mode \/ ch => options),
             Command("geoadd", n + B(mode, 1) + B(ch, 1),
                     <<K(k)>> \o Opt(mode, 1) \o Opt(ch, 1) \o Args(n - 1), SlotOf[k]))
redis_geodist_cmd(k, unit) == Keyed("geodist", k, IF unit THEN 3 ELSE 2)

----------------------------------------------------------------------------
(* Geo queries.  o: with (how many WITH..), sort, count, any, store, key.  *)

GeoOptions == [with : 0..1, sort : BOOLEAN, count : {-1, 0, 1}, any : BOOLEAN,
               store : {"none", "coord", "dist"}, key : Key]

\* count -1: not a number above zero; the whole call is refused.
get_georadius_count_options(o) == o.count >= 0
get_georadius_opts(o) ==
    get_georadius_count_options(o) /\ ~(o.store # "none" /\ o.with > 0)
georadius_argc(o) ==
    o.with + B(o.sort, 1) + (IF o.count > 0 THEN 2 + B(o.any, 1) ELSE 0)
      + B(o.store # "none", 2)
append_georadius_opts(o) ==
    Args(o.with) \o Opt(o.sort, 1) \o Opt(o.count > 0, 2) \o Opt(o.count > 0 /\ o.any, 1)
      \o (IF o.store # "none" THEN <<Arg, K(o.key)>> ELSE << >>)
StoresThere(k, o) == o.store # "none" => SameSlot(<<k, o.key>>)

redis_georadius_cmd(k, o) ==
    When(get_georadius_opts(o) /\ StoresThere(k, o),
         Command("georadius", 5 + georadius_argc(o),
                 <<K(k)>> \o Args(4) \o append_georadius_opts(o), SlotOf[k]))
redis_georadiusbymember_cmd(k, o) ==
    When(get_georadius_opts(o) /\ StoresThere(k, o),
         Command("georadiusbymember", 4 + georadius_argc(o),
                 <<K(k)>> \o Args(3) \o append_georadius_opts(o), SlotOf[k]))

\* The centre is a member or a pair; the shape a radius or an array, which is
\* counted as two dimensions and sent whatever its size: dims is 0 for a radius.
Position(pair) == 2 + B(pair, 1)
Shape(dims) == IF dims = 0 THEN 2 ELSE 3
Shaped(dims) == IF dims = 0 THEN Args(2) ELSE Args(1 + dims)
Boxed(fn, dims) == IF dims \in {0, 2} THEN fn ELSE "geosearch box"

redis_geosearch_cmd(k, pair, dims, o) ==
    LET opts == [o EXCEPT !.store = "none"] IN
    When(get_georadius_count_options(o),
         Command(Boxed("geosearch", dims), 2 + Position(pair) + Shape(dims) + georadius_argc(opts),
                 <<K(k)>> \o Args(Position(pair)) \o Shaped(dims) \o Args(1)
                   \o append_georadius_opts(opts), SlotOf[k]))
\* STOREDIST is a flag here and ANY is not looked for.
redis_geosearchstore_cmd(dest, src, pair, dims, o) ==
    LET opts == [o EXCEPT !.store = "none", !.with = 0, !.any = FALSE]
        dist == o.store = "dist"
    IN  When(get_georadius_count_options(o) /\ SameSlot(<<dest, src>>),
             Command(Boxed("geosearchstore", dims),
                     3 + Position(pair) + Shape(dims) + georadius_argc(opts) + B(dist, 1),
                     Keys(<<dest, src>>) \o Args(Position(pair)) \o Shaped(dims) \o Args(1)
                       \o append_georadius_opts(opts) \o Opt(dist, 1), SlotOf[dest]))

----------------------------------------------------------------------------
(* Connections and the server.                                             *)

\* auth: "none", "pass" or "both".
redis_migrate_cmd(single, ks, copy, replace, auth) ==
    LET creds == CASE auth = "none" -> 0 [] auth = "pass" -> 2 [] auth = "both" -> 3 IN
    When(ks # << >>,
         Command("migrate", 5 + B(copy, 1) + B(replace, 1) + creds + B(~single, 1 + Len(ks)),
                 Args(2) \o (IF single THEN <<K(Head(ks))>> ELSE Args(1)) \o Args(2)
                   \o Opt(copy, 1) \o Opt(replace, 1) \o Args(creds)
                   \o (IF single THEN << >> ELSE Args(1) \o Keys(ks)), Unset))

\* ids: -1 none, 0 one id as a string, n an array of n ids.
redis_build_client_list_command(type, ids, valid) ==
    LET id == IF ids = -1 THEN 0 ELSE IF ids = 0 THEN 2 ELSE 1 + ids IN
    When(valid, Command("client list", 1 + B(type, 2) + id,
                        Args(1) \o Opt(type, 2) \o Args(id), Unset))
redis_build_client_kill_command(address, filters, valid) ==
    When(valid, Command("client kill", 1 + B(address, 1) + 2 * filters,
                        Args(1) \o Opt(address, 1) \o Args(2 * filters), Unset))
\* A PREFIX given as a string is sent once, and counted by what its memory
\* holds where an array has its size: prefixes is then any number.
redis_build_client_tracking_command(argc, redirect, prefixes, string, flags) ==
    LET n == IF string THEN 1 ELSE prefixes IN
    When(argc >= 1,
         Command(IF string THEN "client tracking string" ELSE "client tracking",
                 2 + B(redirect, 2) + 2 * prefixes + flags,
                 Args(2) \o Opt(redirect, 2) \o Args(2 * n) \o Args(flags), Unset))

\* The directives that build their arguments in place.  UNPAUSE declares two.
redis_client_cmd(op, argc, valid) ==
    CASE op = "getname"  -> Command("client", 1, Args(1), Unset)
      [] op = "setname"  -> When(argc >= 1 /\ valid, Command("client", 2, Args(2), Unset))
      [] op = "caching"  -> When(argc >= 1, Command("client", 2, Args(2), Unset))
      [] op = "pause"    -> When(argc >= 1 /\ valid, Command("client", IF argc > 1 THEN 3 ELSE 2,
                                                       Args(2) \o Opt(argc > 1, 1), Unset))
      [] op = "reply"    -> When(argc > 0 => valid, Command("client reply", IF argc > 0 THEN 2 ELSE 1,
                                                       Args(1) \o Opt(argc > 0, 1), Unset))
      [] op = "unpause"  -> Command("client unpause", 2, Args(1), Unset)
      [] op = "unknown"  -> Refused

redis_command_cmd(op, argc) ==
    LET n == IF op \in {"none", "count"} THEN 0 ELSE argc IN
    When(op # "unknown",
         Command("command", B(op # "none", 1) + n, Opt(op # "none", 1) \o Args(n), AnySlot))

redis_copy_cmd(src, dst, db, replace) ==
    When(~(cluster /\ db # -1) /\ SameSlot(<<src, dst>>),
         Command("copy", 2 + B(db > -1, 2) + B(replace, 1),
                 Keys(<<src, dst>>) \o Opt(db > -1, 2) \o Opt(replace, 1), SlotOf[src]))

----------------------------------------------------------------------------
(* Streams.                                                                *)

\* A MAXLEN below zero, or an approximate zero, is warned about and left out.
redis_xadd_cmd(k, nomkstream, fields, maxlen, approx) ==
    When(fields > 0,
         Command("xadd", 2 + B(nomkstream, 1) + 2 * fields
                           + (IF maxlen > 0 THEN IF approx THEN 3 ELSE 2 ELSE 0),
                 <<K(k)>> \o Opt(nomkstream, 1) \o Opt(maxlen > 0, 2)
                   \o Opt(maxlen > 0 /\ approx, 1) \o Args(1 + 2 * fields), SlotOf[k]))

\* IDLE and its value are two arguments; argc counts one.
redis_xpending_cmd(k, start, end, count, consumer, idle) ==
    When(~(start /\ (~end \/ count < 0)),
         Command(IF start /\ idle # 0 THEN "xpending idle" ELSE "xpending",
                 2 + (IF start THEN 3 + B(consumer, 1) + B(idle # 0, 1) ELSE 0),
                 <<K(k)>> \o Args(1)
                   \o (IF start THEN Opt(idle # 0, 2) \o Args(3) \o Opt(consumer, 1) ELSE << >>),
                 SlotOf[k]))

\* A mistake to catch: a count of 0 is announced and not written.
redis_xrange_cmd_zero(k, count) ==
    Command("xrange", 3 + B(count > -1, 2), <<K(k)>> \o Args(2) \o Opt(count > 0, 2), SlotOf[k])
redis_xrange_cmd(k, count) ==
    Command("xrange", 3 + B(count > -1, 2), <<K(k)>> \o Args(2) \o Opt(count > -1, 2), SlotOf[k])

append_stream_args(ks) == Args(1) \o Keys(ks) \o Args(Len(ks))
redis_xread_cmd(ks, count, block) ==
    When(ks # << >> /\ SameSlot(ks),
         Command("xread", 1 + (2 * Len(ks)) + B(count > -1, 2) + B(block > -1, 2),
                 Opt(count > -1, 2) \o Opt(block > -1, 2) \o append_stream_args(ks),
                 SlotOfLast(ks)))
\* Here a count or a timeout is absent or not, and refused when negative.
redis_xreadgroup_cmd(ks, no_count, count, no_block, block) ==
    When(/\ no_count \/ count >= 0
         /\ no_block \/ block >= 0
         /\ ks # << >> /\ SameSlot(ks),
         Command("xreadgroup", 4 + (2 * Len(ks)) + B(~no_count, 2) + B(~no_block, 2),
                 Args(3) \o Opt(~no_count, 2) \o Opt(~no_block, 2) \o append_stream_args(ks),
                 SlotOfLast(ks)))

redis_xack_cmd(k, ids) ==
    When(ids >= 1, Command("xack", 2 + ids, <<K(k)>> \o Args(1 + ids), SlotOf[k]))

\* A time that is no number reads as -1 and is left out.  One below zero is
\* warned about ("will be ignored") and sent all the same.
get_xclaim_i64_arg(given) == given
get_xclaim_options(time, retrycount, force, justid) ==
    [idle |-> get_xclaim_i64_arg(time) # -1, retry |-> retrycount # -1,
     force |-> force, justid |-> justid]
xclaim_options_argc(opt) ==
    B(opt.idle, 2) + B(opt.retry, 2) + B(opt.force, 1) + B(opt.justid, 1)
append_xclaim_options(opt) ==
    Opt(opt.idle, 2) \o Opt(opt.retry, 2) \o Opt(opt.force, 1) \o Opt(opt.justid, 1)
redis_xclaim_cmd(k, ids, opt) ==
    When(ids >= 1,
         Command("xclaim", 4 + ids + xclaim_options_argc(opt),
                 <<K(k)>> \o Args(3 + ids) \o append_xclaim_options(opt), SlotOf[k]))

\* argc counts 1 + count for the two tokens of COUNT <count>.
redis_xautoclaim_cmd(k, count, justid) ==
    Command(IF count > 0 THEN "xautoclaim count" ELSE "xautoclaim",
            5 + (IF count > 0 THEN 1 + count ELSE 0) + B(justid, 1),
            <<K(k)>> \o Args(4) \o Opt(count > 0, 2) \o Opt(justid, 1), SlotOf[k])

\* XGROUP HELP has no key, and leaves the slot as it found it.
redis_xgroup_cmd(op, k, given, mkstream, entries_read) ==
    LET nargs == CASE op = "help" -> 0 [] op = "destroy" -> 2 [] OTHER -> 3
        mk    == mkstream /\ op = "create"
        read  == op \in {"create", "setid"} /\ entries_read # -2
    IN  When(op # "unknown" /\ given >= nargs,
             Command(IF op = "help" THEN "xgroup help" ELSE "xgroup",
                     1 + nargs + B(mk, 1) + B(read, 2),
                     Args(1) \o (IF nargs > 0 THEN <<K(k)>> \o Args(nargs - 1) ELSE << >>)
                       \o Opt(mk, 1) \o Opt(read, 2),
                     IF nargs > 0 THEN SlotOf[k] ELSE Unset))
redis_xinfo_cmd(keyed, k, arg, count) ==
    When(~(arg /\ ~keyed) /\ ~(count # -1 /\ ~(keyed /\ arg)),
         Command(IF keyed THEN "xinfo" ELSE "xinfo help",
                 1 + B(keyed, 1) + B(arg, 1) + B(count > -1, 2),
                 Args(1) \o (IF keyed THEN <<K(k)>> ELSE << >>) \o Opt(arg, 1)
                   \o Opt(count > -1, 2),
                 IF keyed THEN SlotOf[k] ELSE Unset))

\* A LIMIT without ~ is warned about and left out.
redis_xtrim_cmd(k, approx, limit) ==
    LET limited == approx /\ limit > -1 IN
    Command("xtrim", 4 + B(limited, 2), <<K(k)>> \o Args(3) \o Opt(limited, 2), SlotOf[k])

redis_expire_cmd(k, mode, known) ==
    When(mode => known, Command("expire", 2 + B(mode, 1), <<K(k)>> \o Args(1 + B(mode, 1)),
                                SlotOf[k]))

redis_sentinel_cmd == redis_spprintf("sentinel", Args(1), Unset)
redis_sentinel_str_cmd == redis_spprintf("sentinel str", Args(2), Unset)

----------------------------------------------------------------------------
(* The methods, by family.  Standalone: methods RedisCluster does not have  *)
(* or builds otherwise.                                                    *)

Init == cluster \in BOOLEAN /\ sent = Refused

Send(c) == ~sent.ok /\ sent' = c /\ UNCHANGED cluster
\* redis_sock_write() or cluster_send_slot() took it; the buffer is freed.
Written == sent.ok /\ sent' = Refused /\ UNCHANGED cluster
Standalone == ~cluster
Scores == UNION {[1..n -> BOOLEAN] : n \in Sizes}
Count == -1..2

Shared == \E k, j \in Key :
    \/ Send(redis_key_cmd(k)) \/ Send(redis_key_long_cmd(k)) \/ Send(redis_key_dbl_cmd(k))
    \/ Send(redis_kv_cmd(k)) \/ Send(redis_key_str_cmd(k)) \/ Send(redis_key_long_val_cmd(k))
    \/ Send(redis_key_long_str_cmd(k)) \/ Send(redis_key_str_str_cmd(k))
    \/ Send(redis_key_long_long_cmd(k)) \/ Send(redis_key_key_cmd(k, j))
    \/ \E n \in Sizes : \/ Send(redis_key_val_arr_cmd(k, n)) \/ Send(redis_key_str_arr_cmd(k, n))
                        \/ Send(redis_key_varval_cmd(k, n))
    \/ \E keyed, pattern \in BOOLEAN, count \in Count :
          IF cluster THEN Send(redis_fmt_scan_cmd(keyed, k, pattern, count))
          ELSE \E match_type \in BOOLEAN :
                  Send(redis_build_scan_cmd(keyed, k, pattern, count, match_type /\ ~keyed))

ManyKeys == \E ks \in Lists, b \in BOOLEAN :
    \/ Send(redis_varkey_cmd(ks, b)) \/ Send(redis_blocking_pop_cmd(ks, b))
    \/ Send(redis_build_raw_cmd(ks, b)) \/ Send(redis_pfcount_cmd(ks)) \/ Send(redis_bitop_cmd(ks, b))
    \/ Standalone /\ (Send(redis_mget_cmd(ks)) \/ Send(redis_mset_cmd(ks)))
    \/ \E k \in Key : Send(redis_pfadd_cmd(k, ks)) \/ Send(redis_pfmerge_cmd(k, ks))
    \/ \E from_ok \in BOOLEAN, count \in Count : Send(redis_mpop_cmd(b, ks, from_ok, count))
    \/ \E given \in BOOLEAN, limit \in Count : Send(redis_intercard_cmd(ks, given, limit))

SortedSets ==
    \/ \E k, j \in Key, kw \in {"zrangestore", "zrange", "zrevrange", "zrangebyscore",
                                "zrangebylex"}, asked \in SUBSET ZcmdFlag, v \in BOOLEAN :
          Send(redis_zrange_cmd(kw, j, k, asked, v))
    \/ \E ks \in Lists, asked \in SUBSET ZcmdFlag, w \in Scores :
          \/ Send(redis_zdiff_cmd(ks, asked))
          \/ Send(redis_zinterunion_cmd(ks, w, asked))
    \/ \E k \in Key, ks \in Lists, w \in Scores, agg \in {"none", "valid", "bad"} :
          \/ Send(redis_zdiffstore_cmd(k, ks))
          \/ Send(redis_zinterunionstore_cmd(k, ks, w, agg))
    \/ \E k \in Key, n \in 2..6, v \in BOOLEAN, count \in Count :
          \/ Send(redis_zrangebylex_cmd(k, n, v)) \/ Send(redis_gen_zlex_cmd(k, v))
          \/ Send(redis_zrandmember_cmd(k, count, v)) \/ Send(redis_pop_cmd(k, count))
          \/ Send(redis_zincrby_cmd(k))
    \/ \E k \in Key, w \in Scores, opts \in SUBSET {"exp", "range", "ch", "incr", "other"} :
          Send(redis_zadd_cmd(k, w, opts))

Scripts ==
    \/ \E args \in Lists, n \in -1..(MaxArgs + 1) : Send(redis_eval_cmd(args, n))
    \/ \E ks \in Lists, n \in Sizes : Standalone /\ Send(redis_fcall_cmd(ks, n))
    \/ \E op \in {"kill", "flush", "load", "exists"}, argc \in 1..3 :
          cluster /\ Send(redis_build_script_cmd(op, argc))
    \/ \E n \in Sizes : Standalone /\ Send(redis_script_cmd(n))
    \/ \E op \in {"delete", "flush", "list", "load", "restore", "dump", "unknown"},
          argc \in Sizes, mode_ok \in BOOLEAN : Standalone /\ Send(redis_function_cmd(op, argc, mode_ok))

Channels == \E ks \in Lists, b, typed \in BOOLEAN :
    \/ ks # << >> /\ Send(redis_subscribe_cmd(b, ks))
    \/ Send(redis_unsubscribe_cmd(ks))
    \/ \E op \in {"channels", "numsub", "numpat", "unknown"} :
          Standalone /\ Send(redis_pubsub_cmd(op, b, ks, typed))

Strings == \E k, j \in Key, a, b, c, d \in BOOLEAN, n \in Count :
    \/ Send(redis_set_cmd(k, n > -1 \/ a, n, a, b, c, d))
    \/ Send(redis_getex_cmd(k, a, n, b))
    \/ Send(redis_brpoplpush_cmd(k, j, n))
    \/ Send(redis_incr_cmd(k, n)) \/ Send(redis_decr_cmd(k, n))
    \/ \E mode \in {"none", "idx", "len"} : Send(redis_lcs_cmd(k, j, mode, a, b))
    \/ \E freshness \in {"none", "idletime", "freq"} : Send(redis_restore_cmd(k, freshness, a, b))
    \/ Send(redis_bitpos_cmd(k, a \/ b, b)) \/ Send(redis_bitcount_cmd(k, a))
    \/ Send(redis_setbit_cmd(k, a)) \/ Send(redis_copy_cmd(k, j, n, a))
    \/ Send(redis_expire_cmd(k, a, b)) \/ Send(redis_object_cmd(k, a))

Hashes == \E k \in Key, a \in BOOLEAN, n \in Count, size \in 0..(2 * MaxArgs) :
    \/ Send(redis_hincrby_cmd(k)) \/ Send(redis_hincrbyfloat_cmd(k)) \/ Send(redis_hstrlen_cmd(k))
    \/ Send(redis_hsetnx_cmd(k)) \/ \E fields \in Scores : Send(redis_hmget_cmd(k, fields))
    \/ size <= MaxArgs /\ (Send(redis_hmset_cmd(k, size)) \/ Send(redis_hdel_cmd(k, size)))
    \/ \E named \in 0..size : Send(redis_hset_cmd(k, a, size, named))
    \/ Send(redis_hrandfield_cmd(k, n, a))

ListsAndSets == \E k, j \in Key, a, b \in BOOLEAN, n, m \in Count :
    \/ Send(redis_srandmember_cmd(k, a))
    \/ Send(redis_lmove_cmd(k, j, a, b)) \/ Send(redis_linsert_cmd(k, a)) \/ Send(redis_lrem_cmd(k))
    \/ Send(redis_lpos_cmd(k, a, n, m)) \/ Send(redis_smove_cmd(k, j))

Sort == \E k, j \in Key, by, dir, store, get, alpha, limit \in BOOLEAN, gets \in Sizes :
    \/ \E left \in SlotLeft(k), given \in BOOLEAN :
          Send(redis_sort_cmd(k, left, given, by, dir, store, j, get, gets, alpha, limit))
    \/ \E given \in {"none", "array", "string", "empty"}, to \in {"none", "key", "empty"} :
          Standalone /\ Send(generic_sort_cmd(k, by, limit, given, gets, to, j, dir, alpha))

Geo == \E k, j \in Key, a, b \in BOOLEAN :
    \/ Send(redis_geodist_cmd(k, a))
    \/ \E argc \in 3..8 : Send(redis_geoadd_cmd(k, argc, a, b))
    \/ \E o \in GeoOptions : \/ Send(redis_georadius_cmd(k, o))
                             \/ Send(redis_georadiusbymember_cmd(k, o))
    \/ \E o \in GeoOptions, dims \in 0..3 : o.key = k /\
          (\/ Send(redis_geosearch_cmd(k, a, dims, o))
           \/ Send(redis_geosearchstore_cmd(j, k, a, dims, o)))

Server == Standalone /\ \E n, m \in Sizes, a, b, c \in BOOLEAN :
    \/ Send(redis_empty_cmd) \/ Send(redis_opt_str_cmd(a)) \/ Send(redis_str_cmd)
    \/ Send(redis_long_long_cmd) \/ Send(redis_failover_cmd(a, b, c, n > 0))
    \/ Send(redis_flush_cmd(a)) \/ Send(redis_replicaof_cmd) \/ Send(redis_info_cmd(n))
    \/ \E op \in {"other", "get", "set", "unknown"} : Send(redis_config_cmd(op, a, n, b))
    \/ \E op \in {"user", "dryrun", "list", "unknown"} : Send(redis_acl_cmd(op, n))
    \/ \E op \in {"get", "len", "unknown"} : Send(redis_slowlog_cmd(op, a))
    \/ Send(redis_auth_cmd(a, b)) \/ Send(redis_select_cmd(n - 1))
    \/ \E ks \in Lists, auth \in {"none", "pass", "both"} : Send(redis_migrate_cmd(a, ks, b, c, auth))
    \/ \E ids \in -1..MaxArgs : Send(redis_build_client_list_command(a, ids, b))
    \/ \E filters \in 0..6 : Send(redis_build_client_kill_command(a, filters, b))
    \/ \E flags \in 0..4 : Send(redis_build_client_tracking_command(n, a, m, b, flags))
    \/ \E op \in {"getname", "setname", "caching", "pause", "reply", "unpause", "unknown"} :
          Send(redis_client_cmd(op, n, a))
    \/ Send(redis_sentinel_cmd) \/ Send(redis_sentinel_str_cmd)

\* COMMAND goes to a node the caller names when the object is a cluster.
Describe == \E op \in {"none", "count", "docs", "unknown"}, n \in Sizes : Send(redis_command_cmd(op, n))

Streams == \E k \in Key, a, b, c \in BOOLEAN, n, m \in Count :
    \/ \E fields \in Sizes : Send(redis_xadd_cmd(k, a, fields, n, b))
    \/ Send(redis_xpending_cmd(k, a, b, n, c, m)) \/ Send(redis_xrange_cmd(k, n))
    \/ \E ks \in Lists : \/ Send(redis_xread_cmd(ks, n, m)) \/ Send(redis_xreadgroup_cmd(ks, a, n, b, m))
    \/ \E ids \in Sizes : \/ Send(redis_xack_cmd(k, ids))
                          \/ Send(redis_xclaim_cmd(k, ids, get_xclaim_options(n, m, a, b)))
    \/ Send(redis_xautoclaim_cmd(k, n, a))
    \/ \E op \in {"help", "create", "setid", "destroy", "unknown"}, given \in 0..3 :
          Send(redis_xgroup_cmd(op, k, given, a, n))
    \/ Send(redis_xinfo_cmd(a, k, b, n)) \/ Send(redis_xtrim_cmd(k, a, n))

Next == \/ Shared \/ ManyKeys \/ SortedSets \/ Scripts \/ Channels \/ Strings \/ Hashes
        \/ ListsAndSets \/ Sort \/ Geo \/ Server \/ Describe \/ Streams \/ Written

Spec == Init /\ [][Next]_<<cluster, sent>>

----------------------------------------------------------------------------
\* The builders whose argc disagrees with what they append.
Misframed == {"scan count < 0", "script kill", "script load", "hset array", "geosearch box",
              "client unpause", "client tracking string", "xpending idle", "xautoclaim count",
              "generic sort"}

IsKey(t) == Head(t) = "key"

\* A command declares as many arguments as it has: with fewer the server waits
\* for the rest and takes the next command for it, with more it executes the
\* first part and answers an error to each line of the second.  Whatever the
\* options combine to, except in the branches named above.
WellFramed == sent.ok /\ sent.fn \notin Misframed => sent.argc = Len(sent.toks)

\* The number of keys a command announces is the number of keys that follow:
\* what Redis, and its cluster, will lock and route by.  EVAL passes on the
\* number the caller gives, right or wrong.
KeysCounted ==
    sent.fn # "eval short" =>
        \A i \in DOMAIN sent.toks : Head(sent.toks[i]) = "numkeys" =>
            sent.toks[i][2] = Cardinality({j \in DOMAIN sent.toks : j > i /\ IsKey(sent.toks[j])})

\* A cluster command has a slot, and every key in it, prefix and all, hashes to
\* that slot.  Except: ZDIFF and its kin take slot 0 for no slot, EVAL with
\* arguments and no keys, XGROUP HELP and XINFO HELP leave *slot unassigned, and
\* SORT with options and a prefix hashes memory it has freed.
SlotZero == /\ sent.fn \in {"zdiff", "zinterunion"}
            /\ \E i \in DOMAIN sent.toks : IsKey(sent.toks[i]) /\ SlotOf[sent.toks[i][2]] = 0
Unrouted == {"eval keyless", "eval short", "xgroup help", "xinfo help", "sort prefixed"}
RoutedTogether ==
    cluster /\ sent.ok /\ ~SlotZero /\ sent.fn \notin Unrouted =>
        /\ sent.slot # Unset
        /\ \A i \in DOMAIN sent.toks :
              LET t == sent.toks[i] IN
              /\ Head(t) = "key" => SlotOf[t[2]] = sent.slot
              /\ Head(t) = "raw" /\ sent.fn # "raw" => RawSlotOf[t[2]] = sent.slot

\* cluster.md:123, "the RedisCluster class will verify each key maps to the same
\* hash slot": a command with several keys is sent only if they share a slot.
\* rawCommand() does not know which of its arguments are keys.
SlotsVerified ==
    cluster /\ sent.ok /\ sent.fn # "raw" =>
        \E slot \in KeySlots : \A i \in DOMAIN sent.toks :
            LET t == sent.toks[i] IN /\ Head(t) = "key" => SlotOf[t[2]] = slot
                                     /\ Head(t) = "raw" => RawSlotOf[t[2]] = slot
=============================================================================
