------------------------ MODULE RedisCommands_proofs ------------------------
(***************************************************************************)
(* Every command any method of Redis or RedisCluster can send is framed as *)
(* it declares, announces the keys that follow, and goes where all of its  *)
(* keys live: for any number of keys, any assignment of slots to them, and *)
(* lists of any length.                                                    *)
(*                                                                         *)
(* A command is built by appending, and the proof follows it: Has(s, slot, *)
(* n) says that s is n tokens long, announces nothing, and may be sent to  *)
(* that slot; appending keeps it (HasConcat).  Announced(s, slot, n) says  *)
(* the same of a run of tokens that announces its keys rightly; appending  *)
(* arguments that are no keys keeps that (AnnouncedThen).  Each builder    *)
(* appends what has one of the two, with the very sum argc was given, so   *)
(* its command is Good; and a step of the system sends a builder's command *)
(* or nothing.                                                             *)
(***************************************************************************)
EXTENDS RedisCommands, FiniteSetTheorems, SequenceTheorems, WellFoundedInduction, TLAPS

\* The tokens that announce no keys, and those of them that may go to a slot;
\* Unset stands for a command whose keys need not agree.
Uncounted == {Arg} \cup {K(k) : k \in Key} \cup {Raw(k) : k \in Key} \cup {Chan(k) : k \in Key}

At(slot) == {t \in Uncounted :
    cluster /\ slot # Unset => /\ Head(t) = "key" => SlotOf[t[2]] = slot
                               /\ Head(t) = "raw" => RawSlotOf[t[2]] = slot}

\* With numbers of keys; and what is no key and announces none.
Announcing(slot) == At(slot) \cup {N(n) : n \in Int}
KeyFree == {Arg} \cup {Chan(k) : k \in Key}

LEMMA Heads ==
    /\ Head(Arg) = "arg"
    /\ \A k \in Key : /\ Head(K(k)) = "key" /\ K(k)[2] = k
                      /\ Head(Raw(k)) = "raw" /\ Raw(k)[2] = k
                      /\ Head(Chan(k)) = "channel"
    /\ \A n \in Int : Head(N(n)) = "numkeys" /\ N(n)[2] = n
BY DEF Arg, K, Raw, Chan, N

LEMMA ArgsLength == \A slot : \A n \in Nat : Args(n) \in Seq(At(slot)) /\ Len(Args(n)) = n
<1>1. \A slot : Arg \in At(slot)
  BY Heads DEF At, Uncounted
<1> QED BY <1>1 DEF Args

LEMMA OptLength == \A b, slot : \A n \in Nat :
    Opt(b, n) \in Seq(At(slot)) /\ Len(Opt(b, n)) = B(b, n)
BY ArgsLength DEF Opt, B

LEMMA ConcatLength == \A S, s, t : s \in Seq(S) /\ t \in Seq(S) =>
    s \o t \in Seq(S) /\ Len(s \o t) = Len(s) + Len(t)
OBVIOUS

----------------------------------------------------------------------------
(* The three invariants, said of one command.                              *)

CountedIn(s) == \A i \in DOMAIN s : Head(s[i]) = "numkeys" =>
    s[i][2] = Cardinality({j \in DOMAIN s : j > i /\ IsKey(s[j])})

Framed(c) == c.ok /\ c.fn \notin Misframed => c.argc = Len(c.toks)
Counted(c) == c.fn # "eval short" => CountedIn(c.toks)
ZeroFirst(c) == /\ c.fn \in {"zdiff", "zinterunion"}
                /\ \E i \in DOMAIN c.toks : IsKey(c.toks[i]) /\ SlotOf[c.toks[i][2]] = 0
Together(c) ==
    cluster /\ c.ok /\ ~ZeroFirst(c) /\ c.fn \notin Unrouted =>
        /\ c.slot # Unset
        /\ \A i \in DOMAIN c.toks :
              /\ Head(c.toks[i]) = "key" => SlotOf[c.toks[i][2]] = c.slot
              /\ Head(c.toks[i]) = "raw" /\ c.fn # "raw" => RawSlotOf[c.toks[i][2]] = c.slot
Good(c) == Framed(c) /\ Counted(c) /\ Together(c)

LEMMA KeyToken == ASSUME NEW k \in Key, NEW slot, cluster /\ slot # Unset => SlotOf[k] = slot
                  PROVE  K(k) \in At(slot)
BY Heads DEF At, Uncounted

LEMMA RawToken == ASSUME NEW k \in Key, NEW slot, cluster /\ slot # Unset => RawSlotOf[k] = slot
                  PROVE  Raw(k) \in At(slot)
BY Heads DEF At, Uncounted

LEMMA OtherTokens == \A slot : /\ Arg \in At(slot)
                               /\ \A k \in Key : Chan(k) \in At(slot)
BY Heads DEF At, Uncounted

LEMMA UncountedHead == \A t \in Uncounted : Head(t) # "numkeys"
BY Heads DEF Uncounted

LEMMA AtUncounted == \A slot : At(slot) \subseteq Uncounted
BY DEF At

LEMMA NoneAnnounced == ASSUME NEW s \in Seq(Uncounted) PROVE CountedIn(s)
BY UncountedHead DEF CountedIn

LEMMA SeqWidens == ASSUME NEW S, NEW T, S \subseteq T, NEW s \in Seq(S) PROVE s \in Seq(T)
OBVIOUS

LEMMA OneNode ==
    ASSUME NEW fn, NEW argc, NEW slot, NEW toks \in Seq(At(slot)),
           fn \notin Misframed => argc = Len(toks),
           cluster => slot # Unset \/ fn \in Unrouted
    PROVE  Good(Command(fn, argc, toks, slot))
<1> DEFINE c == Command(fn, argc, toks, slot)
<1>1. c.fn = fn /\ c.argc = argc /\ c.toks = toks /\ c.slot = slot
  BY DEF Command
<1> HIDE DEF c
<1>2. Framed(c)
  BY <1>1 DEF Framed
<1>3. Counted(c)
  BY <1>1, AtUncounted, SeqWidens, NoneAnnounced DEF Counted
<1>4. Together(c)
  BY <1>1 DEF Together, At
<1> QED BY <1>2, <1>3, <1>4 DEF Good, c

LEMMA GoodRefused == Good(Refused)
BY DEF Refused, Good, Framed, Counted, Together, CountedIn

LEMMA GoodWhen == ASSUME NEW guard, NEW c, guard => Good(c) PROVE Good(When(guard, c))
BY GoodRefused DEF When

LEMMA Slots == /\ \A k \in Key : SlotOf[k] \in Nat /\ SlotOf[k] # Unset
               /\ AnySlot # Unset
BY CommandAssumption DEF Unset, AnySlot

----------------------------------------------------------------------------
(* Tokens that announce nothing.                                           *)

Has(s, slot, n) == s \in Seq(At(slot)) /\ Len(s) = n

LEMMA HasKey == \A k \in Key : Has(<<K(k)>>, SlotOf[k], 1)
BY KeyToken DEF Has

LEMMA HasNone == \A slot : Has(<< >>, slot, 0)
BY DEF Has

LEMMA HasArgs == \A slot : \A n \in Nat : Has(Args(n), slot, n)
BY ArgsLength DEF Has

LEMMA HasOpt == \A b, slot : \A n \in Nat : Has(Opt(b, n), slot, B(b, n))
BY OptLength DEF Has

LEMMA HasConcat == \A s, t, slot, m, n :
    Has(s, slot, m) /\ Has(t, slot, n) => Has(s \o t, slot, m + n)
BY ConcatLength DEF Has

LEMMA NatB == \A b : \A n \in Nat : B(b, n) \in Nat
BY DEF B

LEMMA HasKeyArgs ==
    \A k \in Key : /\ \A n \in Nat : Has(<<K(k)>> \o Args(n), SlotOf[k], 1 + n)
                   /\ Has(<<K(k)>> \o Args(1), SlotOf[k], 2)
                   /\ Has(<<K(k)>> \o Args(2), SlotOf[k], 3)
                   /\ Has(<<K(k)>> \o Args(3), SlotOf[k], 4)
                   /\ Has(<<K(k)>> \o Args(4), SlotOf[k], 5)
<1> SUFFICES ASSUME NEW k \in Key
             PROVE  \A n \in Nat : Has(<<K(k)>> \o Args(n), SlotOf[k], 1 + n)
  <2> HIDE DEF Has
  <2>1. 1 + 1 = 2 /\ 1 + 2 = 3 /\ 1 + 3 = 4 /\ 1 + 4 = 5
    OBVIOUS
  <2> QED BY <2>1
<1> QED BY HasKey, HasArgs, HasConcat, Zenon

LEMMA Sent ==
    ASSUME NEW fn, NEW argc, NEW slot, NEW toks, Has(toks, slot, argc), slot # Unset
    PROVE  Good(Command(fn, argc, toks, slot))
BY OneNode DEF Has

LEMMA SentOff ==
    ASSUME NEW fn, NEW argc, NEW slot, NEW toks, NEW n, Has(toks, slot, n), slot # Unset,
           fn \in Misframed
    PROVE  Good(Command(fn, argc, toks, slot))
BY OneNode DEF Has

LEMMA GoodKeyed == \A fn : \A n \in Nat, k \in Key : Good(Keyed(fn, k, n))
<1> SUFFICES ASSUME NEW fn, NEW n \in Nat, NEW k \in Key PROVE Good(Keyed(fn, k, n))
  OBVIOUS
<1>1. Has(<<K(k)>> \o Args(n), SlotOf[k], Len(<<K(k)>> \o Args(n)))
  BY HasKeyArgs DEF Has
<1> QED BY <1>1, Slots, Sent DEF Keyed, redis_spprintf

LEMMA SendGood == ASSUME NEW c, Good(c), Send(c) PROVE Good(sent)'
BY DEF Send, Good, Framed, Counted, Together, CountedIn, ZeroFirst

----------------------------------------------------------------------------

LEMMA HasKeys ==
    ASSUME NEW ks \in Seq(Key), NEW slot,
           cluster /\ slot # Unset => \A i \in DOMAIN ks : SlotOf[ks[i]] = slot
    PROVE  Has(Keys(ks), slot, Len(ks))
<1>1. \A i \in 1..Len(ks) : K(ks[i]) \in At(slot)
  BY KeyToken
<1>2. DOMAIN ks = 1..Len(ks) /\ Len(ks) \in Nat
  OBVIOUS
<1>3. Keys(ks) = [i \in 1..Len(ks) |-> K(ks[i])]
  BY <1>2, Zenon DEF Keys
<1> QED BY <1>1, <1>2, <1>3 DEF Has

LEMMA HasKeysSame ==
    ASSUME NEW ks \in Seq(Key), SameSlot(ks)
    PROVE  \A i \in DOMAIN ks : Has(Keys(ks), SlotOf[ks[i]], Len(ks))
BY HasKeys DEF SameSlot

LEMMA HasPair ==
    ASSUME NEW k \in Key, NEW j \in Key, SameSlot(<<k, j>>)
    PROVE  Has(Keys(<<k, j>>), SlotOf[k], 2) /\ Has(Keys(<<k, j>>), SlotOf[j], 2)
<1>1. <<k, j>> \in Seq(Key) /\ Len(<<k, j>>) = 2 /\ DOMAIN <<k, j>> = 1..2
  OBVIOUS
<1>2. <<k, j>>[1] = k /\ 1 \in DOMAIN <<k, j>> /\ <<k, j>>[2] = j /\ 2 \in DOMAIN <<k, j>>
  BY <1>1
<1> QED BY <1>1, <1>2, HasKeysSame

LEMMA HasPairArgs ==
    ASSUME NEW k \in Key, NEW j \in Key, SameSlot(<<k, j>>)
    PROVE  /\ Has(Keys(<<k, j>>) \o Args(1), SlotOf[k], 3)
           /\ Has(Keys(<<k, j>>) \o Args(2), SlotOf[k], 4)
<1>1. Has(Keys(<<k, j>>) \o Args(1), SlotOf[k], 2 + 1) /\ Has(Keys(<<k, j>>) \o Args(2), SlotOf[k], 2 + 2)
  BY HasPair, HasArgs, HasConcat
<1>2. 2 + 1 = 3 /\ 2 + 2 = 4
  OBVIOUS
<1> QED BY <1>1, <1>2

LEMMA ListsAndSetsGood == ListsAndSets => Good(sent)'
<1>1. \A a : \A k \in Key : Good(redis_srandmember_cmd(k, a))
  BY Sent, HasKey, Slots, HasOpt, HasConcat, Zenon DEF redis_srandmember_cmd
<1>2. \A a, b : \A k, j \in Key : Good(redis_lmove_cmd(k, j, a, b))
  BY Sent, GoodRefused, HasPairArgs, Slots, HasOpt, HasConcat, Zenon DEF redis_lmove_cmd, When
<1>3. \A a : \A k \in Key : Good(redis_linsert_cmd(k, a)) /\ Good(redis_lrem_cmd(k))
  BY GoodKeyed, GoodRefused DEF redis_linsert_cmd, redis_lrem_cmd, When
<1>4. \A a, n, m : \A k \in Key : Good(redis_lpos_cmd(k, a, n, m))
  BY Sent, HasKeyArgs, Slots, HasOpt, HasConcat, Zenon DEF redis_lpos_cmd
<1>5. \A k, j \in Key : Good(redis_smove_cmd(k, j))
  BY Sent, GoodRefused, HasPairArgs, Slots, Zenon DEF redis_smove_cmd, When
<1> QED BY <1>1, <1>2, <1>3, <1>4, <1>5, SendGood, Zenon DEF ListsAndSets

LEMMA SentEqual ==
    ASSUME NEW fn, NEW argc, NEW slot, NEW toks, NEW n, Has(toks, slot, n), argc = n, slot # Unset
    PROVE  Good(Command(fn, argc, toks, slot))
BY Sent

LEMMA Bounds ==
    /\ MaxArgs \in Nat /\ Sizes \subseteq Nat /\ Count \subseteq Int
    /\ \A n \in 0..(2 * MaxArgs) : n \in Nat /\ 0..n \subseteq Nat
BY CommandAssumption DEF Sizes, Count

LEMMA Fields ==
    \A fn, argc, toks, slot :
        LET c == Command(fn, argc, toks, slot) IN
        c.fn = fn /\ c.argc = argc /\ c.toks = toks /\ c.slot = slot /\ c.ok
BY DEF Command

LEMMA ScanGood ==
    ASSUME NEW keyed \in BOOLEAN, NEW k \in Key, NEW pattern \in BOOLEAN, NEW count \in Int,
           NEW match_type
    PROVE  /\ Good(redis_fmt_scan_cmd(keyed, k, pattern, count))
           /\ Good(redis_build_scan_cmd(keyed, k, pattern, count, match_type))
<1> DEFINE slot == IF keyed THEN SlotOf[k] ELSE AnySlot
           first == IF keyed THEN <<K(k)>> ELSE << >>
           toks == first \o Args(1) \o Opt(count # 0, 2) \o Opt(pattern, 2)
           size == B(keyed, 1) + 1 + B(count # 0, 2) + B(pattern, 2)
           argc == 1 + B(keyed, 1) + B(pattern, 2) + B(count > 0, 2)
           fn == IF count < 0 THEN "scan count < 0" ELSE "scan"
<1>1. Has(first, slot, B(keyed, 1))
  <2>1. CASE keyed
    BY <2>1, HasKey, Zenon DEF B
  <2>2. CASE ~keyed
    BY <2>2, HasNone, Zenon DEF B
  <2> QED BY <2>1, <2>2
<1>2. Has(toks, slot, size)
  <2> HIDE DEF first, slot
  <2> QED BY <1>1, HasArgs, HasOpt, HasConcat, Zenon
<1>3. Has(toks \o Opt(match_type, 2), slot, size + B(match_type, 2))
  <2> HIDE DEF toks, slot, size
  <2> QED BY <1>2, HasOpt, HasConcat, Zenon
<1>4. fn \notin Misframed => argc = size
  <2>1. count < 0 => fn \in Misframed
    BY DEF Misframed
  <2>2. count >= 0 => B(count # 0, 2) = B(count > 0, 2)
    BY DEF B
  <2>3. B(keyed, 1) \in Nat /\ B(pattern, 2) \in Nat /\ B(count > 0, 2) \in Nat
    BY DEF B
  <2> HIDE DEF fn
  <2> QED BY <2>1, <2>2, <2>3
<1>5. slot # Unset
  BY Slots
<1>6. redis_fmt_scan_cmd(keyed, k, pattern, count) = Command(fn, argc, toks, slot)
  BY DEF redis_fmt_scan_cmd
<1>7. redis_build_scan_cmd(keyed, k, pattern, count, match_type)
         = Command(fn, argc + B(match_type, 2), toks \o Opt(match_type, 2), slot)
  <2> HIDE DEF fn, argc, toks, slot
  <2> DEFINE c == redis_fmt_scan_cmd(keyed, k, pattern, count)
  <2>1. c.fn = fn /\ c.argc = argc /\ c.toks = toks /\ c.slot = slot
    BY <1>6 DEF Command
  <2>2. redis_build_scan_cmd(keyed, k, pattern, count, match_type)
          = Command(c.fn, c.argc + B(match_type, 2), c.toks \o Opt(match_type, 2), c.slot)
    BY Zenon DEF redis_build_scan_cmd
  <2> HIDE DEF c
  <2> QED BY <2>1, <2>2, Zenon
<1> HIDE DEF fn, argc, toks, slot, size, first
<1> QED BY <1>2, <1>3, <1>4, <1>5, <1>6, <1>7, Sent, SentOff

LEMMA SharedGood == Shared => Good(sent)'
<1>1. \A k \in Key :
         /\ Good(redis_key_cmd(k)) /\ Good(redis_key_long_cmd(k)) /\ Good(redis_key_dbl_cmd(k))
         /\ Good(redis_kv_cmd(k)) /\ Good(redis_key_str_cmd(k)) /\ Good(redis_key_long_val_cmd(k))
         /\ Good(redis_key_long_str_cmd(k)) /\ Good(redis_key_str_str_cmd(k))
         /\ Good(redis_key_long_long_cmd(k))
  BY GoodKeyed, Zenon DEF redis_key_cmd, redis_key_long_cmd, redis_key_dbl_cmd, redis_kv_cmd,
        redis_key_str_cmd, redis_key_long_val_cmd, redis_key_long_str_cmd, redis_key_str_str_cmd,
        redis_key_long_long_cmd
<1>2. \A k, j \in Key : Good(redis_key_key_cmd(k, j))
  BY Sent, GoodRefused, HasPair, Slots, Zenon DEF redis_key_key_cmd, When
<1>3. \A k \in Key, n \in Nat : /\ Good(redis_key_val_arr_cmd(k, n))
                              /\ Good(redis_key_str_arr_cmd(k, n))
  BY Sent, GoodRefused, HasKeyArgs, Slots, Zenon
     DEF redis_key_val_arr_cmd, redis_key_str_arr_cmd, gen_key_arr_cmd, When
<1>4. \A k \in Key, n \in Nat : Good(redis_key_varval_cmd(k, n))
  <2> TAKE k \in Key, n \in Nat
  <2>1. (1 + n) - 1 = n
    OBVIOUS
  <2>2. Has(<<K(k)>> \o Args((1 + n) - 1), SlotOf[k], 1 + n)
    BY <2>1, HasKeyArgs, Zenon
  <2> QED BY <2>2, Sent, GoodRefused, Slots, Zenon DEF redis_key_varval_cmd, When
<1>5. \A keyed, pattern, m \in BOOLEAN, count \in Count, k \in Key :
         /\ Good(redis_fmt_scan_cmd(keyed, k, pattern, count))
         /\ Good(redis_build_scan_cmd(keyed, k, pattern, count, m /\ ~keyed))
  BY ScanGood, Bounds
<1> QED BY <1>1, <1>2, <1>3, <1>4, <1>5, SendGood, Bounds, Zenon DEF Shared

LEMMA StringsGood == Strings => Good(sent)'
<1>1. \A exp_set, expire, exp_type, set_type, keep_ttl, get : \A k \in Key :
         Good(redis_set_cmd(k, exp_set, expire, exp_type, set_type, keep_ttl, get))
  <2> TAKE exp_set, expire, exp_type, set_type, keep_ttl, get
  <2> TAKE k \in Key
  <2>1. Good(Keyed("setex", k, 2))
    BY GoodKeyed
  <2> QED BY <2>1, Sent, GoodRefused, HasKeyArgs, HasOpt, HasConcat, Slots, Zenon
             DEF redis_set_cmd, When
<1>2. \A exp_type, expire, persist : \A k \in Key : Good(redis_getex_cmd(k, exp_type, expire, persist))
  <2> TAKE exp_type, expire, persist
  <2> TAKE k \in Key
  <2> DEFINE stays == persist /\ ~exp_type
  <2>1. Has(<<K(k)>> \o Opt(exp_type, 2) \o Opt(stays, 1), SlotOf[k],
            1 + B(exp_type, 2) + B(stays, 1))
    BY HasKey, HasOpt, HasConcat, Zenon
  <2>2. 1 + B(exp_type, 2) + B(stays, 1) = 1 + (IF exp_type THEN 2 ELSE B(stays, 1))
    BY DEF B
  <2>3. Has(<<K(k)>> \o Opt(exp_type, 2) \o Opt(stays, 1), SlotOf[k],
            1 + (IF exp_type THEN 2 ELSE B(stays, 1)))
    BY <2>1, <2>2, Zenon
  <2> QED BY <2>3, Sent, GoodRefused, Slots, Zenon DEF redis_getex_cmd, When
<1>3. \A timeout \in Count : \A k, j \in Key : Good(redis_brpoplpush_cmd(k, j, timeout))
  <2> TAKE timeout \in Count
  <2> TAKE k \in Key, j \in Key
  <2>1. 2 + B(timeout >= 0, 1) = IF timeout < 0 THEN 2 ELSE 3
    BY Bounds DEF B
  <2>2. SameSlot(<<k, j>>) => Has(Keys(<<k, j>>) \o Opt(timeout >= 0, 1), SlotOf[k],
                                  IF timeout < 0 THEN 2 ELSE 3)
    BY <2>1, HasPair, HasOpt, HasConcat, Zenon
  <2> QED BY <2>2, Sent, GoodRefused, Slots, Zenon DEF redis_brpoplpush_cmd, When
<1>4. \A n : \A k \in Key : Good(redis_incr_cmd(k, n)) /\ Good(redis_decr_cmd(k, n))
  BY GoodKeyed, Zenon DEF redis_incr_cmd, redis_decr_cmd, redis_atomic_increment
<1>5. \A mode, withmatchlen, minmatchlen : \A k, j \in Key :
         Good(redis_lcs_cmd(k, j, mode, withmatchlen, minmatchlen))
  <2> TAKE mode, a, b
  <2> TAKE k \in Key, j \in Key
  <2>1. B(mode # "none", 1) \in Nat /\ B(a, 1) \in Nat /\ B(b, 2) \in Nat
    BY NatB
  <2>2. 2 + B(mode # "none", 1) + B(a, 1) + B(b, 2) = 2 + redis_get_lcs_options(mode, a, b)
    BY <2>1 DEF redis_get_lcs_options
  <2>3. SameSlot(<<k, j>>) =>
          Has(Keys(<<k, j>>) \o Opt(mode # "none", 1) \o Opt(a, 1) \o Opt(b, 2), SlotOf[k],
              2 + redis_get_lcs_options(mode, a, b))
    BY <2>2, HasPair, HasOpt, HasConcat, Zenon
  <2> QED BY <2>3, Sent, GoodRefused, Slots, Zenon DEF redis_lcs_cmd, When
<1>6. \A freshness, absttl, replace : \A k \in Key :
         Good(redis_restore_cmd(k, freshness, absttl, replace))
  <2> TAKE freshness, a, r
  <2> TAKE k \in Key
  <2>1. B(freshness # "none", 2) \in Nat /\ B(a, 1) \in Nat /\ B(r, 1) \in Nat
    BY NatB
  <2>2. 3 + B(r, 1) + B(a, 1) + B(freshness # "none", 2)
          = 3 + redis_get_restore_options(freshness, a, r)
    BY <2>1 DEF redis_get_restore_options
  <2>3. Has(<<K(k)>> \o Args(2) \o Opt(r, 1) \o Opt(a, 1) \o Opt(freshness # "none", 2),
            SlotOf[k], 3 + redis_get_restore_options(freshness, a, r))
    BY <2>2, HasKeyArgs, HasOpt, HasConcat, Zenon
  <2> QED BY <2>3, Sent, Slots, Zenon DEF redis_restore_cmd
<1>7. \A range, bybit : \A k \in Key : Good(redis_bitpos_cmd(k, range, bybit))
  BY Sent, HasKeyArgs, HasOpt, HasConcat, Slots, Zenon DEF redis_bitpos_cmd
<1>8. \A a : \A k \in Key : Good(redis_bitcount_cmd(k, a)) /\ Good(redis_setbit_cmd(k, a))
  BY GoodKeyed, GoodRefused, Zenon DEF redis_bitcount_cmd, redis_setbit_cmd, When
<1>9. \A db, replace : \A k, j \in Key : Good(redis_copy_cmd(k, j, db, replace))
  BY Sent, GoodRefused, HasPair, HasOpt, HasConcat, Slots, Zenon DEF redis_copy_cmd, When
<1>10. \A mode, known : \A k \in Key : Good(redis_expire_cmd(k, mode, known))
  <2> TAKE mode, known
  <2> TAKE k \in Key
  <2>1. 1 + B(mode, 1) \in Nat /\ 1 + (1 + B(mode, 1)) = 2 + B(mode, 1)
    BY NatB
  <2>2. Has(<<K(k)>> \o Args(1 + B(mode, 1)), SlotOf[k], 2 + B(mode, 1))
    BY <2>1, HasKeyArgs, Zenon
  <2> QED BY <2>2, Sent, GoodRefused, Slots, Zenon DEF redis_expire_cmd, When
<1>11. \A known : \A k \in Key : Good(redis_object_cmd(k, known))
  <2>1. \A k \in Key : Has(<<Arg, K(k)>>, SlotOf[k], 2)
    BY KeyToken, OtherTokens DEF Has
  <2> QED BY <2>1, Sent, GoodRefused, Slots, Zenon DEF redis_object_cmd, When
<1> QED BY <1>1, <1>2, <1>3, <1>4, <1>5, <1>6, <1>7, <1>8, <1>9, <1>10, <1>11, SendGood,
        SMTT(60) DEF Strings

LEMMA HasHmget ==
    ASSUME NEW fields \in Scores
    PROVE  Cardinality({i \in DOMAIN fields : fields[i]}) \in Nat
<1>1. PICK n \in Sizes : fields \in [1..n -> BOOLEAN]
  BY DEF Scores
<1>2. IsFiniteSet(1..n)
  BY <1>1, Bounds, FS_Interval
<1>3. {i \in DOMAIN fields : fields[i]} \subseteq 1..n
  BY <1>1
<1> QED BY <1>2, <1>3, FS_Subset, FS_CardinalityType

LEMMA HashesGood == Hashes => Good(sent)'
<1>1. \A k \in Key : /\ Good(redis_hincrby_cmd(k)) /\ Good(redis_hincrbyfloat_cmd(k))
                     /\ Good(redis_hstrlen_cmd(k)) /\ Good(redis_hsetnx_cmd(k))
  BY GoodKeyed, Zenon DEF redis_hincrby_cmd, redis_hincrbyfloat_cmd, redis_hstrlen_cmd,
        redis_hsetnx_cmd
<1>2. \A k \in Key, fields \in Scores : Good(redis_hmget_cmd(k, fields))
  BY Sent, GoodRefused, HasHmget, HasKeyArgs, Slots, Zenon DEF redis_hmget_cmd, When
<1>3. \A k \in Key, n \in Nat : Good(redis_hmset_cmd(k, n)) /\ Good(redis_hdel_cmd(k, n))
  <2>1. \A n \in Nat : 2 * n \in Nat
    OBVIOUS
  <2> QED BY <2>1, Sent, GoodRefused, HasKeyArgs, Slots, Zenon
             DEF redis_hmset_cmd, redis_hdel_cmd, When
<1>4. \A array : \A k \in Key, n, named \in Nat : Good(redis_hset_cmd(k, array, n, named))
  <2>1. \A n \in Nat : 2 * n \in Nat
    OBVIOUS
  <2>2. "hset array" \in Misframed
    BY DEF Misframed
  <2> QED BY <2>1, <2>2, Sent, SentOff, GoodRefused, HasKeyArgs, Slots, Zenon
             DEF redis_hset_cmd, When
<1>5. \A n, a : \A k \in Key : Good(redis_hrandfield_cmd(k, n, a))
  BY Sent, HasKey, HasOpt, HasConcat, Slots, Zenon DEF redis_hrandfield_cmd
<1> QED BY <1>1, <1>2, <1>3, <1>4, <1>5, SendGood, Bounds, Zenon DEF Hashes

----------------------------------------------------------------------------

(* Tokens that announce keys.                                              *)

FreeOf(s, n) == s \in Seq(KeyFree) /\ Len(s) = n
Announced(s, slot, n) == s \in Seq(Announcing(slot)) /\ Len(s) = n /\ CountedIn(s)

LEMMA ListsAreSequences == \A ks \in Lists : ks \in Seq(Key) /\ Len(ks) \in Nat
BY Bounds DEF Lists

LEMMA HasLast ==
    ASSUME NEW ks \in Lists, ks # << >>, SameSlot(ks)
    PROVE  Has(Keys(ks), SlotOfLast(ks), Len(ks)) /\ SlotOfLast(ks) # Unset
<1>1. ks \in Seq(Key) /\ Len(ks) \in DOMAIN ks
  BY ListsAreSequences
<1>2. SlotOfLast(ks) = SlotOf[ks[Len(ks)]]
  BY DEF SlotOfLast, Last
<1> QED BY <1>1, <1>2, HasKeysSame, Slots

LEMMA Elsewhere ==
    ASSUME NEW fn, NEW argc, NEW slot, NEW toks, ~cluster, Has(toks, Unset, argc)
    PROVE  Good(Command(fn, argc, toks, slot))
<1>1. toks \in Seq(At(slot))
  BY DEF Has, At
<1> QED BY <1>1, OneNode DEF Has

LEMMA FreeArgs == \A n \in Nat : FreeOf(Args(n), n)
BY DEF FreeOf, Args, KeyFree

LEMMA FreeOpt == \A b : \A n \in Nat : FreeOf(Opt(b, n), B(b, n))
BY FreeArgs DEF Opt, B, FreeOf

LEMMA AnnouncingToken == \A slot : \A t \in Announcing(slot) :
    cluster /\ slot # Unset => /\ Head(t) = "key" => SlotOf[t[2]] = slot
                               /\ Head(t) = "raw" => RawSlotOf[t[2]] = slot
BY Heads DEF Announcing, At

LEMMA SentAnnounced ==
    ASSUME NEW fn, NEW argc, NEW slot, NEW toks, Announced(toks, slot, argc), cluster => slot # Unset
    PROVE  Good(Command(fn, argc, toks, slot))
<1> DEFINE c == Command(fn, argc, toks, slot)
<1>1. c.fn = fn /\ c.argc = argc /\ c.toks = toks /\ c.slot = slot
  BY DEF Command
<1> HIDE DEF c
<1>2. Framed(c) /\ Counted(c)
  BY <1>1 DEF Framed, Counted, Announced
<1>3. Together(c)
  BY <1>1, AnnouncingToken DEF Together, Announced
<1> QED BY <1>2, <1>3 DEF Good, c

LEMMA KeyFreeToken == \A t \in KeyFree : /\ Head(t) # "numkeys" /\ ~IsKey(t)
                                         /\ \A slot : t \in Announcing(slot)
BY Heads, OtherTokens DEF KeyFree, IsKey, Announcing

LEMMA AnnouncedThen ==
    ASSUME NEW s, NEW t, NEW slot, NEW m, NEW n, Announced(s, slot, m), FreeOf(t, n)
    PROVE  Announced(s \o t, slot, m + n)
<1> DEFINE r == s \o t
<1>1. r \in Seq(Announcing(slot)) /\ Len(r) = m + n
  BY KeyFreeToken DEF Announced, FreeOf
<1>2. /\ \A i \in 1..Len(s) : r[i] = s[i]
      /\ \A i \in 1..Len(r) : i > Len(s) => r[i] \in KeyFree
      /\ Len(s) \in Nat /\ Len(s) <= Len(r) /\ Len(r) \in Nat
  BY DEF Announced, FreeOf
<1>3. DOMAIN s = 1..Len(s) /\ DOMAIN r = 1..Len(r)
  BY <1>1 DEF Announced
<1> HIDE DEF r
<1>4. ASSUME NEW i \in DOMAIN r, Head(r[i]) = "numkeys"
      PROVE  r[i][2] = Cardinality({j \in DOMAIN r : j > i /\ IsKey(r[j])})
  <2>1. i \in DOMAIN s /\ r[i] = s[i]
    BY <1>2, <1>3, <1>4, KeyFreeToken
  <2>2. {j \in DOMAIN r : j > i /\ IsKey(r[j])} = {j \in DOMAIN s : j > i /\ IsKey(s[j])}
    BY <1>2, <1>3, KeyFreeToken
  <2>3. s[i][2] = Cardinality({j \in DOMAIN s : j > i /\ IsKey(s[j])})
    BY <2>1, <1>4 DEF Announced, CountedIn
  <2> QED BY <2>1, <2>2, <2>3
<1>5. CountedIn(r)
  BY <1>4 DEF CountedIn
<1> QED BY <1>1, <1>5 DEF Announced, r

LEMMA Announces ==
    ASSUME NEW pre, NEW ks \in Seq(Key), NEW slot, NEW m \in Nat, Has(pre, slot, m),
           Has(Keys(ks), slot, Len(ks))
    PROVE  Announced(pre \o <<N(Len(ks))>> \o Keys(ks), slot, m + 1 + Len(ks))
<1> DEFINE r == pre \o <<N(Len(ks))>> \o Keys(ks)
           l == Len(ks)
<1>1. l \in Nat /\ pre \in Seq(At(slot)) /\ Len(pre) = m /\ Keys(ks) \in Seq(At(slot)) /\ Len(Keys(ks)) = l
  BY DEF Has
<1>2. N(l) \in Announcing(slot) /\ At(slot) \subseteq Announcing(slot)
  BY <1>1 DEF Announcing
<1>3. pre \in Seq(Announcing(slot)) /\ Keys(ks) \in Seq(Announcing(slot)) /\ <<N(l)>> \in Seq(Announcing(slot))
  BY <1>1, <1>2, SeqWidens
<1>4. r \in Seq(Announcing(slot)) /\ Len(r) = m + 1 + l
  BY <1>1, <1>3
<1>5. /\ \A i \in 1..m : r[i] = pre[i]
      /\ r[m + 1] = N(l)
      /\ \A i \in 1..l : r[m + 1 + i] = Keys(ks)[i]
  BY <1>1, <1>3
<1>6. \A i \in (m + 2)..(m + 1 + l) : r[i] = Keys(ks)[i - (m + 1)] /\ i - (m + 1) \in 1..l
  <2> HIDE DEF r
  <2> TAKE i \in (m + 2)..(m + 1 + l)
  <2>1. i - (m + 1) \in 1..l /\ i = m + 1 + (i - (m + 1))
    BY <1>1
  <2> QED BY <1>5, <2>1
<1>7. \A i \in 1..l : IsKey(Keys(ks)[i])
  <2>1. \A i \in 1..l : Keys(ks)[i] = K(ks[i]) /\ ks[i] \in Key
    BY DEF Keys
  <2> QED BY <2>1, Heads DEF IsKey
<1>8. \A t \in At(slot) : Head(t) # "numkeys"
  BY UncountedHead, AtUncounted
<1>9. DOMAIN r = 1..(m + 1 + l)
  BY <1>4
<1> HIDE DEF r, l
<1>10. ASSUME NEW i \in DOMAIN r, Head(r[i]) = "numkeys"
       PROVE  r[i][2] = Cardinality({j \in DOMAIN r : j > i /\ IsKey(r[j])})
  <2>1. i = m + 1
    <3>1. i \in 1..m \/ i = m + 1 \/ i \in (m + 2)..(m + 1 + l)
      BY <1>1, <1>9
    <3>2. i \notin 1..m
      BY <1>1, <1>5, <1>8, <1>10
    <3>3. i \notin (m + 2)..(m + 1 + l)
      BY <1>1, <1>6, <1>8, <1>10
    <3> QED BY <3>1, <3>2, <3>3
  <2>2. {j \in DOMAIN r : j > i /\ IsKey(r[j])} = (m + 2)..(m + 1 + l)
    <3>1. \A j \in (m + 2)..(m + 1 + l) : IsKey(r[j])
      BY <1>6, <1>7
    <3> QED BY <2>1, <3>1, <1>1, <1>9
  <2>3. Cardinality((m + 2)..(m + 1 + l)) = l
    BY <1>1, FS_Interval
  <2>4. r[i][2] = l
    BY <2>1, <1>1, <1>5, Heads
  <2> QED BY <2>2, <2>3, <2>4
<1>11. CountedIn(r)
  BY <1>10 DEF CountedIn
<1> QED BY <1>4, <1>11 DEF Announced, r, l

LEMMA HasAnywhere == \A ks \in Lists : Has(Keys(ks), Unset, Len(ks))
BY ListsAreSequences, HasKeys

LEMMA HasRest ==
    ASSUME NEW k \in Key, NEW ks \in Lists, SameSlot(<<k>> \o ks)
    PROVE  Has(Keys(ks), SlotOf[k], Len(ks))
<1> DEFINE all == <<k>> \o ks
<1>1. ks \in Seq(Key) /\ Len(ks) \in Nat
  BY ListsAreSequences
<1>2. DOMAIN all = 1..(1 + Len(ks)) /\ all[1] = k /\ \A i \in 1..Len(ks) : all[i + 1] = ks[i]
  BY <1>1
<1>3. cluster => \A i, j \in DOMAIN all : SlotOf[all[i]] = SlotOf[all[j]]
  BY DEF SameSlot
<1> HIDE DEF all
<1>4. cluster => \A i \in DOMAIN ks : SlotOf[ks[i]] = SlotOf[k]
  <2> SUFFICES ASSUME cluster, NEW i \in 1..Len(ks) PROVE SlotOf[ks[i]] = SlotOf[k]
    BY <1>1
  <2>1. i + 1 \in DOMAIN all /\ 1 \in DOMAIN all
    BY <1>1, <1>2
  <2> QED BY <2>1, <1>2, <1>3
<1> QED BY <1>1, <1>4, HasKeys

LEMMA AnnouncesFirst ==
    ASSUME NEW ks \in Lists, NEW slot, Has(Keys(ks), slot, Len(ks))
    PROVE  Announced(<<N(Len(ks))>> \o Keys(ks), slot, 1 + Len(ks))
<1>1. ks \in Seq(Key) /\ Len(ks) \in Nat
  BY ListsAreSequences
<1>2. Announced(<< >> \o <<N(Len(ks))>> \o Keys(ks), slot, 0 + 1 + Len(ks))
  BY <1>1, HasNone, Announces
<1>3. << >> \o <<N(Len(ks))>> = <<N(Len(ks))>> /\ 0 + 1 + Len(ks) = 1 + Len(ks)
  BY <1>1
<1> QED BY <1>2, <1>3, Zenon

LEMMA MsetTokens ==
    ASSUME NEW ks \in Lists
    PROVE  Has([i \in 1..(Len(ks) * 2) |-> IF i % 2 = 1 THEN K(ks[(i + 1) \div 2]) ELSE Arg],
               Unset, Len(ks) * 2)
<1>1. ks \in Seq(Key) /\ Len(ks) \in Nat /\ Len(ks) * 2 \in Nat
  BY ListsAreSequences
<1>2. ASSUME NEW i \in 1..(Len(ks) * 2), i % 2 = 1
      PROVE  K(ks[(i + 1) \div 2]) \in At(Unset)
  <2>1. (i + 1) \div 2 \in 1..Len(ks)
    BY <1>1, <1>2
  <2>2. ks[(i + 1) \div 2] \in Key
    BY <1>1, <2>1
  <2> QED BY <2>2, KeyToken
<1> QED BY <1>1, <1>2, OtherTokens DEF Has

LEMMA ManyKeysGood == ManyKeys => Good(sent)'
<1>1. \A ks \in Lists, b \in BOOLEAN : Good(redis_varkey_cmd(ks, b)) /\ Good(redis_blocking_pop_cmd(ks, b))
  <2> SUFFICES ASSUME NEW fn, NEW ks \in Lists, NEW single \in BOOLEAN, NEW timeout \in BOOLEAN
               PROVE  Good(gen_varkey_cmd(fn, ks, single, timeout))
    BY DEF redis_varkey_cmd, redis_blocking_pop_cmd
  <2> DEFINE argc == (IF single THEN Len(ks) ELSE Len(ks) + B(timeout, 1)) + B(single /\ timeout, 1)
  <2>1. argc = Len(ks) + B(timeout, 1)
    <3>1. Len(ks) \in Nat
      BY ListsAreSequences
    <3>2. CASE timeout
      BY <3>1, <3>2 DEF B
    <3>3. CASE ~timeout
      BY <3>1, <3>3 DEF B
    <3> QED BY <3>2, <3>3
  <2>2. ks # << >> /\ SameSlot(ks) => Has(Keys(ks) \o Opt(timeout, 1), SlotOfLast(ks), argc)
    BY <2>1, HasLast, HasOpt, HasConcat, Zenon
  <2>3. gen_varkey_cmd(fn, ks, single, timeout)
          = When(ks # << >> /\ SameSlot(ks),
                 Command(fn, argc, Keys(ks) \o Opt(timeout, 1), SlotOfLast(ks)))
    BY DEF gen_varkey_cmd
  <2> HIDE DEF argc
  <2> QED BY <2>2, <2>3, HasLast, Sent, GoodRefused, Zenon DEF When
<1>2. \A b : \A ks \in Lists : Good(redis_build_raw_cmd(ks, b))
  <2> SUFFICES ASSUME NEW ks \in Lists, NEW b PROVE Good(redis_build_raw_cmd(ks, b))
    OBVIOUS
  <2> DEFINE toks == [i \in DOMAIN ks |-> Raw(ks[i])]
             c == Command("raw", (1 + Len(ks)) - 1, toks, AnySlot)
  <2>1. ks \in Seq(Key) /\ Len(ks) \in Nat
    BY ListsAreSequences
  <2>2. toks \in Seq({Raw(k) : k \in Key}) /\ Len(toks) = Len(ks)
    BY <2>1
  <2>3. Framed(c) /\ Counted(c) /\ Together(c)
    <3> HIDE DEF toks
    <3>1. \A i \in DOMAIN toks : Head(toks[i]) = "raw"
      BY <2>2, Heads
    <3>2. CountedIn(toks)
      BY <3>1 DEF CountedIn
    <3> QED BY <2>1, <2>2, <3>1, <3>2, Slots DEF Command, Framed, Counted, Together
  <2> HIDE DEF toks
  <2> QED BY <2>3, GoodRefused DEF redis_build_raw_cmd, When, Good, toks
<1>3. \A ks \in Lists : Good(redis_pfcount_cmd(ks))
  BY HasLast, Sent, GoodRefused, Zenon DEF redis_pfcount_cmd, When
<1>4. \A b : \A ks \in Lists : Good(redis_bitop_cmd(ks, b))
  <2>1. \A ks \in Lists : Len(ks) >= 2 => ks # << >>
    BY ListsAreSequences
  <2> QED BY <2>1, HasLast, HasArgs, HasConcat, Sent, GoodRefused, Zenon DEF redis_bitop_cmd, When
<1>5. \A ks \in Lists : Standalone => Good(redis_mget_cmd(ks)) /\ Good(redis_mset_cmd(ks))
  BY HasAnywhere, MsetTokens, Elsewhere, GoodRefused, Zenon
     DEF redis_mget_cmd, redis_mset_cmd, When, Standalone
<1>6. \A k \in Key, ks \in Lists : Good(redis_pfadd_cmd(k, ks)) /\ Good(redis_pfmerge_cmd(k, ks))
  BY ListsAreSequences, HasRest, HasKey, HasArgs, HasConcat, Slots, Sent, GoodRefused, Zenon
     DEF redis_pfadd_cmd, redis_pfmerge_cmd, redis_gen_pf_cmd, When
<1>7. \A b, from_ok, count : \A ks \in Lists : Good(redis_mpop_cmd(b, ks, from_ok, count))
  <2> TAKE b, from_ok, count
  <2> TAKE ks \in Lists
  <2> DEFINE slot == SlotOfLast(ks)
  <2> SUFFICES ASSUME ks # << >>, SameSlot(ks)
               PROVE  Announced(Opt(b, 1) \o <<N(Len(ks))>> \o Keys(ks) \o Args(1) \o Opt(count # 1, 2),
                                slot, 2 + B(b, 1) + Len(ks) + B(count # 1, 2))
    BY HasLast, SentAnnounced, GoodRefused, Zenon DEF redis_mpop_cmd, When
  <2>1. Announced(Opt(b, 1) \o <<N(Len(ks))>> \o Keys(ks), slot, B(b, 1) + 1 + Len(ks))
    <3>1. ks \in Seq(Key) /\ Has(Keys(ks), slot, Len(ks)) /\ Has(Opt(b, 1), slot, B(b, 1)) /\ B(b, 1) \in Nat
      BY HasLast, HasOpt, NatB, ListsAreSequences
    <3> QED BY <3>1, Announces, Zenon
  <2>2. Announced(Opt(b, 1) \o <<N(Len(ks))>> \o Keys(ks) \o Args(1) \o Opt(count # 1, 2), slot,
                  B(b, 1) + 1 + Len(ks) + 1 + B(count # 1, 2))
    BY <2>1, AnnouncedThen, FreeArgs, FreeOpt, Zenon
  <2>3. B(b, 1) + 1 + Len(ks) + 1 + B(count # 1, 2) = 2 + B(b, 1) + Len(ks) + B(count # 1, 2)
    <3>1. B(b, 1) \in Nat /\ Len(ks) \in Nat /\ B(count # 1, 2) \in Nat
      BY NatB, ListsAreSequences
    <3> QED BY <3>1
  <2> QED BY <2>2, <2>3, Zenon
<1>8. \A given, limit : \A ks \in Lists : Good(redis_intercard_cmd(ks, given, limit))
  <2> TAKE given, limit
  <2> TAKE ks \in Lists
  <2> DEFINE slot == SlotOf[Head(ks)]
  <2> SUFFICES ASSUME ks # << >>, SameSlot(ks)
               PROVE  Announced(<<N(Len(ks))>> \o Keys(ks) \o Opt(limit > 0, 2), slot,
                                1 + Len(ks) + B(limit > 0, 2)) /\ slot # Unset
    BY SentAnnounced, GoodRefused, Zenon DEF redis_intercard_cmd, When
  <2>1. ks \in Seq(Key) /\ 1 \in DOMAIN ks /\ Head(ks) = ks[1]
    BY ListsAreSequences
  <2>2. Has(Keys(ks), slot, Len(ks)) /\ slot # Unset
    BY <2>1, HasKeysSame, Slots
  <2> QED BY <2>2, AnnouncesFirst, AnnouncedThen, FreeOpt, Zenon
<1> QED BY <1>1, <1>2, <1>3, <1>4, <1>5, <1>6, <1>7, <1>8, SendGood DEF ManyKeys

----------------------------------------------------------------------------

(* The check of ZDIFF and its kin: without a key in slot 0 it is the check *)
(* every other builder makes, with one the command is not claimed routed.  *)

\* Induction, for a set of numbers instead of a predicate.
LEMMA Induction ==
    ASSUME NEW S, S \subseteq Nat, 0 \in S, \A n \in S : n + 1 \in S
    PROVE  S = Nat
<1> SUFFICES ASSUME Nat \ S # {} PROVE FALSE
  OBVIOUS
<1>1. PICK n \in Nat \ S : \A m \in Nat \ S : <<m, n>> \notin OpToRel(<, Nat)
  BY NatLessThanWellFounded, WFMin
<1>2. \A m \in Nat \ S : ~(m < n)
  BY <1>1 DEF OpToRel
<1>3. n # 0 /\ n - 1 \in Nat /\ n - 1 < n
  OBVIOUS
<1>4. n - 1 \in S /\ n - 1 + 1 = n
  BY <1>2, <1>3
<1> QED BY <1>4

LEMMA NoZero ==
    ASSUME NEW ks \in Seq(Key), SameSlotUnlessZero(ks), \A i \in DOMAIN ks : SlotOf[ks[i]] # 0
    PROVE  SameSlot(ks)
<1> SUFFICES ASSUME cluster PROVE \A i \in 1..Len(ks) : SlotOf[ks[i]] = SlotOf[ks[1]]
  BY DEF SameSlot
<1> DEFINE S == {n \in Nat : n + 1 \in 1..Len(ks) => SlotOf[ks[n + 1]] = SlotOf[ks[1]]}
<1>1. 0 \in S
  OBVIOUS
<1>2. ASSUME NEW n \in S PROVE n + 1 \in S
  <2> SUFFICES ASSUME n + 2 \in 1..Len(ks) PROVE SlotOf[ks[n + 2]] = SlotOf[ks[1]]
    OBVIOUS
  <2>1. n + 1 \in 1..Len(ks) /\ n + 2 \in 2..Len(ks) /\ (n + 2) - 1 = n + 1
    OBVIOUS
  <2>2. SlotOf[ks[n + 1]] = SlotOf[ks[1]]
    BY <2>1
  <2>3. SlotOf[ks[n + 1]] # 0
    BY <2>1
  <2> QED BY <2>1, <2>2, <2>3 DEF SameSlotUnlessZero
<1>3. S \subseteq Nat
  OBVIOUS
<1> HIDE DEF S
<1>4. S = Nat
  BY <1>1, <1>2, <1>3, Induction
<1> TAKE i \in 1..Len(ks)
<1>5. i - 1 \in S /\ (i - 1) + 1 = i
  BY <1>4
<1> QED BY <1>5 DEF S

HasZero(s) == \E i \in DOMAIN s : IsKey(s[i]) /\ SlotOf[s[i][2]] = 0
Sound(s, ks, n) == \/ Announced(s, SlotOfLast(ks), n)
                   \/ Announced(s, Unset, n) /\ HasZero(s)

LEMMA SoundFirst ==
    ASSUME NEW ks \in Lists, ks # << >>, SameSlotUnlessZero(ks)
    PROVE  Sound(<<N(Len(ks))>> \o Keys(ks), ks, 1 + Len(ks))
<1>1. ks \in Seq(Key) /\ Len(ks) \in Nat
  BY ListsAreSequences
<1>2. CASE \A i \in DOMAIN ks : SlotOf[ks[i]] # 0
  BY <1>1, <1>2, NoZero, HasLast, AnnouncesFirst DEF Sound
<1>3. CASE \E i \in DOMAIN ks : SlotOf[ks[i]] = 0
  <2> DEFINE s == <<N(Len(ks))>> \o Keys(ks)
  <2>1. PICK i \in 1..Len(ks) : SlotOf[ks[i]] = 0
    BY <1>1, <1>3
  <2>2. Announced(s, Unset, 1 + Len(ks))
    BY HasAnywhere, AnnouncesFirst
  <2>3. Keys(ks) \in Seq(At(Unset)) /\ Len(Keys(ks)) = Len(ks) /\ Keys(ks)[i] = K(ks[i])
    BY <1>1, HasAnywhere DEF Has, Keys
  <2>4. i + 1 \in DOMAIN s /\ s[i + 1] = K(ks[i])
    BY <1>1, <2>3
  <2>5. ks[i] \in Key
    BY <1>1
  <2> HIDE DEF s
  <2>6. HasZero(s)
    BY <2>1, <2>4, <2>5, Heads DEF HasZero, IsKey
  <2> QED BY <2>2, <2>6 DEF Sound, s
<1> QED BY <1>2, <1>3

LEMMA SoundThen ==
    ASSUME NEW s, NEW t, NEW ks, NEW m, NEW n, Sound(s, ks, m), FreeOf(t, n)
    PROVE  Sound(s \o t, ks, m + n)
<1>1. CASE Announced(s, SlotOfLast(ks), m)
  BY <1>1, AnnouncedThen DEF Sound
<1>2. CASE Announced(s, Unset, m) /\ HasZero(s)
  <2>1. Announced(s \o t, Unset, m + n)
    BY <1>2, AnnouncedThen
  <2>2. PICK i \in DOMAIN s : IsKey(s[i]) /\ SlotOf[s[i][2]] = 0
    BY <1>2 DEF HasZero
  <2>3. i \in DOMAIN (s \o t) /\ (s \o t)[i] = s[i]
    BY <1>2 DEF Announced, FreeOf
  <2>4. HasZero(s \o t)
    BY <2>2, <2>3 DEF HasZero
  <2> QED BY <2>1, <2>4 DEF Sound
<1> QED BY <1>1, <1>2 DEF Sound

LEMMA SentSound ==
    ASSUME NEW fn, NEW argc, NEW toks, NEW ks \in Lists, ks # << >>, Sound(toks, ks, argc),
           fn \in {"zdiff", "zinterunion"}
    PROVE  Good(Command(fn, argc, toks, SlotOfLast(ks)))
<1>1. SlotOfLast(ks) # Unset
  <2>1. ks \in Seq(Key) /\ Len(ks) \in DOMAIN ks
    BY ListsAreSequences
  <2> QED BY <2>1, Slots DEF SlotOfLast, Last
<1>2. CASE Announced(toks, SlotOfLast(ks), argc)
  BY <1>1, <1>2, SentAnnounced
<1>3. CASE Announced(toks, Unset, argc) /\ HasZero(toks)
  <2> DEFINE c == Command(fn, argc, toks, SlotOfLast(ks))
  <2>1. c.fn = fn /\ c.argc = argc /\ c.toks = toks
    BY DEF Command
  <2> HIDE DEF c
  <2>2. Framed(c) /\ Counted(c) /\ Together(c)
    BY <2>1, <1>3 DEF Framed, Counted, Together, ZeroFirst, HasZero, Announced
  <2> QED BY <2>2 DEF Good, c
<1> QED BY <1>2, <1>3 DEF Sound

LEMMA ScoresAreCounted == \A w \in Scores : Len(w) \in Nat
BY Bounds DEF Scores

LEMMA FiniteOptions ==
    ASSUME NEW opts
    PROVE  /\ Cardinality({"lexscore", "rev", "withscores"} \cap opts) \in Nat
           /\ Cardinality(opts \cap {"exp", "range", "ch", "incr"}) \in Nat
<1>1. IsFiniteSet({"lexscore", "rev", "withscores"}) /\ IsFiniteSet({"exp", "range", "ch", "incr"})
  <2>1. IsFiniteSet({"rev", "withscores"}) /\ IsFiniteSet({"exp", "range"}) /\ IsFiniteSet({"ch", "incr"})
    <3> SUFFICES ASSUME NEW a, NEW b PROVE IsFiniteSet({a, b})
      BY Zenon
    <3>1. {a, b} = {a} \cup {b} /\ IsFiniteSet({a})
      BY FS_Singleton
    <3> QED BY <3>1, FS_AddElement
  <2>2. /\ {"lexscore", "rev", "withscores"} = {"rev", "withscores"} \cup {"lexscore"}
        /\ {"exp", "range", "ch", "incr"} = {"exp", "range"} \cup {"ch", "incr"}
    OBVIOUS
  <2>3. IsFiniteSet({"rev", "withscores"} \cup {"lexscore"})
    BY <2>1, FS_AddElement
  <2>4. IsFiniteSet({"exp", "range"} \cup {"ch", "incr"})
    BY <2>1, FS_Union
  <2> QED BY <2>2, <2>3, <2>4
<1>2. /\ {"lexscore", "rev", "withscores"} \cap opts \subseteq {"lexscore", "rev", "withscores"}
      /\ opts \cap {"exp", "range", "ch", "incr"} \subseteq {"exp", "range", "ch", "incr"}
  OBVIOUS
<1> QED BY <1>1, <1>2, FS_Subset, FS_CardinalityType

LEMMA WeightsCount ==
    ASSUME NEW ks \in Lists, NEW w \in Scores, Weighted(ks, w)
    PROVE  /\ B(w # << >>, 1) + Len(w) = Weights(ks, w)
           /\ B(w # << >>, 1) \in Nat /\ Len(w) \in Nat /\ Weights(ks, w) \in Nat
<1>1. Len(ks) \in Nat /\ Len(w) \in Nat
  BY ListsAreSequences, ScoresAreCounted
<1>2. CASE w = << >>
  BY <1>1, <1>2 DEF Weights, B
<1>3. CASE w # << >>
  BY <1>1, <1>3 DEF Weights, Weighted, B
<1> QED BY <1>2, <1>3

LEMMA AnnouncesAt ==
    ASSUME NEW k \in Key, NEW ks \in Lists, Has(Keys(ks), SlotOf[k], Len(ks))
    PROVE  Announced(<<K(k), N(Len(ks))>> \o Keys(ks), SlotOf[k], 2 + Len(ks))
<1>1. ks \in Seq(Key) /\ Len(ks) \in Nat
  BY ListsAreSequences
<1>2. Announced(<<K(k)>> \o <<N(Len(ks))>> \o Keys(ks), SlotOf[k], 1 + 1 + Len(ks))
  BY <1>1, HasKey, Announces
<1>3. 1 + 1 + Len(ks) = 2 + Len(ks)
  BY <1>1
<1>4. ASSUME NEW a, NEW b PROVE <<a>> \o <<b>> = <<a, b>>
  <2>1. <<a>> \in Seq({a, b}) /\ <<b>> \in Seq({a, b}) /\ <<a, b>> \in Seq({a, b})
    OBVIOUS
  <2>2. <<a>> \o <<b>> \in Seq({a, b}) /\ Len(<<a>> \o <<b>>) = 2
    BY <2>1
  <2>3. (<<a>> \o <<b>>)[1] = a /\ (<<a>> \o <<b>>)[2] = b
    BY <2>1
  <2>4. Len(<<a, b>>) = 2 /\ <<a, b>>[1] = a /\ <<a, b>>[2] = b
    OBVIOUS
  <2>5. \A i \in 1..2 : (<<a>> \o <<b>>)[i] = <<a, b>>[i]
    BY <2>3, <2>4
  <2> QED BY <2>1, <2>2, <2>4, <2>5, SeqEqual, Zenon
<1> QED BY <1>2, <1>3, <1>4, Zenon

LEMMA SortedSetsGood == SortedSets => Good(sent)'
<1>1. \A kw, asked, v : \A k, j \in Key : Good(redis_zrange_cmd(kw, j, k, asked, v))
  <2> TAKE kw, asked, v
  <2> TAKE src \in Key, dst \in Key
  <2> DEFINE opt == redis_get_zcmd_options(asked, kw)
             store == "dst" \in redis_get_zcmd_flags(kw)
             extra == Cardinality({"lexscore", "rev", "withscores"} \cap opt)
             keys == IF store THEN Keys(<<dst, src>>) ELSE <<K(src)>>
             toks == keys \o Args(2) \o Args(extra) \o Opt("limit" \in opt, 3)
             argc == 3 + B(store, 1) + extra + B("limit" \in opt, 3)
  <2>1. extra \in Nat
    BY FiniteOptions
  <2> HIDE DEF extra
  <2>2. ASSUME store => SameSlot(<<dst, src>>) PROVE Has(keys, SlotOf[src], 1 + B(store, 1))
    <3>1. CASE store
      <4>1. 1 + B(store, 1) = 2
        BY <3>1 DEF B
      <4> QED BY <2>2, <3>1, <4>1, HasPair
    <3>2. CASE ~store
      <4>1. 1 + B(store, 1) = 1
        BY <3>2 DEF B
      <4> QED BY <3>2, <4>1, HasKey
    <3> QED BY <3>1, <3>2
  <2>3. 1 + B(store, 1) + 2 + extra + B("limit" \in opt, 3) = argc
    <3>1. B(store, 1) \in Nat /\ B("limit" \in opt, 3) \in Nat
      BY NatB
    <3> QED BY <2>1, <3>1
  <2> HIDE DEF keys, argc, store, opt
  <2>4. ASSUME store => SameSlot(<<dst, src>>) PROVE Good(Command("zrange", argc, toks, SlotOf[src]))
    <3>1. Has(toks, SlotOf[src], 1 + B(store, 1) + 2 + extra + B("limit" \in opt, 3))
      BY <2>1, <2>2, <2>4, HasArgs, HasOpt, HasConcat, Zenon
    <3> QED BY <2>3, <3>1, Sent, Slots
  <2> QED BY <2>4, GoodRefused DEF redis_zrange_cmd, When, keys, argc, store, opt, extra
<1>2. \A asked : \A ks \in Lists : Good(redis_zdiff_cmd(ks, asked))
  BY SoundFirst, SoundThen, FreeOpt, SentSound, GoodRefused, Zenon DEF redis_zdiff_cmd, When
<1>3. \A asked : \A ks \in Lists, w \in Scores : Good(redis_zinterunion_cmd(ks, w, asked))
  <2> TAKE asked
  <2> TAKE ks \in Lists, w \in Scores
  <2> DEFINE opts == redis_get_zcmd_options(asked, "zinterunion")
             toks == <<N(Len(ks))>> \o Keys(ks) \o Opt(w # << >>, 1) \o Args(Len(w))
                       \o Opt("aggregate" \in opts, 2) \o Opt("withscores" \in opts, 1)
             argc == 1 + Len(ks) + Weights(ks, w) + B("aggregate" \in opts, 2)
                       + B("withscores" \in opts, 1)
  <2> SUFFICES ASSUME ks # << >>, Weighted(ks, w), SameSlotUnlessZero(ks)
               PROVE  Sound(toks, ks, argc)
    BY SentSound, GoodRefused, Zenon DEF redis_zinterunion_cmd, When
  <2>1. Sound(toks, ks, 1 + Len(ks) + B(w # << >>, 1) + Len(w) + B("aggregate" \in opts, 2)
                           + B("withscores" \in opts, 1))
    BY ScoresAreCounted, SoundFirst, SoundThen, FreeArgs, FreeOpt, Zenon
  <2>2. 1 + Len(ks) + B(w # << >>, 1) + Len(w) + B("aggregate" \in opts, 2)
          + B("withscores" \in opts, 1) = argc
    BY WeightsCount, NatB, ListsAreSequences
  <2> QED BY <2>1, <2>2, Zenon
<1>4. \A k \in Key, ks \in Lists : Good(redis_zdiffstore_cmd(k, ks))
  BY AnnouncesAt, HasRest, Slots, SentAnnounced, GoodRefused, Zenon DEF redis_zdiffstore_cmd, When
<1>5. \A agg : \A k \in Key, ks \in Lists, w \in Scores :
         Good(redis_zinterunionstore_cmd(k, ks, w, agg))
  <2> TAKE agg
  <2> TAKE k \in Key, ks \in Lists, w \in Scores
  <2> DEFINE toks == <<K(k), N(Len(ks))>> \o Keys(ks) \o Opt(w # << >>, 1) \o Args(Len(w))
                       \o Opt(agg = "valid", 2)
             argc == 2 + Len(ks) + Weights(ks, w) + B(agg = "valid", 2)
  <2> SUFFICES ASSUME Weighted(ks, w), SameSlot(<<k>> \o ks)
               PROVE  Announced(toks, SlotOf[k], argc)
    BY Slots, SentAnnounced, GoodRefused, Zenon DEF redis_zinterunionstore_cmd, When
  <2>1. Announced(toks, SlotOf[k], 2 + Len(ks) + B(w # << >>, 1) + Len(w) + B(agg = "valid", 2))
    BY ScoresAreCounted, AnnouncesAt, HasRest, AnnouncedThen, FreeArgs, FreeOpt, Zenon
  <2>2. 2 + Len(ks) + B(w # << >>, 1) + Len(w) + B(agg = "valid", 2) = argc
    <3>1. /\ B(w # << >>, 1) + Len(w) = Weights(ks, w)
          /\ B(w # << >>, 1) \in Nat /\ Len(w) \in Nat
      BY WeightsCount
    <3>2. Len(ks) \in Nat /\ B(agg = "valid", 2) \in Nat
      BY NatB, ListsAreSequences
    <3> QED BY <3>1, <3>2
  <2> QED BY <2>1, <2>2, Zenon
<1>6. \A n, v, count : \A k \in Key :
         /\ Good(redis_zrangebylex_cmd(k, n, v)) /\ Good(redis_gen_zlex_cmd(k, v))
         /\ Good(redis_zrandmember_cmd(k, count, v)) /\ Good(redis_pop_cmd(k, count))
         /\ Good(redis_zincrby_cmd(k))
  <2> TAKE n, v, count
  <2> TAKE k \in Key
  <2>1. Good(redis_zrandmember_cmd(k, count, v)) /\ Good(redis_pop_cmd(k, count))
    BY HasKey, HasOpt, HasConcat, Slots, Sent, Zenon DEF redis_zrandmember_cmd, redis_pop_cmd
  <2>2. (IF n = 3 THEN 2 ELSE 5) \in Nat
    OBVIOUS
  <2> QED BY <2>1, <2>2, GoodKeyed, GoodRefused, Zenon
             DEF redis_zrangebylex_cmd, redis_gen_zlex_cmd, redis_zincrby_cmd, When
<1>7. \A opts : \A k \in Key, w \in Scores : Good(redis_zadd_cmd(k, w, opts))
  <2> TAKE opts
  <2> TAKE k \in Key, w \in Scores
  <2> DEFINE extra == Cardinality(opts \cap {"exp", "range", "ch", "incr"})
             pos == B(opts # {}, 1)
             argc == 1 + ((pos + 2 * Len(w)) - pos) + extra
  <2>1. extra \in Nat /\ pos \in Nat /\ Len(w) \in Nat /\ 2 * Len(w) \in Nat
    <3>1. extra \in Nat
      BY FiniteOptions
    <3>2. pos \in Nat
      BY NatB, Zenon
    <3>3. Len(w) \in Nat
      BY ScoresAreCounted
    <3> QED BY <3>1, <3>2, <3>3
  <2> HIDE DEF extra, pos
  <2>2. Has(<<K(k)>> \o Args(extra) \o Args(2 * Len(w)), SlotOf[k], 1 + extra + 2 * Len(w))
    BY <2>1, HasKey, HasArgs, HasConcat, Zenon
  <2>3. argc = 1 + extra + 2 * Len(w)
    BY <2>1
  <2>4. Good(Command("zadd", argc, <<K(k)>> \o Args(extra) \o Args(2 * Len(w)), SlotOf[k]))
    BY <2>2, <2>3, Sent, Slots, Zenon
  <2> QED BY <2>4, GoodRefused, Zenon DEF redis_zadd_cmd, When, extra, pos
<1> QED BY <1>1, <1>2, <1>3, <1>4, <1>5, <1>6, <1>7, SendGood DEF SortedSets

----------------------------------------------------------------------------

LEMMA AnnouncedElsewhere ==
    ASSUME NEW fn, NEW argc, NEW slot, NEW toks, ~cluster, Announced(toks, Unset, argc)
    PROVE  Good(Command(fn, argc, toks, slot))
<1>1. Announced(toks, slot, argc)
  BY DEF Announced, Announcing, At
<1> QED BY <1>1, SentAnnounced

\* Of any length and content: what EVAL sends when its number of keys is wrong.
Fits(s, n) == s \in Seq(Announcing(Unset)) /\ Len(s) = n

LEMMA FitsConcat == \A s, t, m, n : Fits(s, m) /\ Fits(t, n) => Fits(s \o t, m + n)
BY ConcatLength DEF Fits

LEMMA HasFits == \A s, n : Has(s, Unset, n) => Fits(s, n)
BY SeqWidens DEF Has, Fits, Announcing

LEMMA EvalGood ==
    ASSUME NEW args \in Lists, NEW num_keys \in Int
    PROVE  Good(redis_eval_cmd(args, num_keys))
<1> DEFINE n == IF num_keys < Len(args) THEN IF num_keys < 0 THEN 0 ELSE num_keys ELSE Len(args)
           ks == [i \in 1..n |-> args[i]]
           toks == Args(1) \o <<N(num_keys)>> \o Keys(ks) \o Args(Len(args) - Len(ks))
           slot == IF args = << >> THEN AnySlot ELSE SlotOfLast(ks)
           fn == CASE num_keys \notin 0..Len(args) -> "eval short"
                   [] num_keys = 0 /\ args # << >> -> "eval keyless"
                   [] OTHER -> "eval"
           c == Command(fn, 2 + Len(args), toks, slot)
<1>1. args \in Seq(Key) /\ Len(args) \in Nat
  BY ListsAreSequences
<1>2. n \in 0..Len(args)
  BY <1>1
<1>3. ks \in Seq(Key) /\ Len(ks) = n /\ \A i \in 1..n : ks[i] = args[i]
  BY <1>1, <1>2
<1>4. num_keys \in 0..Len(args) => n = num_keys
  BY <1>1
<1> HIDE DEF n, ks
<1>5. Len(args) - Len(ks) \in Nat /\ Len(ks) \in Nat
  BY <1>1, <1>2, <1>3
<1> SUFFICES ASSUME SameSlot(ks) PROVE Good(c)
  BY GoodRefused DEF redis_eval_cmd, When, ks, n
<1>6. c.fn = fn /\ c.argc = 2 + Len(args) /\ c.toks = toks /\ c.slot = slot
  BY DEF Command
<1>7. CASE num_keys \notin 0..Len(args)
  <2>1. fn = "eval short"
    BY <1>7
  <2>2. Len(toks) = 2 + Len(args)
    <3>1. Has(Args(1), Unset, 1) /\ Has(Keys(ks), Unset, Len(ks))
          /\ Has(Args(Len(args) - Len(ks)), Unset, Len(args) - Len(ks))
      BY <1>3, <1>5, HasArgs, HasKeys
    <3>2. Fits(<<N(num_keys)>>, 1)
      BY DEF Fits, Announcing
    <3>3. Fits(toks, 1 + 1 + Len(ks) + (Len(args) - Len(ks)))
      BY <3>1, <3>2, HasFits, FitsConcat, Zenon
    <3>4. 1 + 1 + Len(ks) + (Len(args) - Len(ks)) = 2 + Len(args)
      BY <1>1, <1>5
    <3> QED BY <3>3, <3>4 DEF Fits
  <2> HIDE DEF c, toks, fn
  <2>3. Framed(c) /\ Counted(c) /\ Together(c)
    BY <1>6, <2>1, <2>2 DEF Framed, Counted, Together, Unrouted
  <2> QED BY <2>3 DEF Good
<1>8. CASE num_keys \in 0..Len(args)
  <2>1. num_keys = Len(ks)
    BY <1>3, <1>4, <1>8
  <2>2. 1 + 1 + Len(ks) + (Len(args) - Len(ks)) = 2 + Len(args)
    BY <1>1, <1>5
  <2>3. ASSUME NEW s, Has(Keys(ks), s, Len(ks)) PROVE Announced(toks, s, 2 + Len(args))
    <3>1. Announced(Args(1) \o <<N(num_keys)>> \o Keys(ks), s, 1 + 1 + Len(ks))
      BY <1>3, <2>1, <2>3, HasArgs, Announces
    <3> QED BY <1>5, <2>2, <3>1, AnnouncedThen, FreeArgs, Zenon
  <2>4. CASE num_keys = 0 /\ args # << >>
    <3>1. fn = "eval keyless"
      BY <1>8, <2>4
    <3>2. Announced(toks, Unset, 2 + Len(args))
      BY <1>3, <2>3, HasKeys
    <3> HIDE DEF c, toks, fn
    <3>3. Framed(c) /\ Counted(c) /\ Together(c)
      BY <1>6, <3>1, <3>2 DEF Framed, Counted, Together, Unrouted, Announced
    <3> QED BY <3>3 DEF Good
  <2>5. CASE args = << >>
    <3>1. DOMAIN ks = {}
      <4>1. Len(args) = 0
        BY <2>5
      <4> QED BY <1>2, <1>3, <4>1
    <3>2. Has(Keys(ks), AnySlot, Len(ks))
      BY <1>3, <3>1, HasKeys
    <3>3. slot = AnySlot
      BY <2>5
    <3> HIDE DEF toks, fn, slot
    <3> QED BY <2>3, <3>2, <3>3, Slots, SentAnnounced
  <2>6. CASE num_keys # 0 /\ args # << >>
    <3>1. Len(ks) \in DOMAIN ks
      BY <1>3, <1>5, <2>1, <2>6
    <3>2. slot = SlotOf[ks[Len(ks)]] /\ ks[Len(ks)] \in Key
      BY <1>3, <2>6, <3>1 DEF SlotOfLast, Last
    <3>3. Has(Keys(ks), slot, Len(ks))
      BY <1>3, <3>1, <3>2, HasKeysSame
    <3> HIDE DEF toks, fn, slot
    <3> QED BY <2>3, <3>2, <3>3, Slots, SentAnnounced
  <2> QED BY <2>4, <2>5, <2>6
<1> QED BY <1>7, <1>8

LEMMA ScriptsGood == Scripts => Good(sent)'
<1>1. \A args \in Lists, n \in -1..(MaxArgs + 1) : Good(redis_eval_cmd(args, n))
  BY EvalGood, Bounds
<1>2. \A ks \in Lists, n \in Nat : Standalone => Good(redis_fcall_cmd(ks, n))
  <2> TAKE ks \in Lists, n \in Nat
  <2>1. ks \in Seq(Key) /\ Len(ks) \in Nat
    BY ListsAreSequences
  <2>2. Announced(Args(1) \o <<N(Len(ks))>> \o Keys(ks), Unset, 1 + 1 + Len(ks))
    BY <2>1, HasArgs, HasAnywhere, Announces
  <2>3. 1 + 1 + Len(ks) + n = 2 + Len(ks) + n
    BY <2>1
  <2>4. Announced(Args(1) \o <<N(Len(ks))>> \o Keys(ks) \o Args(n), Unset, 2 + Len(ks) + n)
    BY <2>2, <2>3, AnnouncedThen, FreeArgs, Zenon
  <2> QED BY <2>4, AnnouncedElsewhere, Zenon DEF redis_fcall_cmd, Standalone
<1>3. \A op \in {"kill", "flush", "load", "exists"}, argc \in 1..3 : Good(redis_build_script_cmd(op, argc))
  <2> TAKE op \in {"kill", "flush", "load", "exists"}, argc \in 1..3
  <2>1. Has(Args(1), AnySlot, 1) /\ Has(Args(2), AnySlot, 2) /\ Has(Args(argc), AnySlot, argc)
    BY HasArgs
  <2>2. CASE op = "kill"
    BY <2>1, <2>2, Slots, SentOff DEF redis_build_script_cmd, Misframed
  <2>3. CASE op = "flush"
    BY <2>1, <2>3, Slots, Sent, GoodRefused DEF redis_build_script_cmd, When
  <2>4. CASE op = "load"
    BY <2>1, <2>4, Slots, SentOff, GoodRefused DEF redis_build_script_cmd, Misframed, When
  <2>5. CASE op = "exists"
    BY <2>1, <2>5, Slots, Sent, GoodRefused DEF redis_build_script_cmd, When
  <2> QED BY <2>2, <2>3, <2>4, <2>5
<1>4. \A n \in Nat : Standalone => Good(redis_script_cmd(n))
  BY HasArgs, Elsewhere, GoodRefused, Zenon DEF redis_script_cmd, gen_vararg_cmd, When, Standalone
<1>5. \A op, mode_ok : \A argc \in Nat : Standalone => Good(redis_function_cmd(op, argc, mode_ok))
  BY HasArgs, HasConcat, Elsewhere, GoodRefused, Zenon DEF redis_function_cmd, When, Standalone
<1> QED BY <1>1, <1>2, <1>3, <1>4, <1>5, SendGood, Bounds DEF Scripts

LEMMA HasChans == \A slot : \A ks \in Lists : Has(Chans(ks), slot, Len(ks))
<1> SUFFICES ASSUME NEW slot, NEW ks \in Lists PROVE Has(Chans(ks), slot, Len(ks))
  OBVIOUS
<1>1. ks \in Seq(Key) /\ Len(ks) \in Nat
  BY ListsAreSequences
<1>2. \A i \in 1..Len(ks) : Chan(ks[i]) \in At(slot)
  BY <1>1, OtherTokens
<1>3. Chans(ks) = [i \in 1..Len(ks) |-> Chan(ks[i])]
  BY <1>1 DEF Chans
<1> QED BY <1>1, <1>2, <1>3 DEF Has

LEMMA ChannelsGood == Channels => Good(sent)'
<1>1. \A shard \in BOOLEAN, ks \in Lists : ks # << >> => Good(redis_subscribe_cmd(shard, ks))
  <2> SUFFICES ASSUME NEW shard \in BOOLEAN, NEW ks \in Lists, ks # << >>,
                      shard /\ cluster => \A i \in DOMAIN ks : SlotOf[ks[i]] = RawSlotOf[Head(ks)]
               PROVE  Good(Command(IF shard THEN "ssubscribe" ELSE "subscribe", Len(ks),
                                   IF shard THEN Keys(ks) ELSE Chans(ks),
                                   IF shard THEN RawSlotOf[Head(ks)] ELSE AnySlot))
    BY GoodRefused DEF redis_subscribe_cmd, When
  <2>1. ks \in Seq(Key) /\ Head(ks) \in Key
    BY ListsAreSequences
  <2>2. RawSlotOf[Head(ks)] # Unset
    BY <2>1, CommandAssumption DEF Unset
  <2>3. CASE shard
    BY <2>1, <2>2, <2>3, HasKeys, Sent
  <2>4. CASE ~shard
    BY <2>4, HasChans, Slots, Sent
  <2> QED BY <2>3, <2>4
<1>2. \A ks \in Lists : Good(redis_unsubscribe_cmd(ks))
  <2>1. \A ks \in Lists : ks # << >> => SlotOfLast(ks) # Unset
    <3> TAKE ks \in Lists
    <3>1. ks \in Seq(Key) /\ (ks # << >> => Len(ks) \in DOMAIN ks)
      BY ListsAreSequences
    <3> QED BY <3>1, Slots DEF SlotOfLast, Last
  <2> QED BY <2>1, HasChans, Sent, GoodRefused, Zenon DEF redis_unsubscribe_cmd, When
<1>3. \A op, b, typed : \A ks \in Lists : Good(redis_pubsub_cmd(op, b, ks, typed))
  <2>1. << >> \in Lists
    BY Bounds DEF Lists
  <2> QED BY <2>1, HasChans, HasArgs, HasOpt, HasConcat, Slots, Sent, GoodRefused, Zenon
             DEF redis_pubsub_cmd, When
<1> QED BY <1>1, <1>2, <1>3, SendGood DEF Channels

----------------------------------------------------------------------------

LEMMA SentWhole ==
    ASSUME NEW fn, NEW slot, NEW toks, NEW n, Has(toks, slot, n), slot # Unset
    PROVE  Good(redis_spprintf(fn, toks, slot))
BY OneNode DEF Has, redis_spprintf

LEMMA ElsewhereOff ==
    ASSUME NEW fn, NEW argc, NEW slot, NEW toks, NEW n, ~cluster, Has(toks, Unset, n), fn \in Misframed
    PROVE  Good(Command(fn, argc, toks, slot))
<1>1. toks \in Seq(At(slot))
  BY DEF Has, At
<1> QED BY <1>1, OneNode

LEMMA HasKeyAnywhere == \A k \in Key : Has(<<K(k)>>, Unset, 1) /\ Has(<<Arg, K(k)>>, Unset, 2)
BY KeyToken, OtherTokens DEF Has

LEMMA SentAstray ==
    ASSUME NEW fn, NEW slot, NEW toks, NEW n, Has(toks, Unset, n), fn \in Unrouted
    PROVE  Good(redis_spprintf(fn, toks, slot))
<1> DEFINE c == redis_spprintf(fn, toks, slot)
<1>1. c.fn = fn /\ c.argc = Len(toks) /\ c.toks = toks
  BY DEF redis_spprintf, Command
<1> HIDE DEF c
<1>2. Framed(c) /\ Together(c)
  BY <1>1 DEF Framed, Together
<1>3. Counted(c)
  BY <1>1, AtUncounted, SeqWidens, NoneAnnounced DEF Counted, Has
<1> QED BY <1>2, <1>3 DEF Good, c

\* The slot of a prefixed SORT with options is anything, and all else of it in
\* order; without a prefix it is the key's.
LEMMA SortGood ==
    ASSUME NEW k \in Key, NEW left \in SlotLeft(k), NEW given, NEW by, NEW dir, NEW store,
           NEW dst \in Key, NEW get, NEW gets \in Nat, NEW alpha, NEW limit
    PROVE  Good(redis_sort_cmd(k, left, given, by, dir, store, dst, get, gets, alpha, limit))
<1> DEFINE first == IF by THEN Args(2) ELSE << >>
           to == IF store THEN <<Arg, Raw(dst)>> ELSE << >>
           patterns == IF get THEN Args(2 * gets) ELSE << >>
           argv == first \o Opt(dir, 1) \o to \o patterns \o Opt(alpha, 1) \o Opt(limit, 3)
           fn == IF Prefix THEN "sort prefixed" ELSE "sort"
           at == IF Prefix THEN Unset ELSE SlotOf[k]
<1>1. ASSUME store /\ cluster => left = RawSlotOf[dst]
      PROVE  Good(redis_spprintf(fn, <<K(k)>> \o argv, left))
  <2>0. /\ K(k) \in At(at)
        /\ store => Raw(dst) \in At(at)
    BY <1>1, KeyToken, RawToken DEF SlotLeft
  <2> HIDE DEF at
  <2>1. \E n : Has(first, at, n)
    BY HasArgs, HasNone, Zenon
  <2>2. \E n : Has(to, at, n)
    <3>1. CASE store
      <4>1. Arg \in At(at) /\ Raw(dst) \in At(at)
        BY <2>0, <3>1, OtherTokens
      <4> QED BY <3>1, <4>1 DEF Has
    <3>2. CASE ~store
      BY <3>2, HasNone, Zenon
    <3> QED BY <3>1, <3>2
  <2>3. \E n : Has(patterns, at, n)
    <3>1. 2 * gets \in Nat
      OBVIOUS
    <3> QED BY <3>1, HasArgs, HasNone, Zenon
  <2>4. \E n : Has(<<K(k)>>, at, n)
    BY <2>0 DEF Has
  <2> HIDE DEF first, to, patterns
  <2>5. PICK a, b, c, d :
          Has(first, at, a) /\ Has(to, at, b) /\ Has(patterns, at, c) /\ Has(<<K(k)>>, at, d)
    BY <2>1, <2>2, <2>3, <2>4
  <2>6. Has(argv, at, a + B(dir, 1) + b + c + B(alpha, 1) + B(limit, 3))
    BY <2>5, HasOpt, HasConcat, Zenon
  <2> HIDE DEF argv
  <2>7. \E n : Has(<<K(k)>> \o argv, at, n)
    BY <2>5, <2>6, HasConcat, Zenon
  <2>8. CASE Prefix
    BY <2>7, <2>8, SentAstray DEF at, Unrouted
  <2>9. CASE ~Prefix
    <3>1. left = SlotOf[k] /\ at = left
      BY <2>9 DEF SlotLeft, at
    <3> QED BY <2>7, <3>1, SentWhole, Slots
  <2> QED BY <2>8, <2>9
<1> HIDE DEF argv
<1> QED BY <1>1, GoodKeyed, GoodRefused, Zenon DEF redis_sort_cmd, When, argv

LEMMA GenericSortGood ==
    ASSUME NEW k \in Key, NEW by, NEW limit, NEW get \in {"none", "array", "string", "empty"},
           NEW gets \in Nat, NEW store \in {"none", "key", "empty"}, NEW dst \in Key, NEW desc,
           NEW alpha, Standalone
    PROVE  Good(generic_sort_cmd(k, by, limit, get, gets, store, dst, desc, alpha))
<1> DEFINE patterns == IF get = "array" THEN gets ELSE B(get # "none", 1)
           asked == CASE get = "array" -> gets [] get = "string" -> 2 [] OTHER -> 0
           argc == 1 + B(by, 2) + B(limit, 3) + B(alpha, 1) + B(store # "none", 2) + B(desc, 1) + asked
           off == (get = "array" /\ gets > 0) \/ get = "empty" \/ store = "empty"
           to == IF store = "key" THEN <<Arg, K(dst)>> ELSE << >>
           toks == <<K(k)>> \o Opt(by, 2) \o Opt(limit, 3) \o Args(2 * patterns) \o Opt(desc, 1)
                     \o Opt(alpha, 1) \o to
           size == 1 + B(by, 2) + B(limit, 3) + 2 * patterns + B(desc, 1) + B(alpha, 1)
                     + B(store = "key", 2)
           fn == IF off THEN "generic sort" ELSE "sort"
<1>1. patterns \in Nat /\ 2 * patterns \in Nat
  BY DEF B
<1>2. Has(to, Unset, B(store = "key", 2))
  <2>1. CASE store = "key"
    BY <2>1, HasKeyAnywhere DEF B
  <2>2. CASE store # "key"
    BY <2>2, HasNone DEF B
  <2> QED BY <2>1, <2>2
<1>3. ~off => asked = 2 * patterns /\ B(store # "none", 2) = B(store = "key", 2)
  BY DEF B
<1>4. generic_sort_cmd(k, by, limit, get, gets, store, dst, desc, alpha) = Command(fn, argc, toks, Unset)
  BY Zenon DEF generic_sort_cmd
<1> HIDE DEF patterns, to, off
<1>5. Has(toks, Unset, size)
  BY <1>1, <1>2, HasKeyAnywhere, HasArgs, HasOpt, HasConcat, Zenon
<1>6. CASE off
  <2>1. fn \in Misframed
    BY <1>6 DEF Misframed
  <2> HIDE DEF fn, argc, toks
  <2> QED BY <1>4, <1>5, <2>1, ElsewhereOff DEF Standalone
<1>7. CASE ~off
  <2>1. /\ B(by, 2) \in Nat /\ B(limit, 3) \in Nat /\ B(alpha, 1) \in Nat /\ B(desc, 1) \in Nat
        /\ B(store = "key", 2) \in Nat
    BY NatB
  <2> HIDE DEF asked
  <2>2. argc = size
    BY <1>1, <1>3, <1>7, <2>1
  <2> HIDE DEF fn, argc, toks, size
  <2> QED BY <1>4, <1>5, <2>2, Elsewhere DEF Standalone
<1> QED BY <1>6, <1>7

LEMMA SortMethodsGood == Sort => Good(sent)'
<1>1. \A given, by, dir, store, get, alpha, limit : \A k, j \in Key, gets \in Nat :
         \A left \in SlotLeft(k) :
            Good(redis_sort_cmd(k, left, given, by, dir, store, j, get, gets, alpha, limit))
  BY SortGood, Zenon
<1>2. \A by, limit, dir, alpha : \A k, j \in Key, gets \in Nat,
         given \in {"none", "array", "string", "empty"}, to \in {"none", "key", "empty"} :
            Standalone => Good(generic_sort_cmd(k, by, limit, given, gets, to, j, dir, alpha))
  <2> TAKE by, limit, dir, alpha
  <2> TAKE k, j \in Key, gets \in Nat, given \in {"none", "array", "string", "empty"},
           to \in {"none", "key", "empty"}
  <2> HAVE Standalone
  <2> QED BY GenericSortGood, Zenon
<1>3. Sizes \subseteq Nat
  BY Bounds
<1> QED BY <1>1, <1>2, <1>3, SendGood DEF Sort

LEMMA HasGeoOptions ==
    ASSUME NEW o, NEW slot, o.with \in Nat, o.count \in Int,
           o.store # "none" => K(o.key) \in At(slot)
    PROVE  Has(append_georadius_opts(o), slot, georadius_argc(o))
<1> DEFINE stores == o.store # "none"
           to == IF stores THEN <<Arg, K(o.key)>> ELSE << >>
           counts == o.count > 0
<1>1. Has(to, slot, B(stores, 2))
  <2>1. CASE stores
    BY <2>1, OtherTokens DEF Has, B
  <2>2. CASE ~stores
    BY <2>2, HasNone DEF B
  <2> QED BY <2>1, <2>2
<1>2. B(counts, 2) + B(counts /\ o.any, 1) = IF counts THEN 2 + B(o.any, 1) ELSE 0
  BY DEF B
<1>3. /\ B(stores, 2) \in Nat /\ B(counts, 2) \in Nat /\ B(counts /\ o.any, 1) \in Nat
      /\ B(o.sort, 1) \in Nat
  BY NatB, Zenon
<1> HIDE DEF to, stores, counts
<1>4. Has(Args(o.with) \o Opt(o.sort, 1) \o Opt(counts, 2) \o Opt(counts /\ o.any, 1) \o to, slot,
          o.with + B(o.sort, 1) + B(counts, 2) + B(counts /\ o.any, 1) + B(stores, 2))
  BY <1>1, HasArgs, HasOpt, HasConcat, Zenon
<1>5. o.with + B(o.sort, 1) + B(counts, 2) + B(counts /\ o.any, 1) + B(stores, 2)
        = o.with + B(o.sort, 1) + (IF counts THEN 2 + B(o.any, 1) ELSE 0) + B(stores, 2)
  BY <1>2, <1>3
<1> QED BY <1>4, <1>5, Zenon DEF append_georadius_opts, georadius_argc, to, stores, counts

LEMMA RadiusGood ==
    ASSUME NEW k \in Key, NEW o \in GeoOptions
    PROVE  Good(redis_georadius_cmd(k, o)) /\ Good(redis_georadiusbymember_cmd(k, o))
<1>1. o.with \in Nat /\ o.count \in Int /\ o.key \in Key
  BY DEF GeoOptions
<1> DEFINE rest == append_georadius_opts(o)
           argc == georadius_argc(o)
<1>2. ASSUME StoresThere(k, o) PROVE Has(rest, SlotOf[k], argc)
  <2>1. o.store # "none" => K(o.key) \in At(SlotOf[k])
    <3> SUFFICES ASSUME SameSlot(<<k, o.key>>) PROVE K(o.key) \in At(SlotOf[k])
      BY <1>2 DEF StoresThere
    <3>1. cluster => SlotOf[o.key] = SlotOf[k]
      BY DEF SameSlot
    <3> QED BY <1>1, <3>1, KeyToken
  <2> QED BY <1>1, <2>1, HasGeoOptions
<1> HIDE DEF rest, argc
<1>3. ASSUME StoresThere(k, o)
      PROVE  /\ Has(<<K(k)>> \o Args(4) \o rest, SlotOf[k], 5 + argc)
             /\ Has(<<K(k)>> \o Args(3) \o rest, SlotOf[k], 4 + argc)
  BY <1>2, <1>3, HasKeyArgs, HasConcat, Zenon
<1> QED BY <1>3, Sent, Slots, GoodRefused, Zenon
           DEF redis_georadius_cmd, redis_georadiusbymember_cmd, When, rest, argc

LEMMA HasShape ==
    ASSUME NEW dims \in 0..3, NEW slot, NEW fn
    PROVE  \E n : Has(Shaped(dims), slot, n) /\ (Boxed(fn, dims) \notin Misframed => n = Shape(dims))
<1>1. CASE dims = 0
  BY <1>1, HasArgs DEF Shaped, Shape
<1>2. CASE dims # 0
  <2>1. Has(Shaped(dims), slot, 1 + dims)
    BY <1>2, HasArgs DEF Shaped
  <2>2. dims # 2 => Boxed(fn, dims) \in Misframed
    BY <1>2 DEF Boxed, Misframed
  <2>3. dims = 2 => 1 + dims = Shape(dims)
    BY DEF Shape
  <2> QED BY <2>1, <2>2, <2>3
<1> QED BY <1>1, <1>2

LEMMA SearchGood ==
    ASSUME NEW k \in Key, NEW j \in Key, NEW pair, NEW dims \in 0..3, NEW o \in GeoOptions
    PROVE  Good(redis_geosearch_cmd(k, pair, dims, o)) /\ Good(redis_geosearchstore_cmd(j, k, pair, dims, o))
<1>1. Position(pair) \in Nat
  BY DEF Position, B
<1>2. \A opts, slot : opts.with \in Nat /\ opts.count \in Int /\ opts.store = "none"
         => Has(append_georadius_opts(opts), slot, georadius_argc(opts)) /\ georadius_argc(opts) \in Nat
  <2> SUFFICES ASSUME NEW opts, NEW slot, opts.with \in Nat, opts.count \in Int, opts.store = "none"
               PROVE  Has(append_georadius_opts(opts), slot, georadius_argc(opts))
    BY DEF Has
  <2> QED BY HasGeoOptions
<1>3. Shape(dims) \in Nat
  BY DEF Shape
<1>4. Good(redis_geosearch_cmd(k, pair, dims, o))
  <2> DEFINE opts == [o EXCEPT !.store = "none"]
             rest == append_georadius_opts(opts)
             fn == Boxed("geosearch", dims)
             argc == 2 + Position(pair) + Shape(dims) + georadius_argc(opts)
             toks == <<K(k)>> \o Args(Position(pair)) \o Shaped(dims) \o Args(1) \o rest
  <2>1. opts.with \in Nat /\ opts.count \in Int /\ opts.store = "none"
    BY DEF GeoOptions
  <2>2. Has(rest, SlotOf[k], georadius_argc(opts)) /\ georadius_argc(opts) \in Nat
    <3> HIDE DEF opts
    <3> QED BY <1>2, <2>1
  <2>3. PICK n : Has(Shaped(dims), SlotOf[k], n) /\ (fn \notin Misframed => n = Shape(dims))
    BY HasShape
  <2> HIDE DEF rest, opts, fn
  <2>4. Has(toks, SlotOf[k], 1 + Position(pair) + n + 1 + georadius_argc(opts))
    BY <1>1, <2>2, <2>3, HasKey, HasArgs, HasConcat, Zenon
  <2>5. 1 + Position(pair) + Shape(dims) + 1 + georadius_argc(opts) = argc
    BY <1>1, <1>3, <2>2
  <2> HIDE DEF toks, argc
  <2>6. Good(Command(fn, argc, toks, SlotOf[k]))
    <3>1. CASE fn \in Misframed
      BY <2>4, <3>1, SentOff, Slots
    <3>2. CASE fn \notin Misframed
      BY <2>3, <2>4, <2>5, <3>2, Sent, Slots
    <3> QED BY <3>1, <3>2
  <2> QED BY <2>6, GoodRefused, Zenon DEF redis_geosearch_cmd, When, opts, rest, fn, argc, toks
<1>5. Good(redis_geosearchstore_cmd(j, k, pair, dims, o))
  <2> DEFINE opts == [o EXCEPT !.store = "none", !.with = 0, !.any = FALSE]
             rest == append_georadius_opts(opts)
             dist == o.store = "dist"
             fn == Boxed("geosearchstore", dims)
             argc == 3 + Position(pair) + Shape(dims) + georadius_argc(opts) + B(dist, 1)
             toks == Keys(<<j, k>>) \o Args(Position(pair)) \o Shaped(dims) \o Args(1) \o rest
                       \o Opt(dist, 1)
  <2>1. opts.with \in Nat /\ opts.count \in Int /\ opts.store = "none"
    BY DEF GeoOptions
  <2>2. Has(rest, SlotOf[j], georadius_argc(opts)) /\ georadius_argc(opts) \in Nat
    <3> HIDE DEF opts
    <3> QED BY <1>2, <2>1
  <2>3. PICK n : Has(Shaped(dims), SlotOf[j], n) /\ (fn \notin Misframed => n = Shape(dims))
    BY HasShape
  <2> HIDE DEF rest, opts, fn, dist
  <2>4. SameSlot(<<j, k>>) =>
          Has(toks, SlotOf[j], 2 + Position(pair) + n + 1 + georadius_argc(opts) + B(dist, 1))
    BY <1>1, <2>2, <2>3, HasPair, HasArgs, HasOpt, HasConcat, Zenon
  <2>5. 2 + Position(pair) + Shape(dims) + 1 + georadius_argc(opts) + B(dist, 1) = argc
    <3>1. B(dist, 1) \in Nat
      BY NatB
    <3> QED BY <1>1, <1>3, <2>2, <3>1
  <2> HIDE DEF toks, argc
  <2>6. SameSlot(<<j, k>>) => Good(Command(fn, argc, toks, SlotOf[j]))
    <3>1. CASE fn \in Misframed
      BY <2>4, <3>1, SentOff, Slots
    <3>2. CASE fn \notin Misframed
      BY <2>3, <2>4, <2>5, <3>2, Sent, Slots
    <3> QED BY <3>1, <3>2
  <2> QED BY <2>6, GoodRefused, Zenon DEF redis_geosearchstore_cmd, When, opts, rest, fn, argc, toks, dist
<1> QED BY <1>4, <1>5

LEMMA GeoGood == Geo => Good(sent)'
<1>1. \A unit : \A k \in Key : Good(redis_geodist_cmd(k, unit))
  <2>1. \A unit : (IF unit THEN 3 ELSE 2) \in Nat
    OBVIOUS
  <2> QED BY <2>1, GoodKeyed, Zenon DEF redis_geodist_cmd
<1>2. \A mode, ch : \A k \in Key, argc \in 3..8 : Good(redis_geoadd_cmd(k, argc, mode, ch))
  <2> TAKE mode, ch
  <2> TAKE k \in Key, argc \in 3..8
  <2> DEFINE n == argc - B(argc % 3 = 2, 1)
  <2> SUFFICES ASSUME argc >= 4
               PROVE  Good(Command("geoadd", n + B(mode, 1) + B(ch, 1),
                                   <<K(k)>> \o Opt(mode, 1) \o Opt(ch, 1) \o Args(n - 1), SlotOf[k]))
    BY GoodRefused, Zenon DEF redis_geoadd_cmd, When
  <2>1. n \in Nat /\ n - 1 \in Nat
    BY DEF B
  <2> HIDE DEF n
  <2>2. Has(<<K(k)>> \o Opt(mode, 1) \o Opt(ch, 1) \o Args(n - 1), SlotOf[k],
            1 + B(mode, 1) + B(ch, 1) + (n - 1))
    BY <2>1, HasKey, HasArgs, HasOpt, HasConcat, Zenon
  <2>3. 1 + B(mode, 1) + B(ch, 1) + (n - 1) = n + B(mode, 1) + B(ch, 1)
    <3>1. B(mode, 1) \in Nat /\ B(ch, 1) \in Nat
      BY NatB
    <3> QED BY <2>1, <3>1
  <2> QED BY <2>2, <2>3, Sent, Slots, Zenon
<1>3. \A k \in Key, o \in GeoOptions : /\ Good(redis_georadius_cmd(k, o))
                                       /\ Good(redis_georadiusbymember_cmd(k, o))
  BY RadiusGood
<1>4. \A a : \A k, j \in Key, o \in GeoOptions, dims \in 0..3 :
         /\ Good(redis_geosearch_cmd(k, a, dims, o))
         /\ Good(redis_geosearchstore_cmd(j, k, a, dims, o))
  BY SearchGood, Zenon
<1> QED BY <1>1, <1>2, <1>3, <1>4, SendGood DEF Geo

----------------------------------------------------------------------------

LEMMA ElsewhereWhole ==
    ASSUME NEW fn, NEW slot, NEW toks, NEW n, ~cluster, Has(toks, Unset, n)
    PROVE  Good(redis_spprintf(fn, toks, slot))
<1>1. toks \in Seq(At(slot))
  BY DEF Has, At
<1> QED BY <1>1, OneNode DEF redis_spprintf

LEMMA MigrateGood ==
    ASSUME NEW single, NEW ks \in Lists, NEW copy, NEW replace, NEW auth \in {"none", "pass", "both"},
           Standalone
    PROVE  Good(redis_migrate_cmd(single, ks, copy, replace, auth))
<1> DEFINE creds == CASE auth = "none" -> 0 [] auth = "pass" -> 2 [] auth = "both" -> 3
           one == IF single THEN <<K(Head(ks))>> ELSE Args(1)
           many == IF single THEN << >> ELSE Args(1) \o Keys(ks)
           toks == Args(2) \o one \o Args(2) \o Opt(copy, 1) \o Opt(replace, 1) \o Args(creds) \o many
           argc == 5 + B(copy, 1) + B(replace, 1) + creds + B(~single, 1 + Len(ks))
<1> SUFFICES ASSUME ks # << >> PROVE Good(Command("migrate", argc, toks, Unset))
  BY GoodRefused, Zenon DEF redis_migrate_cmd, When
<1>1. creds \in Nat /\ Len(ks) \in Nat /\ Head(ks) \in Key
  BY ListsAreSequences
<1>2. Has(one, Unset, 1)
  BY <1>1, HasKeyAnywhere, HasArgs, Zenon
<1>3. Has(many, Unset, B(~single, 1 + Len(ks))) /\ B(~single, 1 + Len(ks)) \in Nat
  <2>1. CASE single
    <3>1. B(~single, 1 + Len(ks)) = 0
      BY <2>1 DEF B
    <3> QED BY <2>1, <3>1, HasNone
  <2>2. CASE ~single
    <3>1. B(~single, 1 + Len(ks)) = 1 + Len(ks)
      BY <2>2 DEF B
    <3>2. Has(Args(1) \o Keys(ks), Unset, 1 + Len(ks))
      BY HasArgs, HasAnywhere, HasConcat, Zenon
    <3> QED BY <1>1, <2>2, <3>1, <3>2
  <2> QED BY <2>1, <2>2
<1> HIDE DEF creds, one, many
<1>4. Has(toks, Unset, 2 + 1 + 2 + B(copy, 1) + B(replace, 1) + creds + B(~single, 1 + Len(ks)))
  BY <1>1, <1>2, <1>3, HasArgs, HasOpt, HasConcat, Zenon
<1>5. 2 + 1 + 2 + B(copy, 1) + B(replace, 1) + creds + B(~single, 1 + Len(ks)) = argc
  <2>1. B(copy, 1) \in Nat /\ B(replace, 1) \in Nat
    BY NatB
  <2> QED BY <1>1, <1>3, <2>1
<1> QED BY <1>4, <1>5, Elsewhere DEF Standalone

LEMMA ClientListGood ==
    ASSUME NEW type, NEW ids \in -1..MaxArgs, NEW valid, Standalone
    PROVE  Good(redis_build_client_list_command(type, ids, valid))
<1> DEFINE id == IF ids = -1 THEN 0 ELSE IF ids = 0 THEN 2 ELSE 1 + ids
<1>1. id \in Nat
  BY Bounds
<1> HIDE DEF id
<1>2. Has(Args(1) \o Opt(type, 2) \o Args(id), Unset, 1 + B(type, 2) + id)
  BY <1>1, HasArgs, HasOpt, HasConcat, Zenon
<1> QED BY <1>2, Elsewhere, GoodRefused, Zenon DEF redis_build_client_list_command, When, Standalone, id

LEMMA TrackingGood ==
    ASSUME NEW argc, NEW redirect, NEW prefixes \in Nat, NEW string, NEW flags \in Nat, Standalone
    PROVE  Good(redis_build_client_tracking_command(argc, redirect, prefixes, string, flags))
<1> DEFINE n == IF string THEN 1 ELSE prefixes
           fn == IF string THEN "client tracking string" ELSE "client tracking"
           size == 2 + B(redirect, 2) + 2 * prefixes + flags
           toks == Args(2) \o Opt(redirect, 2) \o Args(2 * n) \o Args(flags)
<1> SUFFICES Good(Command(fn, size, toks, Unset))
  BY GoodRefused, Zenon DEF redis_build_client_tracking_command, When
<1>1. n \in Nat /\ 2 * n \in Nat
  OBVIOUS
<1>2. string => fn \in Misframed
  BY DEF Misframed
<1>3. ~string => n = prefixes
  OBVIOUS
<1> HIDE DEF n, fn
<1>4. Has(toks, Unset, 2 + B(redirect, 2) + 2 * n + flags)
  BY <1>1, HasArgs, HasOpt, HasConcat, Zenon
<1>5. CASE string
  BY <1>2, <1>4, <1>5, ElsewhereOff, Zenon DEF Standalone
<1>6. CASE ~string
  BY <1>3, <1>4, <1>6, Elsewhere, Zenon DEF Standalone
<1> QED BY <1>5, <1>6

LEMMA ClientGood ==
    ASSUME NEW op \in {"getname", "setname", "caching", "pause", "reply", "unpause", "unknown"},
           NEW argc \in Nat, NEW valid, Standalone
    PROVE  Good(redis_client_cmd(op, argc, valid))
<1>1. Has(Args(1), Unset, 1) /\ Has(Args(2), Unset, 2)
  BY HasArgs
<1>2. CASE op = "getname"
  BY <1>1, <1>2, Elsewhere DEF redis_client_cmd, Standalone
<1>3. CASE op = "setname"
  BY <1>1, <1>3, Elsewhere, GoodRefused DEF redis_client_cmd, When, Standalone
<1>4. CASE op = "caching"
  BY <1>1, <1>4, Elsewhere, GoodRefused DEF redis_client_cmd, When, Standalone
<1>5. CASE op = "pause"
  <2>1. Has(Args(2) \o Opt(argc > 1, 1), Unset, 2 + B(argc > 1, 1))
    BY <1>1, HasOpt, HasConcat, Zenon
  <2>2. 2 + B(argc > 1, 1) = IF argc > 1 THEN 3 ELSE 2
    BY DEF B
  <2>3. Good(Command("client", IF argc > 1 THEN 3 ELSE 2, Args(2) \o Opt(argc > 1, 1), Unset))
    BY <2>1, <2>2, Elsewhere, Zenon DEF Standalone
  <2> QED BY <1>5, <2>3, GoodRefused DEF redis_client_cmd, When
<1>6. CASE op = "reply"
  <2>1. Has(Args(1) \o Opt(argc > 0, 1), Unset, 1 + B(argc > 0, 1))
    BY <1>1, HasOpt, HasConcat, Zenon
  <2>2. 1 + B(argc > 0, 1) = IF argc > 0 THEN 2 ELSE 1
    BY DEF B
  <2>3. Good(Command("client reply", IF argc > 0 THEN 2 ELSE 1, Args(1) \o Opt(argc > 0, 1), Unset))
    BY <2>1, <2>2, Elsewhere, Zenon DEF Standalone
  <2> QED BY <1>6, <2>3, GoodRefused DEF redis_client_cmd, When
<1>7. CASE op = "unpause"
  BY <1>1, <1>7, ElsewhereOff DEF redis_client_cmd, Standalone, Misframed
<1>8. CASE op = "unknown"
  BY <1>8, GoodRefused DEF redis_client_cmd
<1> QED BY <1>2, <1>3, <1>4, <1>5, <1>6, <1>7, <1>8

LEMMA FailoverGood ==
    ASSUME NEW to, NEW force, NEW abort, NEW timeout, Standalone
    PROVE  Good(redis_failover_cmd(to, force, abort, timeout))
<1>1. Has(Opt(to, 3) \o Opt(to /\ force, 1) \o Opt(abort, 1) \o Opt(timeout, 2), Unset,
          B(to, 3) + B(to /\ force, 1) + B(abort, 1) + B(timeout, 2))
  BY HasOpt, HasConcat, Zenon
<1>2. B(to, 3) + B(to /\ force, 1) = B(to, 3 + B(force, 1))
  BY DEF B
<1>3. Has(Opt(to, 3) \o Opt(to /\ force, 1) \o Opt(abort, 1) \o Opt(timeout, 2), Unset,
          B(to, 3 + B(force, 1)) + B(abort, 1) + B(timeout, 2))
  BY <1>1, <1>2, Zenon
<1> QED BY <1>3, Elsewhere, Zenon DEF redis_failover_cmd, Standalone

LEMMA ConfigGood ==
    ASSUME NEW op \in {"other", "get", "set", "unknown"}, NEW pair, NEW n \in Nat, NEW named, Standalone
    PROVE  Good(redis_config_cmd(op, pair, n, named))
<1>1. 1 + n \in Nat /\ 2 * n \in Nat
  OBVIOUS
<1>2. Good(redis_build_config_get_cmd(n)) /\ Good(redis_build_config_set_cmd(pair, n, named))
  BY <1>1, HasArgs, HasConcat, Elsewhere, GoodRefused, Zenon
     DEF redis_build_config_get_cmd, redis_build_config_set_cmd, When, Standalone
<1>3. Good(Command("config", 1, Args(1), Unset))
  BY HasArgs, Elsewhere, Zenon DEF Standalone
<1> QED BY <1>2, <1>3, GoodRefused DEF redis_config_cmd

LEMMA ServerGood == Server => Good(sent)'
<1> SUFFICES ASSUME Standalone, Server PROVE Good(sent)'
  BY DEF Server
<1>1. /\ Good(redis_empty_cmd) /\ \A a : Good(redis_opt_str_cmd(a))
      /\ Good(redis_str_cmd) /\ Good(redis_long_long_cmd) /\ Good(redis_replicaof_cmd)
      /\ Good(redis_sentinel_cmd) /\ Good(redis_sentinel_str_cmd)
  BY HasNone, HasArgs, HasOpt, ElsewhereWhole, Zenon
     DEF redis_empty_cmd, redis_opt_str_cmd, redis_str_cmd, redis_long_long_cmd, redis_replicaof_cmd,
         redis_sentinel_cmd, redis_sentinel_str_cmd, Standalone
<1>2. \A a, b, c, d : Good(redis_failover_cmd(a, b, c, d))
  BY FailoverGood, Zenon
<1>3. \A a : Good(redis_flush_cmd(a))
  BY HasOpt, Elsewhere, Zenon DEF redis_flush_cmd, Standalone
<1>4. \A n \in Nat : Good(redis_info_cmd(n))
  BY HasArgs, Elsewhere, Zenon DEF redis_info_cmd, gen_vararg_cmd, Standalone
<1>5. \A a, b : \A op \in {"other", "get", "set", "unknown"}, n \in Nat : Good(redis_config_cmd(op, a, n, b))
  BY ConfigGood, Zenon
<1>6. \A op : \A n \in Nat : Good(redis_acl_cmd(op, n))
  BY HasArgs, HasConcat, Elsewhere, GoodRefused, Zenon DEF redis_acl_cmd, When, Standalone
<1>7. \A op, a : Good(redis_slowlog_cmd(op, a))
  BY HasArgs, HasOpt, HasConcat, Elsewhere, GoodRefused, Zenon DEF redis_slowlog_cmd, When, Standalone
<1>8. \A a, b : Good(redis_auth_cmd(a, b))
  <2>1. \A a : 1 + B(a, 1) \in Nat
    BY NatB
  <2> QED BY <2>1, HasArgs, ElsewhereWhole, GoodRefused, Zenon DEF redis_auth_cmd, When, Standalone
<1>9. \A n : Good(redis_select_cmd(n))
  BY HasArgs, ElsewhereWhole, GoodRefused, Zenon DEF redis_select_cmd, When, Standalone
<1>10. \A a, b, c : \A ks \in Lists, auth \in {"none", "pass", "both"} :
          Good(redis_migrate_cmd(a, ks, b, c, auth))
  BY MigrateGood, Zenon
<1>11. \A a, b : \A ids \in -1..MaxArgs : Good(redis_build_client_list_command(a, ids, b))
  BY ClientListGood, Zenon
<1>12. \A a, b : \A filters \in 0..6 : Good(redis_build_client_kill_command(a, filters, b))
  <2>1. \A filters \in 0..6 : 2 * filters \in Nat
    OBVIOUS
  <2> QED BY <2>1, HasArgs, HasOpt, HasConcat, Elsewhere, GoodRefused, Zenon
             DEF redis_build_client_kill_command, When, Standalone
<1>13. \A n, a, b : \A m \in Nat, flags \in 0..4 : Good(redis_build_client_tracking_command(n, a, m, b, flags))
  <2>1. 0..4 \subseteq Nat
    OBVIOUS
  <2> QED BY <2>1, TrackingGood, Zenon
<1>14. \A a : \A op \in {"getname", "setname", "caching", "pause", "reply", "unpause", "unknown"},
         n \in Nat : Good(redis_client_cmd(op, n, a))
  BY ClientGood, Zenon
<1>15. Sizes \subseteq Nat
  BY Bounds
<1> QED BY <1>1, <1>2, <1>3, <1>4, <1>5, <1>6, <1>7, <1>8, <1>9, <1>10, <1>11, <1>12, <1>13, <1>14,
           <1>15, SendGood DEF Server

LEMMA DescribeGood == Describe => Good(sent)'
<1>1. \A op : \A n \in Nat : Good(redis_command_cmd(op, n))
  BY HasArgs, HasOpt, HasConcat, Slots, Sent, GoodRefused, Zenon DEF redis_command_cmd, When
<1> QED BY <1>1, Bounds, SendGood DEF Describe

----------------------------------------------------------------------------

LEMMA XaddGood ==
    ASSUME NEW k \in Key, NEW nomkstream, NEW fields \in Nat, NEW maxlen \in Int, NEW approx
    PROVE  Good(redis_xadd_cmd(k, nomkstream, fields, maxlen, approx))
<1> DEFINE long == maxlen > 0
           limit == IF long THEN IF approx THEN 3 ELSE 2 ELSE 0
           toks == <<K(k)>> \o Opt(nomkstream, 1) \o Opt(long, 2) \o Opt(long /\ approx, 1)
                     \o Args(1 + 2 * fields)
           argc == 2 + B(nomkstream, 1) + 2 * fields + limit
<1>1. 1 + 2 * fields \in Nat /\ limit = B(long, 2) + B(long /\ approx, 1)
  BY DEF B
<1>2. B(long, 2) \in Nat /\ B(long /\ approx, 1) \in Nat /\ B(nomkstream, 1) \in Nat
  BY NatB, Zenon
<1> HIDE DEF long, limit
<1>3. Has(toks, SlotOf[k], 1 + B(nomkstream, 1) + B(long, 2) + B(long /\ approx, 1) + (1 + 2 * fields))
  BY <1>1, HasKey, HasOpt, HasArgs, HasConcat, Zenon
<1>4. 1 + B(nomkstream, 1) + B(long, 2) + B(long /\ approx, 1) + (1 + 2 * fields) = argc
  BY <1>1, <1>2
<1>5. Good(Command("xadd", argc, toks, SlotOf[k]))
  BY <1>3, <1>4, Sent, Slots, Zenon
<1> QED BY <1>5, GoodRefused, Zenon DEF redis_xadd_cmd, When, long, limit

LEMMA XpendingGood ==
    ASSUME NEW k \in Key, NEW start, NEW end, NEW count, NEW consumer, NEW idle
    PROVE  Good(redis_xpending_cmd(k, start, end, count, consumer, idle))
<1> DEFINE waits == idle # 0
           fn == IF start /\ waits THEN "xpending idle" ELSE "xpending"
           argc == 2 + (IF start THEN 3 + B(consumer, 1) + B(waits, 1) ELSE 0)
           range == IF start THEN Opt(waits, 2) \o Args(3) \o Opt(consumer, 1) ELSE << >>
           toks == <<K(k)>> \o Args(1) \o range
           size == IF start THEN B(waits, 2) + 3 + B(consumer, 1) ELSE 0
<1> SUFFICES Good(Command(fn, argc, toks, SlotOf[k]))
  BY GoodRefused, Zenon DEF redis_xpending_cmd, When
<1>1. Has(range, SlotOf[k], size)
  BY HasNone, HasOpt, HasArgs, HasConcat, Zenon
<1>2. start /\ waits => fn \in Misframed
  BY DEF Misframed
<1>3. ~(start /\ waits) => 2 + size = argc
  <2>1. ~waits => B(waits, 1) = 0 /\ B(waits, 2) = 0
    BY DEF B
  <2>2. B(consumer, 1) \in Nat
    BY NatB
  <2> HIDE DEF waits
  <2>3. CASE start
    BY <2>1, <2>2, <2>3
  <2>4. CASE ~start
    BY <2>4
  <2> QED BY <2>3, <2>4
<1> HIDE DEF fn, argc, range, size, waits
<1>4. Has(toks, SlotOf[k], 2 + size)
  BY <1>1, HasKeyArgs, HasConcat, Zenon
<1>5. CASE start /\ waits
  BY <1>2, <1>4, <1>5, SentOff, Slots, Zenon
<1>6. CASE ~(start /\ waits)
  BY <1>3, <1>4, <1>6, Sent, Slots, Zenon
<1> QED BY <1>5, <1>6

LEMMA StreamArguments ==
    ASSUME NEW ks \in Lists, ks # << >>, SameSlot(ks)
    PROVE  /\ Has(append_stream_args(ks), SlotOfLast(ks), 1 + Len(ks) + Len(ks))
           /\ SlotOfLast(ks) # Unset /\ Len(ks) \in Nat
BY ListsAreSequences, HasLast, HasArgs, HasConcat, Zenon DEF append_stream_args

LEMMA XreadGood ==
    ASSUME NEW ks \in Lists, NEW count, NEW block, NEW no_count, NEW no_block
    PROVE  Good(redis_xread_cmd(ks, count, block)) /\ Good(redis_xreadgroup_cmd(ks, no_count, count, no_block, block))
<1> DEFINE slot == SlotOfLast(ks)
           streams == append_stream_args(ks)
           l == Len(ks)
<1> SUFFICES ASSUME ks # << >>, SameSlot(ks)
             PROVE  /\ Good(Command("xread", 1 + (2 * l) + B(count > -1, 2) + B(block > -1, 2),
                                     Opt(count > -1, 2) \o Opt(block > -1, 2) \o streams, slot))
                    /\ Good(Command("xreadgroup", 4 + (2 * l) + B(~no_count, 2) + B(~no_block, 2),
                                     Args(3) \o Opt(~no_count, 2) \o Opt(~no_block, 2) \o streams, slot))
  BY GoodRefused, Zenon DEF redis_xread_cmd, redis_xreadgroup_cmd, When
<1>1. Has(streams, slot, 1 + l + l) /\ slot # Unset /\ l \in Nat
  BY StreamArguments
<1> HIDE DEF streams, slot, l
<1>2. Good(Command("xread", 1 + (2 * l) + B(count > -1, 2) + B(block > -1, 2),
                   Opt(count > -1, 2) \o Opt(block > -1, 2) \o streams, slot))
  <2>1. Has(Opt(count > -1, 2) \o Opt(block > -1, 2) \o streams, slot,
            B(count > -1, 2) + B(block > -1, 2) + (1 + l + l))
    BY <1>1, HasOpt, HasConcat, Zenon
  <2>2. B(count > -1, 2) \in Nat /\ B(block > -1, 2) \in Nat
    BY NatB, Zenon
  <2>3. B(count > -1, 2) + B(block > -1, 2) + (1 + l + l) = 1 + (2 * l) + B(count > -1, 2) + B(block > -1, 2)
    BY <1>1, <2>2
  <2> QED BY <1>1, <2>1, <2>3, Sent, Zenon
<1>3. Good(Command("xreadgroup", 4 + (2 * l) + B(~no_count, 2) + B(~no_block, 2),
                   Args(3) \o Opt(~no_count, 2) \o Opt(~no_block, 2) \o streams, slot))
  <2>1. Has(Args(3) \o Opt(~no_count, 2) \o Opt(~no_block, 2) \o streams, slot,
            3 + B(~no_count, 2) + B(~no_block, 2) + (1 + l + l))
    BY <1>1, HasArgs, HasOpt, HasConcat, Zenon
  <2>2. B(~no_count, 2) \in Nat /\ B(~no_block, 2) \in Nat
    BY NatB, Zenon
  <2>3. 3 + B(~no_count, 2) + B(~no_block, 2) + (1 + l + l) = 4 + (2 * l) + B(~no_count, 2) + B(~no_block, 2)
    BY <1>1, <2>2
  <2> QED BY <1>1, <2>1, <2>3, Sent, Zenon
<1> QED BY <1>2, <1>3

LEMMA XclaimGood ==
    ASSUME NEW k \in Key, NEW ids \in Nat, NEW opt
    PROVE  Good(redis_xclaim_cmd(k, ids, opt))
<1> DEFINE toks == <<K(k)>> \o Args(3 + ids) \o append_xclaim_options(opt)
<1>1. Has(append_xclaim_options(opt), SlotOf[k], xclaim_options_argc(opt))
  BY HasOpt, HasConcat, Zenon DEF append_xclaim_options, xclaim_options_argc
<1>2. 3 + ids \in Nat /\ 1 + (3 + ids) = 4 + ids
  OBVIOUS
<1>3. Has(<<K(k)>> \o Args(3 + ids), SlotOf[k], 4 + ids)
  BY <1>2, HasKeyArgs, Zenon
<1>4. Has(toks, SlotOf[k], 4 + ids + xclaim_options_argc(opt))
  BY <1>1, <1>3, HasConcat, Zenon
<1> QED BY <1>4, Sent, Slots, GoodRefused, Zenon DEF redis_xclaim_cmd, When

LEMMA XautoclaimGood ==
    ASSUME NEW k \in Key, NEW count \in Int, NEW justid
    PROVE  Good(redis_xautoclaim_cmd(k, count, justid))
<1> DEFINE counts == count > 0
           fn == IF counts THEN "xautoclaim count" ELSE "xautoclaim"
           argc == 5 + (IF counts THEN 1 + count ELSE 0) + B(justid, 1)
           toks == <<K(k)>> \o Args(4) \o Opt(counts, 2) \o Opt(justid, 1)
<1>1. Has(toks, SlotOf[k], 5 + B(counts, 2) + B(justid, 1))
  BY HasKeyArgs, HasOpt, HasConcat, Zenon
<1>2. counts => fn \in Misframed
  BY DEF Misframed
<1>3. ~counts => argc = 5 + B(counts, 2) + B(justid, 1)
  BY DEF B
<1>4. redis_xautoclaim_cmd(k, count, justid) = Command(fn, argc, toks, SlotOf[k])
  BY Zenon DEF redis_xautoclaim_cmd
<1> HIDE DEF counts, fn, argc, toks
<1>5. CASE counts
  BY <1>1, <1>2, <1>4, <1>5, SentOff, Slots, Zenon
<1>6. CASE ~counts
  BY <1>1, <1>3, <1>4, <1>6, Sent, Slots, Zenon
<1> QED BY <1>5, <1>6

LEMMA XgroupGood ==
    ASSUME NEW op, NEW k \in Key, NEW given, NEW mkstream, NEW entries_read
    PROVE  Good(redis_xgroup_cmd(op, k, given, mkstream, entries_read))
<1> DEFINE nargs == CASE op = "help" -> 0 [] op = "destroy" -> 2 [] OTHER -> 3
           mk == mkstream /\ op = "create"
           read == op \in {"create", "setid"} /\ entries_read # -2
           keyed == nargs > 0
           which == IF keyed THEN <<K(k)>> \o Args(nargs - 1) ELSE << >>
           fn == IF op = "help" THEN "xgroup help" ELSE "xgroup"
           argc == 1 + nargs + B(mk, 1) + B(read, 2)
           toks == Args(1) \o which \o Opt(mk, 1) \o Opt(read, 2)
           slot == IF keyed THEN SlotOf[k] ELSE Unset
<1>1. nargs \in Nat /\ (keyed => nargs - 1 \in Nat /\ 1 + (nargs - 1) = nargs) /\ (~keyed => nargs = 0)
  OBVIOUS
<1>2. keyed \/ fn \in Unrouted
  BY DEF Unrouted
<1>3. redis_xgroup_cmd(op, k, given, mkstream, entries_read)
        = When(op # "unknown" /\ given >= nargs, Command(fn, argc, toks, slot))
  BY Zenon DEF redis_xgroup_cmd
<1> HIDE DEF nargs, mk, read, keyed, fn
<1>4. Has(which, slot, nargs)
  <2>1. CASE keyed
    <3>1. Has(<<K(k)>> \o Args(nargs - 1), SlotOf[k], nargs)
      BY <1>1, <2>1, HasKeyArgs, Zenon
    <3> QED BY <2>1, <3>1
  <2>2. CASE ~keyed
    BY <1>1, <2>2, HasNone
  <2> QED BY <2>1, <2>2
<1>5. slot # Unset \/ fn \in Unrouted
  BY <1>2, Slots
<1> HIDE DEF which, slot
<1>6. Has(toks, slot, argc)
  BY <1>4, HasArgs, HasOpt, HasConcat, Zenon
<1> HIDE DEF toks, argc
<1>7. Good(Command(fn, argc, toks, slot))
  BY <1>5, <1>6, OneNode DEF Has
<1> QED BY <1>3, <1>7, GoodRefused, Zenon DEF When

LEMMA XinfoGood ==
    ASSUME NEW keyed, NEW k \in Key, NEW arg, NEW count
    PROVE  Good(redis_xinfo_cmd(keyed, k, arg, count))
<1> DEFINE which == IF keyed THEN <<K(k)>> ELSE << >>
           slot == IF keyed THEN SlotOf[k] ELSE Unset
           fn == IF keyed THEN "xinfo" ELSE "xinfo help"
           toks == Args(1) \o which \o Opt(arg, 1) \o Opt(count > -1, 2)
           argc == 1 + B(keyed, 1) + B(arg, 1) + B(count > -1, 2)
<1>1. Has(which, slot, B(keyed, 1)) /\ (slot # Unset \/ fn \in Unrouted)
  <2>1. CASE keyed
    BY <2>1, HasKey, Slots DEF B
  <2>2. CASE ~keyed
    BY <2>2, HasNone DEF B, Unrouted
  <2> QED BY <2>1, <2>2
<1>2. redis_xinfo_cmd(keyed, k, arg, count)
        = When(~(arg /\ ~keyed) /\ ~(count # -1 /\ ~(keyed /\ arg)), Command(fn, argc, toks, slot))
  BY Zenon DEF redis_xinfo_cmd
<1> HIDE DEF which, slot, fn
<1>3. Has(toks, slot, argc)
  BY <1>1, HasArgs, HasOpt, HasConcat, Zenon
<1> HIDE DEF toks, argc
<1>4. Good(Command(fn, argc, toks, slot))
  BY <1>1, <1>3, OneNode DEF Has
<1> QED BY <1>2, <1>4, GoodRefused, Zenon DEF When

LEMMA StreamsGood == Streams => Good(sent)'
<1>1. \A a, b : \A k \in Key, fields \in Nat, n \in Int : Good(redis_xadd_cmd(k, a, fields, n, b))
  BY XaddGood, Zenon
<1>2. \A a, b, n, c, m : \A k \in Key : Good(redis_xpending_cmd(k, a, b, n, c, m))
  BY XpendingGood, Zenon
<1>3. \A n : \A k \in Key : Good(redis_xrange_cmd(k, n))
  BY HasKeyArgs, HasOpt, HasConcat, Sent, Slots, Zenon DEF redis_xrange_cmd
<1>4. \A a, b, n, m : \A ks \in Lists : /\ Good(redis_xread_cmd(ks, n, m))
                                        /\ Good(redis_xreadgroup_cmd(ks, a, n, b, m))
  BY XreadGood, Zenon
<1>5. \A k \in Key, ids \in Nat : Good(redis_xack_cmd(k, ids))
  <2>1. \A ids \in Nat : 1 + ids \in Nat /\ 1 + (1 + ids) = 2 + ids
    OBVIOUS
  <2>2. \A k \in Key, ids \in Nat : Has(<<K(k)>> \o Args(1 + ids), SlotOf[k], 2 + ids)
    BY <2>1, HasKeyArgs, Zenon
  <2> QED BY <2>2, Sent, Slots, GoodRefused, Zenon DEF redis_xack_cmd, When
<1>6. \A opt : \A k \in Key, ids \in Nat : Good(redis_xclaim_cmd(k, ids, opt))
  BY XclaimGood, Zenon
<1>7. \A a : \A k \in Key, n \in Int : Good(redis_xautoclaim_cmd(k, n, a))
  BY XautoclaimGood, Zenon
<1>8. \A op, given, a, n : \A k \in Key : Good(redis_xgroup_cmd(op, k, given, a, n))
  BY XgroupGood, Zenon
<1>9. \A a, b, n : \A k \in Key : Good(redis_xinfo_cmd(a, k, b, n))
  BY XinfoGood, Zenon
<1>10. \A a, limit : \A k \in Key : Good(redis_xtrim_cmd(k, a, limit))
  BY HasKeyArgs, HasOpt, HasConcat, Sent, Slots, Zenon DEF redis_xtrim_cmd
<1>11. Sizes \subseteq Nat /\ Count \subseteq Int
  BY Bounds
<1> QED BY <1>1, <1>2, <1>3, <1>4, <1>5, <1>6, <1>7, <1>8, <1>9, <1>10, <1>11, SendGood DEF Streams

----------------------------------------------------------------------------

(* The inductive invariant is that the command built last is Good.         *)

LEMMA InitGood == Init => Good(sent)
BY GoodRefused DEF Init

LEMMA NextGood == Good(sent) /\ [Next]_<<cluster, sent>> => Good(sent)'
<1> SUFFICES ASSUME Good(sent), [Next]_<<cluster, sent>> PROVE Good(sent)'
  OBVIOUS
<1>1. CASE Written
  <2>1. ~Refused.ok /\ DOMAIN Refused.toks = {}
    BY DEF Refused
  <2>2. sent' = Refused
    BY <1>1 DEF Written
  <2> QED BY <2>1, <2>2 DEF Good, Framed, Counted, Together, CountedIn
<1>2. CASE UNCHANGED <<cluster, sent>>
  BY <1>2 DEF Good, Framed, Counted, Together, CountedIn, ZeroFirst
<1> QED BY <1>1, <1>2, SharedGood, ManyKeysGood, SortedSetsGood, ScriptsGood, ChannelsGood,
           StringsGood, HashesGood, ListsAndSetsGood, SortMethodsGood, GeoGood, ServerGood,
           DescribeGood, StreamsGood DEF Next

LEMMA GoodImplies == Good(sent) => WellFramed /\ KeysCounted /\ RoutedTogether
<1>1. Good(sent) => WellFramed
  BY DEF Good, Framed, WellFramed
<1>2. Good(sent) => KeysCounted
  BY DEF Good, Counted, CountedIn, KeysCounted
<1>3. Good(sent) => RoutedTogether
  BY DEF Good, Together, ZeroFirst, RoutedTogether, SlotZero
<1> QED BY <1>1, <1>2, <1>3

LEMMA AlwaysGood == Spec => []Good(sent)
BY InitGood, NextGood, PTL DEF Spec

\* No command makes the server wait for arguments that are not sent, or read
\* arguments as a command of their own: every builder's argc is the number of
\* tokens it appends, outside the branches Misframed names.
THEOREM EveryCommandIsFramed == Spec => []WellFramed
BY AlwaysGood, GoodImplies, PTL

\* The number of keys ZDIFF, ZINTER, ZUNION, their STORE forms, LMPOP, EVAL and
\* FCALL announce is the number of keys that follow, whatever else is asked for.
THEOREM EveryKeyIsCounted == Spec => []KeysCounted
BY AlwaysGood, GoodImplies, PTL

\* A cluster command goes to the slot of every key in it, prefix included,
\* however many keys there are and wherever they hash; but for a key in slot 0
\* of ZDIFF and its kin, and the branches Unrouted names.
THEOREM EveryKeyIsRouted == Spec => []RoutedTogether
BY AlwaysGood, GoodImplies, PTL
=============================================================================
