-------------------------- MODULE MonitorEditsProofs --------------------------
(***************************************************************************)
(* For any number of commands, any requests the command line accepts, any  *)
(* contents of the three files and any order of commands, edits in the     *)
(* monitor, edits in the editor, starts and stops: the four properties of  *)
(* the settings.                                                           *)
(***************************************************************************)
EXTENDS MonitorEdits, SequenceTheorems, WellFoundedInduction, TLAPS

-----------------------------------------------------------------------------
(* Overlays of partial functions.                                          *)

LEMMA OverDomain ==
    \A f, g : DOMAIN (f ++ g) = DOMAIN f \cup DOMAIN g
  BY DEF ++

LEMMA OverValue ==
    \A f, g : \A k \in DOMAIN f \cup DOMAIN g :
        (f ++ g)[k] = IF k \in DOMAIN f THEN f[k] ELSE g[k]
  BY DEF ++

LEMMA EntryFacts ==
    \A key, value : DOMAIN Entry(key, value) = {key} /\ Entry(key, value)[key] = value
  BY DEF Entry

LEMMA RestrictFacts ==
    \A f, S : /\ DOMAIN RestrictTo(f, S) = DOMAIN f \cap S
              /\ \A k \in DOMAIN f \cap S : RestrictTo(f, S)[k] = f[k]
  BY DEF RestrictTo

LEMMA RestrictEqual ==
    \A f, g, S, T :
        RestrictTo(f, S) = RestrictTo(g, T) <=>
            /\ DOMAIN f \cap S = DOMAIN g \cap T
            /\ \A k \in DOMAIN f \cap S : f[k] = g[k]
<1> SUFFICES ASSUME NEW f, NEW g, NEW S, NEW T
             PROVE  RestrictTo(f, S) = RestrictTo(g, T) <=>
                        /\ DOMAIN f \cap S = DOMAIN g \cap T
                        /\ \A k \in DOMAIN f \cap S : f[k] = g[k]
  OBVIOUS
<1>1. ASSUME RestrictTo(f, S) = RestrictTo(g, T)
      PROVE  DOMAIN f \cap S = DOMAIN g \cap T /\ \A k \in DOMAIN f \cap S : f[k] = g[k]
  <2>1. DOMAIN f \cap S = DOMAIN g \cap T
    BY <1>1, RestrictFacts
  <2>2. ASSUME NEW k \in DOMAIN f \cap S
        PROVE  f[k] = g[k]
    BY <1>1, <2>1, RestrictFacts
  <2> QED
    BY <2>1, <2>2
<1>2. ASSUME DOMAIN f \cap S = DOMAIN g \cap T, \A k \in DOMAIN f \cap S : f[k] = g[k]
      PROVE  RestrictTo(f, S) = RestrictTo(g, T)
  BY <1>2 DEF RestrictTo
<1> QED
  BY <1>1, <1>2

\* A function over the empty document is no document of a policy.
LEMMA NoPolicyIsEmpty == DOMAIN NoPolicy = {}
  BY DEF NoPolicy

-----------------------------------------------------------------------------
(* What the files amount to.                                               *)

Profile(m) == IF "profile" \in DOMAIN m THEN m["profile"] ELSE "balanced"

Fallback(p) == for_profile(p)
    ++ [enabled |-> TRUE, ml |-> FALSE, rules |-> <<>>, exact |-> {}, exact_ci |-> {}]

ProfileKeys == {"profile", "threshold", "categories", "operator"}

LEMMA ForProfile ==
    \A p : /\ DOMAIN for_profile(p) = ProfileKeys
           /\ for_profile(p)["profile"] = p
           /\ for_profile(p)["threshold"] = default_threshold(p)
           /\ for_profile(p)["categories"] = default_categories(p)
           /\ for_profile(p)["operator"] = "token"
  BY DEF for_profile, ProfileKeys

LEMMA FallbackFacts ==
    \A p : /\ DOMAIN Fallback(p) = EngineKeys
           /\ \A k \in ProfileKeys : Fallback(p)[k] = for_profile(p)[k]
           /\ \A k \in EngineKeys \ ProfileKeys : \A q : Fallback(p)[k] = Fallback(q)[k]
           /\ Fallback(p)["operator"] = "token"
<1> SUFFICES ASSUME NEW p
             PROVE  /\ DOMAIN Fallback(p) = EngineKeys
                    /\ \A k \in ProfileKeys : Fallback(p)[k] = for_profile(p)[k]
                    /\ \A k \in EngineKeys \ ProfileKeys : \A q : Fallback(p)[k] = Fallback(q)[k]
                    /\ Fallback(p)["operator"] = "token"
  OBVIOUS
<1> DEFINE rest == [enabled |-> TRUE, ml |-> FALSE, rules |-> <<>>, exact |-> {}, exact_ci |-> {}]
<1>1. DOMAIN rest = EngineKeys \ ProfileKeys
  BY DEF EngineKeys, ProfileKeys
<1> HIDE DEF rest
<1>2. \A q : Fallback(q) = for_profile(q) ++ rest
  BY DEF Fallback, rest
<1>3. ProfileKeys \subseteq EngineKeys /\ "operator" \in ProfileKeys
  BY DEF ProfileKeys, EngineKeys
<1>4. \A q : DOMAIN Fallback(q) = EngineKeys
  BY <1>1, <1>2, <1>3, ForProfile, OverDomain
<1>5. \A q : \A k \in EngineKeys :
          Fallback(q)[k] = IF k \in ProfileKeys THEN for_profile(q)[k] ELSE rest[k]
  BY <1>1, <1>2, <1>3, ForProfile, OverDomain, OverValue
<1> QED
  BY <1>3, <1>4, <1>5, ForProfile

\* Every key is the document's, or the one its profile implies.
LEMMA DeserializeFacts ==
    \A m : /\ DOMAIN Deserialize(m) = EngineKeys \cup (DOMAIN m \cap Entities)
           /\ \A k \in EngineKeys \cup (DOMAIN m \cap Entities) :
                  Deserialize(m)[k] = IF k \in DOMAIN m THEN m[k] ELSE Fallback(Profile(m))[k]
<1> SUFFICES ASSUME NEW m
             PROVE  /\ DOMAIN Deserialize(m) = EngineKeys \cup (DOMAIN m \cap Entities)
                    /\ \A k \in EngineKeys \cup (DOMAIN m \cap Entities) :
                           Deserialize(m)[k] = IF k \in DOMAIN m THEN m[k] ELSE Fallback(Profile(m))[k]
  OBVIOUS
<1> DEFINE own  == RestrictTo(m, EngineKeys \cup Entities)
           rest == [enabled |-> TRUE, ml |-> FALSE, rules |-> <<>>, exact |-> {}, exact_ci |-> {}]
<1>1. Deserialize(m) = own ++ for_profile(Profile(m)) ++ rest
  BY DEF Deserialize, Profile
<1>2. Fallback(Profile(m)) = for_profile(Profile(m)) ++ rest
  BY DEF Fallback
<1> HIDE DEF rest
<1>3. DOMAIN own = DOMAIN m \cap (EngineKeys \cup Entities)
      /\ \A k \in DOMAIN own : own[k] = m[k]
  BY RestrictFacts
<1> HIDE DEF own
<1>4. DOMAIN for_profile(Profile(m)) \cup DOMAIN rest = EngineKeys
  <2>1. DOMAIN (for_profile(Profile(m)) ++ rest) = DOMAIN for_profile(Profile(m)) \cup DOMAIN rest
    BY OverDomain, Zenon
  <2> QED
    BY <2>1, <1>2, FallbackFacts
<1>5. DOMAIN Deserialize(m) = EngineKeys \cup (DOMAIN m \cap Entities)
  <2>1. DOMAIN (own ++ for_profile(Profile(m)) ++ rest)
            = (DOMAIN own \cup DOMAIN for_profile(Profile(m))) \cup DOMAIN rest
    BY DEF ++
  <2> QED
    BY <2>1, <1>1, <1>3, <1>4
<1>6. ASSUME NEW k \in EngineKeys \cup (DOMAIN m \cap Entities)
      PROVE  Deserialize(m)[k] = IF k \in DOMAIN m THEN m[k] ELSE Fallback(Profile(m))[k]
  <2> DEFINE inner == own ++ for_profile(Profile(m))
  <2>1. DOMAIN inner = DOMAIN own \cup DOMAIN for_profile(Profile(m))
    BY OverDomain
  <2>2. \A x \in DOMAIN inner :
            inner[x] = IF x \in DOMAIN own THEN own[x] ELSE for_profile(Profile(m))[x]
    BY <2>1, OverValue
  <2>3. k \in DOMAIN inner \cup DOMAIN rest
    BY <1>3, <1>4, <2>1
  <2>4. Deserialize(m)[k] = IF k \in DOMAIN inner THEN inner[k] ELSE rest[k]
    BY <1>1, <2>3, OverValue
  <2> HIDE DEF inner
  <2>5. CASE k \in DOMAIN m
    BY <1>3, <2>1, <2>2, <2>4, <2>5
  <2>6. CASE k \notin DOMAIN m
    <3>1. k \in EngineKeys /\ k \notin DOMAIN own
      BY <1>3, <2>6
    <3>2. Fallback(Profile(m))[k] = IF k \in DOMAIN for_profile(Profile(m))
                                    THEN for_profile(Profile(m))[k] ELSE rest[k]
      BY <1>2, <1>4, <3>1, OverValue
    <3> QED
      BY <2>1, <2>2, <2>4, <2>6, <3>1, <3>2
  <2> QED
    BY <2>5, <2>6
<1> QED
  BY <1>5, <1>6

\* The layers, later ones first.
LEMMA MergedFacts ==
    \A fs : /\ DOMAIN merged_value(fs)
                   = DOMAIN fs["local"].doc \cup DOMAIN fs["project"].doc \cup DOMAIN fs["user"].doc
            /\ \A k \in DOMAIN merged_value(fs) :
                   merged_value(fs)[k] = IF k \in DOMAIN fs["local"].doc THEN fs["local"].doc[k]
                                         ELSE IF k \in DOMAIN fs["project"].doc
                                         THEN fs["project"].doc[k] ELSE fs["user"].doc[k]
<1> SUFFICES ASSUME NEW fs
             PROVE  /\ DOMAIN merged_value(fs)
                         = DOMAIN fs["local"].doc \cup DOMAIN fs["project"].doc \cup DOMAIN fs["user"].doc
                    /\ \A k \in DOMAIN merged_value(fs) :
                         merged_value(fs)[k] = IF k \in DOMAIN fs["local"].doc THEN fs["local"].doc[k]
                                               ELSE IF k \in DOMAIN fs["project"].doc
                                               THEN fs["project"].doc[k] ELSE fs["user"].doc[k]
  OBVIOUS
<1> DEFINE upper == fs["local"].doc ++ fs["project"].doc
<1>1. merged_value(fs) = upper ++ fs["user"].doc
  BY DEF merged_value
<1>2. DOMAIN upper = DOMAIN fs["local"].doc \cup DOMAIN fs["project"].doc
      /\ \A k \in DOMAIN upper : upper[k] = IF k \in DOMAIN fs["local"].doc
                                            THEN fs["local"].doc[k] ELSE fs["project"].doc[k]
  BY DEF ++
<1> HIDE DEF upper
<1>3. DOMAIN merged_value(fs) = DOMAIN upper \cup DOMAIN fs["user"].doc
      /\ \A k \in DOMAIN merged_value(fs) : merged_value(fs)[k]
             = IF k \in DOMAIN upper THEN upper[k] ELSE fs["user"].doc[k]
  BY <1>1 DEF ++
<1> QED
  BY <1>2, <1>3

LEMMA LoadFacts ==
    \A fs : /\ load(fs) = NoPolicy \/ load(fs) = Deserialize(merged_value(fs))
            /\ load(fs) # NoPolicy <=>
                   Loadable(fs) /\ AcceptedByPolicy(Deserialize(merged_value(fs)))
            /\ load(fs) # NoPolicy => /\ EngineKeys \subseteq DOMAIN load(fs)
                                      /\ DOMAIN load(fs) \cap Entities \subseteq DOMAIN merged_value(fs)
<1> SUFFICES ASSUME NEW fs
             PROVE  /\ load(fs) = NoPolicy \/ load(fs) = Deserialize(merged_value(fs))
                    /\ load(fs) # NoPolicy <=>
                           Loadable(fs) /\ AcceptedByPolicy(Deserialize(merged_value(fs)))
                    /\ load(fs) # NoPolicy =>
                           /\ EngineKeys \subseteq DOMAIN load(fs)
                           /\ DOMAIN load(fs) \cap Entities \subseteq DOMAIN merged_value(fs)
  OBVIOUS
<1>1. DOMAIN Deserialize(merged_value(fs)) = EngineKeys \cup (DOMAIN merged_value(fs) \cap Entities)
  BY DeserializeFacts
<1>2. EngineKeys # {} /\ EngineKeys \cap Entities = {}
  BY SpellingAssumption DEF EngineKeys
<1>3. Deserialize(merged_value(fs)) # NoPolicy
  BY <1>1, <1>2, NoPolicyIsEmpty
<1> QED
  BY <1>1, <1>2, <1>3 DEF load
-----------------------------------------------------------------------------
(* The state.                                                              *)

\* The steps a command may have left.
Left(r, t) ==
    \/ t = <<>>
    \/ r.set = "profile" /\ t \in {<<"route">>, <<"profile">>}
    \/ r.scope \in Layers /\
       \/ r.set = "profile" /\ t \in {<<"read", "write">>, <<"write">>}
       \/ r.set = "categories" /\ t = <<"base", "read", "write", "reload">>
       \/ /\ r.set \in {"categories", "threshold", "entity"}
          /\ t \in {<<"read", "write", "reload">>, <<"write", "reload">>, <<"reload">>}
       \/ /\ r.set = "enabled"
          /\ t \in {<<"read", "write", "enabled">>, <<"write", "enabled">>, <<"enabled">>}
       \/ /\ r.set = "ml" /\ r.value = FALSE
          /\ t \in {<<"read", "write", "ml">>, <<"write", "ml">>, <<"ml">>}
       \/ /\ r.set = "ml" /\ r.value = TRUE
          /\ t \in {<<"read", "write", "reload", "ml">>, <<"write", "reload", "ml">>,
                    <<"reload", "ml">>, <<"ml">>}
    \/ r.scope = "session" /\
       \/ r.set = "enabled" /\ t = <<"enabled">>
       \/ r.set = "ml" /\ t = <<"ml">>
       \/ r.set = "entity" /\ t \in {<<"refuse">>, <<"patch">>}
       \/ r.set = "categories" /\ t = <<"base", "fetch", "put">>
       \/ r.set \in {"categories", "threshold"} /\ t \in {<<"fetch", "put">>, <<"put">>}

LEMMA TupleFacts ==
    \A a, b, d, e :
        /\ Head(<<a>>) = a /\ Tail(<<a>>) = <<>> /\ Len(<<a>>) = 1 /\ <<a>> # <<>>
        /\ Head(<<a, b>>) = a /\ Tail(<<a, b>>) = <<b>> /\ Len(<<a, b>>) = 2 /\ <<a, b>> # <<>>
        /\ Head(<<a, b, d>>) = a /\ Tail(<<a, b, d>>) = <<b, d>> /\ Len(<<a, b, d>>) = 3
        /\ <<a, b, d>> # <<>>
        /\ Head(<<a, b, d, e>>) = a /\ Tail(<<a, b, d, e>>) = <<b, d, e>>
        /\ Len(<<a, b, d, e>>) = 4 /\ <<a, b, d, e>> # <<>>
  OBVIOUS

LEMMA Concatenation ==
    ASSUME NEW S, NEW s \in Seq(S), NEW t \in Seq(S), NEW u \in Seq(S),
           Len(u) = Len(s) + Len(t),
           \A i \in 1..Len(s) : u[i] = s[i],
           \A i \in 1..Len(t) : u[Len(s) + i] = t[i]
    PROVE  s \o t = u
<1>1. s \o t \in Seq(S) /\ Len(s \o t) = Len(s) + Len(t)
  BY ConcatProperties
<1>2. ASSUME NEW i \in 1..Len(u)
      PROVE  (s \o t)[i] = u[i]
  <2>1. CASE i <= Len(s)
    BY <2>1, ConcatProperties
  <2>2. CASE i > Len(s)
    <3>1. i - Len(s) \in 1..Len(t) /\ Len(s) + (i - Len(s)) = i
      BY <2>2
    <3>2. (s \o t)[i] = t[i - Len(s)]
      BY <2>2
    <3>3. u[Len(s) + (i - Len(s))] = t[i - Len(s)]
      BY <3>1
    <3> QED
      BY <3>1, <3>2, <3>3
  <2> QED
    BY <2>1, <2>2
<1> QED
  BY <1>1, <1>2, SeqEqual

LEMMA Concat21 ==
    \A a, b, d : <<a, b>> \o <<d>> = <<a, b, d>>
<1> TAKE a, b, d
<1> DEFINE S == {a, b, d}
           s == <<a, b>>
           t == <<d>>
           u == <<a, b, d>>
<1>1. s \in Seq(S) /\ t \in Seq(S) /\ u \in Seq(S)
  OBVIOUS
<1>2. Len(u) = Len(s) + Len(t)
  OBVIOUS
<1>3. \A i \in 1..Len(s) : u[i] = s[i]
  OBVIOUS
<1>4. \A i \in 1..Len(t) : u[Len(s) + i] = t[i]
  OBVIOUS
<1>5. s \o t = u
  <2> HIDE DEF S, s, t, u
  <2> QED
    BY <1>1, <1>2, <1>3, <1>4, Concatenation
<1> QED
  BY <1>5

LEMMA Concat22 ==
    \A a, b, d, e : <<a, b>> \o <<d, e>> = <<a, b, d, e>>
<1> TAKE a, b, d, e
<1> DEFINE S == {a, b, d, e}
           s == <<a, b>>
           t == <<d, e>>
           u == <<a, b, d, e>>
<1>1. s \in Seq(S) /\ t \in Seq(S) /\ u \in Seq(S)
  OBVIOUS
<1>2. Len(u) = Len(s) + Len(t)
  OBVIOUS
<1>3. \A i \in 1..Len(s) : u[i] = s[i]
  OBVIOUS
<1>4. \A i \in 1..Len(t) : u[Len(s) + i] = t[i]
  OBVIOUS
<1>5. s \o t = u
  <2> HIDE DEF S, s, t, u
  <2> QED
    BY <1>1, <1>2, <1>3, <1>4, Concatenation
<1> QED
  BY <1>5

LEMMA Concat12 ==
    \A a, b, d : <<a>> \o <<b, d>> = <<a, b, d>>
<1> TAKE a, b, d
<1> DEFINE S == {a, b, d}
           s == <<a>>
           t == <<b, d>>
           u == <<a, b, d>>
<1>1. s \in Seq(S) /\ t \in Seq(S) /\ u \in Seq(S)
  OBVIOUS
<1>2. Len(u) = Len(s) + Len(t)
  OBVIOUS
<1>3. \A i \in 1..Len(s) : u[i] = s[i]
  OBVIOUS
<1>4. \A i \in 1..Len(t) : u[Len(s) + i] = t[i]
  OBVIOUS
<1>5. s \o t = u
  <2> HIDE DEF S, s, t, u
  <2> QED
    BY <1>1, <1>2, <1>3, <1>4, Concatenation
<1> QED
  BY <1>5

LEMMA Concat31 ==
    \A a, b, d, e : <<a, b, d>> \o <<e>> = <<a, b, d, e>>
<1> TAKE a, b, d, e
<1> DEFINE S == {a, b, d, e}
           s == <<a, b, d>>
           t == <<e>>
           u == <<a, b, d, e>>
<1>1. s \in Seq(S) /\ t \in Seq(S) /\ u \in Seq(S)
  OBVIOUS
<1>2. Len(u) = Len(s) + Len(t)
  OBVIOUS
<1>3. \A i \in 1..Len(s) : u[i] = s[i]
  OBVIOUS
<1>4. \A i \in 1..Len(t) : u[Len(s) + i] = t[i]
  OBVIOUS
<1>5. s \o t = u
  <2> HIDE DEF S, s, t, u
  <2> QED
    BY <1>1, <1>2, <1>3, <1>4, Concatenation
<1> QED
  BY <1>5

LEMMA EmptyConcat ==
    /\ <<>> \o <<"read", "write">> = <<"read", "write">>
    /\ <<>> \o <<"fetch", "put">> = <<"fetch", "put">>
  OBVIOUS

LEMMA FirstSteps ==
    \A r \in Requests :
        /\ Left(r, Steps(r)) /\ Steps(r) # <<>>
        /\ Head(Steps(r)) \notin {"put", "write", "reload"}
        /\ r.set # "profile" /\ r.scope \in Layers => Head(Steps(r)) \in {"base", "read"}
        /\ r.set = "profile" => Head(Steps(r)) = "route"
        /\ r.set = "categories" => Head(Steps(r)) = "base"
        /\ Head(Steps(r)) = "patch" => ~Clears(r)
<1> SUFFICES ASSUME NEW r \in Requests
             PROVE  /\ Left(r, Steps(r)) /\ Steps(r) # <<>>
                    /\ Head(Steps(r)) \notin {"put", "write", "reload"}
                    /\ r.set # "profile" /\ r.scope \in Layers =>
                           Head(Steps(r)) \in {"base", "read"}
                    /\ r.set = "profile" => Head(Steps(r)) = "route"
                    /\ r.set = "categories" => Head(Steps(r)) = "base"
                    /\ Head(Steps(r)) = "patch" => ~Clears(r)
  OBVIOUS
<1> USE RequestAssumption
<1>0. "session" \notin Layers
  BY DEF Layers
<1>1. CASE r.set = "profile"
  <2>1. Steps(r) = <<"route">>
    BY <1>1 DEF Steps
  <2> QED
    BY <1>1, <2>1, TupleFacts DEF Left, Clears
<1>2. CASE r.set = "categories"
  <2>1. /\ <<"base">> \o <<"read", "write">> = <<"base", "read", "write">>
        /\ <<"base", "read", "write">> \o <<"reload">> = <<"base", "read", "write", "reload">>
        /\ <<"base">> \o <<"fetch", "put">> = <<"base", "fetch", "put">>
    BY Concat12, Concat31
  <2>2. Steps(r) = IF r.scope # "session" THEN <<"base", "read", "write", "reload">>
                   ELSE <<"base", "fetch", "put">>
    BY <1>2, <2>1 DEF Steps, Post
  <2>3. Head(Steps(r)) = "base" /\ Steps(r) # <<>>
    BY <2>2, TupleFacts
  <2> QED
    BY <1>2, <2>2, <2>3 DEF Left, Layers
<1>3. CASE r.set \in {"threshold", "entity"}
  <2>1. <<"read", "write">> \o <<"reload">> = <<"read", "write", "reload">>
    BY Concat21
  <2>2. Steps(r) = IF r.scope # "session" THEN <<"read", "write", "reload">>
                   ELSE IF r.set = "threshold" THEN <<"fetch", "put">>
                   ELSE IF r.value[2] = "clear" THEN <<"refuse">> ELSE <<"patch">>
    BY <1>3, <2>1, EmptyConcat DEF Steps, Post
  <2>3. /\ Head(Steps(r)) \in {"read", "fetch", "refuse", "patch"} /\ Steps(r) # <<>>
        /\ r.scope # "session" => Head(Steps(r)) = "read"
        /\ Head(Steps(r)) = "patch" => ~Clears(r)
    BY <1>3, <2>2, TupleFacts DEF Clears
  <2>4. Left(r, Steps(r))
    BY <1>3, <2>2 DEF Left, Layers
  <2> QED
    BY <1>0, <1>3, <2>3, <2>4
<1>4. CASE r.set = "enabled"
  <2>1. <<"read", "write">> \o <<"enabled">> = <<"read", "write", "enabled">>
    BY Concat21
  <2>2. Steps(r) = IF r.scope # "session" THEN <<"read", "write", "enabled">> ELSE <<"enabled">>
    BY <1>4, <2>1, EmptyConcat DEF Steps, Post
  <2>3. /\ Head(Steps(r)) \in {"read", "enabled"} /\ Steps(r) # <<>>
        /\ r.scope # "session" => Head(Steps(r)) = "read"
    BY <2>2, TupleFacts
  <2> QED
    BY <1>4, <2>2, <2>3 DEF Left, Layers
<1>5. CASE r.set = "ml"
  <2>1. /\ <<"read", "write">> \o <<"ml">> = <<"read", "write", "ml">>
        /\ <<"read", "write">> \o <<"reload", "ml">> = <<"read", "write", "reload", "ml">>
    BY Concat21, Concat22
  <2>2. Steps(r) = IF r.scope = "session" THEN <<"ml">>
                   ELSE IF r.value THEN <<"read", "write", "reload", "ml">>
                   ELSE <<"read", "write", "ml">>
    BY <1>5, <2>1, EmptyConcat DEF Steps, Post
  <2>3. /\ Head(Steps(r)) \in {"read", "ml"} /\ Steps(r) # <<>>
        /\ r.scope # "session" => Head(Steps(r)) = "read"
    BY <2>2, TupleFacts
  <2>4. r.value \in BOOLEAN
    BY <1>5
  <2> QED
    BY <1>5, <2>2, <2>3, <2>4 DEF Left, Layers
<1> QED
  BY <1>1, <1>2, <1>3, <1>4, <1>5

\* What is left decides what a step can be about.
LEMMA LeftFacts ==
    ASSUME NEW r \in Requests, NEW t, Left(r, t), t # <<>>
    PROVE  /\ Left(r, Tail(t))
           /\ Head(t) = "route" => t = <<"route">> /\ r.set = "profile"
           /\ Head(t) = "profile" => t = <<"profile">> /\ r.set = "profile"
           /\ Head(t) = "base" =>
                  /\ r.set = "categories"
                  /\ \/ r.scope \in Layers /\ Tail(t) = <<"read", "write", "reload">>
                     \/ r.scope = "session" /\ Tail(t) = <<"fetch", "put">>
           /\ Head(t) = "read" => r.scope \in Layers
           /\ Head(t) = "write" =>
                  /\ r.scope \in Layers
                  /\ r.set = "profile" => t = <<"write">>
                  /\ r.set # "profile" => Tail(t) = Post(r) /\ Len(t) # 1
           /\ Head(t) = "reload" =>
                  /\ r.scope \in Layers
                  /\ \/ t = <<"reload">> /\ r.set \in {"categories", "threshold", "entity"}
                     \/ t = <<"reload", "ml">> /\ r.set = "ml" /\ r.value = TRUE
           /\ Head(t) = "enabled" => t = <<"enabled">> /\ r.set = "enabled"
           /\ Head(t) = "ml" => t = <<"ml">> /\ r.set = "ml"
           /\ Head(t) = "refuse" => t = <<"refuse">>
           /\ Head(t) = "patch" => t = <<"patch">> /\ r.set = "entity" /\ r.scope = "session"
           /\ Head(t) = "fetch" => /\ t = <<"fetch", "put">> /\ r.scope = "session"
                                   /\ r.set \in {"categories", "threshold"}
           /\ Head(t) = "put" => /\ t = <<"put">> /\ r.scope = "session"
                                 /\ r.set \in {"categories", "threshold"}
<1> DEFINE Goal ==
            /\ Left(r, Tail(t))
            /\ Head(t) = "route" => t = <<"route">> /\ r.set = "profile"
            /\ Head(t) = "profile" => t = <<"profile">> /\ r.set = "profile"
            /\ Head(t) = "base" =>
                   /\ r.set = "categories"
                   /\ \/ r.scope \in Layers /\ Tail(t) = <<"read", "write", "reload">>
                      \/ r.scope = "session" /\ Tail(t) = <<"fetch", "put">>
            /\ Head(t) = "read" => r.scope \in Layers
            /\ Head(t) = "write" =>
                   /\ r.scope \in Layers
                   /\ r.set = "profile" => t = <<"write">>
                   /\ r.set # "profile" => Tail(t) = Post(r) /\ Len(t) # 1
            /\ Head(t) = "reload" =>
                   /\ r.scope \in Layers
                   /\ \/ t = <<"reload">> /\ r.set \in {"categories", "threshold", "entity"}
                      \/ t = <<"reload", "ml">> /\ r.set = "ml" /\ r.value = TRUE
            /\ Head(t) = "enabled" => t = <<"enabled">> /\ r.set = "enabled"
            /\ Head(t) = "ml" => t = <<"ml">> /\ r.set = "ml"
            /\ Head(t) = "refuse" => t = <<"refuse">>
            /\ Head(t) = "patch" => t = <<"patch">> /\ r.set = "entity" /\ r.scope = "session"
            /\ Head(t) = "fetch" => /\ t = <<"fetch", "put">> /\ r.scope = "session"
                                    /\ r.set \in {"categories", "threshold"}
            /\ Head(t) = "put" => /\ t = <<"put">> /\ r.scope = "session"
                                  /\ r.set \in {"categories", "threshold"}
<1> SUFFICES Goal
  OBVIOUS
<1> USE RequestAssumption
<1>0. "session" \notin Layers
  BY DEF Layers
<1>1. CASE t = <<"route">>
  <2>1. Head(t) = "route" /\ Tail(t) = <<>> /\ Len(t) = 1
    BY <1>1, TupleFacts
  <2> QED
    BY <1>0, <1>1, <2>1 DEF Left
<1>2. CASE t = <<"profile">>
  <2>1. Head(t) = "profile" /\ Tail(t) = <<>> /\ Len(t) = 1
    BY <1>2, TupleFacts
  <2> QED
    BY <1>0, <1>2, <2>1 DEF Left
<1>3. CASE t = <<"read", "write">>
  <2>1. Head(t) = "read" /\ Tail(t) = <<"write">> /\ Len(t) = 2
    BY <1>3, TupleFacts
  <2> QED
    BY <1>0, <1>3, <2>1 DEF Left
<1>4. CASE t = <<"write">>
  <2>1. Head(t) = "write" /\ Tail(t) = <<>> /\ Len(t) = 1
    BY <1>4, TupleFacts
  <2> QED
    BY <1>0, <1>4, <2>1 DEF Left, Post
<1>5. CASE t = <<"base", "read", "write", "reload">>
  <2>1. Head(t) = "base" /\ Tail(t) = <<"read", "write", "reload">> /\ Len(t) = 4
    BY <1>5, TupleFacts
  <2> QED
    BY <1>0, <1>5, <2>1 DEF Left
<1>6. CASE t = <<"read", "write", "reload">>
  <2>1. Head(t) = "read" /\ Tail(t) = <<"write", "reload">> /\ Len(t) = 3
    BY <1>6, TupleFacts
  <2> QED
    BY <1>0, <1>6, <2>1 DEF Left
<1>7. CASE t = <<"write", "reload">>
  <2>1. Head(t) = "write" /\ Tail(t) = <<"reload">> /\ Len(t) = 2
    BY <1>7, TupleFacts
  <2> QED
    BY <1>0, <1>7, <2>1 DEF Left, Post
<1>8. CASE t = <<"reload">>
  <2>1. Head(t) = "reload" /\ Tail(t) = <<>> /\ Len(t) = 1
    BY <1>8, TupleFacts
  <2> QED
    BY <1>0, <1>8, <2>1 DEF Left
<1>9. CASE t = <<"read", "write", "enabled">>
  <2>1. Head(t) = "read" /\ Tail(t) = <<"write", "enabled">> /\ Len(t) = 3
    BY <1>9, TupleFacts
  <2> QED
    BY <1>0, <1>9, <2>1 DEF Left
<1>10. CASE t = <<"write", "enabled">>
  <2>1. Head(t) = "write" /\ Tail(t) = <<"enabled">> /\ Len(t) = 2
    BY <1>10, TupleFacts
  <2> QED
    BY <1>0, <1>10, <2>1 DEF Left, Post
<1>11. CASE t = <<"enabled">>
  <2>1. Head(t) = "enabled" /\ Tail(t) = <<>> /\ Len(t) = 1
    BY <1>11, TupleFacts
  <2> QED
    BY <1>0, <1>11, <2>1 DEF Left
<1>12. CASE t = <<"read", "write", "ml">>
  <2>1. Head(t) = "read" /\ Tail(t) = <<"write", "ml">> /\ Len(t) = 3
    BY <1>12, TupleFacts
  <2> QED
    BY <1>0, <1>12, <2>1 DEF Left
<1>13. CASE t = <<"write", "ml">>
  <2>1. Head(t) = "write" /\ Tail(t) = <<"ml">> /\ Len(t) = 2
    BY <1>13, TupleFacts
  <2> QED
    BY <1>0, <1>13, <2>1 DEF Left, Post
<1>14. CASE t = <<"ml">>
  <2>1. Head(t) = "ml" /\ Tail(t) = <<>> /\ Len(t) = 1
    BY <1>14, TupleFacts
  <2> QED
    BY <1>0, <1>14, <2>1 DEF Left
<1>15. CASE t = <<"read", "write", "reload", "ml">>
  <2>1. Head(t) = "read" /\ Tail(t) = <<"write", "reload", "ml">> /\ Len(t) = 4
    BY <1>15, TupleFacts
  <2> QED
    BY <1>0, <1>15, <2>1 DEF Left
<1>16. CASE t = <<"write", "reload", "ml">>
  <2>1. Head(t) = "write" /\ Tail(t) = <<"reload", "ml">> /\ Len(t) = 3
    BY <1>16, TupleFacts
  <2> QED
    BY <1>0, <1>16, <2>1 DEF Left, Post
<1>17. CASE t = <<"reload", "ml">>
  <2>1. Head(t) = "reload" /\ Tail(t) = <<"ml">> /\ Len(t) = 2
    BY <1>17, TupleFacts
  <2> QED
    BY <1>0, <1>17, <2>1 DEF Left
<1>18. CASE t = <<"refuse">>
  <2>1. Head(t) = "refuse" /\ Tail(t) = <<>> /\ Len(t) = 1
    BY <1>18, TupleFacts
  <2> QED
    BY <1>0, <1>18, <2>1 DEF Left
<1>19. CASE t = <<"patch">>
  <2>1. Head(t) = "patch" /\ Tail(t) = <<>> /\ Len(t) = 1
    BY <1>19, TupleFacts
  <2> QED
    BY <1>0, <1>19, <2>1 DEF Left
<1>20. CASE t = <<"base", "fetch", "put">>
  <2>1. Head(t) = "base" /\ Tail(t) = <<"fetch", "put">> /\ Len(t) = 3
    BY <1>20, TupleFacts
  <2> QED
    BY <1>0, <1>20, <2>1 DEF Left
<1>21. CASE t = <<"fetch", "put">>
  <2>1. Head(t) = "fetch" /\ Tail(t) = <<"put">> /\ Len(t) = 2
    BY <1>21, TupleFacts
  <2> QED
    BY <1>0, <1>21, <2>1 DEF Left
<1>22. CASE t = <<"put">>
  <2>1. Head(t) = "put" /\ Tail(t) = <<>> /\ Len(t) = 1
    BY <1>22, TupleFacts
  <2> QED
    BY <1>0, <1>22, <2>1 DEF Left
<1> HIDE DEF Goal
<1> QED
  BY <1>1, <1>2, <1>3, <1>4, <1>5, <1>6, <1>7, <1>8,
     <1>9, <1>10, <1>11, <1>12, <1>13, <1>14, <1>15, <1>16,
     <1>17, <1>18, <1>19, <1>20, <1>21, <1>22 DEF Left

-----------------------------------------------------------------------------
(* What a step does to the commands.                                       *)

Fields == {"req", "port", "todo", "result", "base", "doc", "got", "expect", "alone"}

IsCommand(k) ==
    DOMAIN k = Fields /\ k.req \in Requests /\ k.alone \in BOOLEAN /\ Left(k.req, k.todo)

CmdsInv == DOMAIN cmd = Clis /\ \A c \in Clis : cmd[c] = NoCommand \/ IsCommand(cmd[c])

\* A step of c goes on with its command; the others are disturbed.
Acts(c) ==
    /\ DOMAIN cmd' = Clis
    /\ \A d \in Clis \ {c} : cmd'[d] = Disturb(c)[d]
    /\ IsCommand(cmd'[c])
    /\ cmd'[c].req = cmd[c].req
    /\ cmd'[c].expect = cmd[c].expect
    /\ cmd'[c].alone = cmd[c].alone

LEMMA NoCommandFacts ==
    DOMAIN NoCommand = {"todo", "result"} /\ NoCommand.todo = <<>> /\ NoCommand.result = "none"
  BY DEF NoCommand

LEMMA DisturbFacts ==
    ASSUME CmdsInv, NEW c
    PROVE  /\ DOMAIN Disturb(c) = Clis
           /\ \A d \in Clis :
                  /\ d = c \/ cmd[d] = NoCommand => Disturb(c)[d] = cmd[d]
                  /\ d # c /\ cmd[d] # NoCommand =>
                         /\ IsCommand(Disturb(c)[d])
                         /\ Disturb(c)[d].todo = cmd[d].todo /\ Disturb(c)[d].req = cmd[d].req
                         /\ Disturb(c)[d].result = cmd[d].result /\ Disturb(c)[d].port = cmd[d].port
                         /\ Disturb(c)[d].base = cmd[d].base /\ Disturb(c)[d].doc = cmd[d].doc
                         /\ Disturb(c)[d].got = cmd[d].got
                         /\ Disturb(c)[d].expect = {} /\ Disturb(c)[d].alone = FALSE
<1>1. DOMAIN Disturb(c) = Clis
      /\ \A d \in Clis : d = c \/ cmd[d] = NoCommand => Disturb(c)[d] = cmd[d]
  BY DEF Disturb
<1>2. ASSUME NEW d \in Clis, d # c, cmd[d] # NoCommand
      PROVE  /\ IsCommand(Disturb(c)[d])
             /\ Disturb(c)[d].todo = cmd[d].todo /\ Disturb(c)[d].req = cmd[d].req
             /\ Disturb(c)[d].result = cmd[d].result /\ Disturb(c)[d].port = cmd[d].port
             /\ Disturb(c)[d].base = cmd[d].base /\ Disturb(c)[d].doc = cmd[d].doc
             /\ Disturb(c)[d].got = cmd[d].got
             /\ Disturb(c)[d].expect = {} /\ Disturb(c)[d].alone = FALSE
  <2>1. Disturb(c)[d] = [cmd[d] EXCEPT !.alone = FALSE, !.expect = {}]
    BY <1>2 DEF Disturb
  <2>2. DOMAIN cmd[d] = Fields /\ cmd[d].req \in Requests /\ Left(cmd[d].req, cmd[d].todo)
    BY <1>2 DEF CmdsInv, IsCommand
  <2>3. /\ DOMAIN Disturb(c)[d] = Fields
        /\ Disturb(c)[d].todo = cmd[d].todo /\ Disturb(c)[d].req = cmd[d].req
        /\ Disturb(c)[d].result = cmd[d].result /\ Disturb(c)[d].port = cmd[d].port
        /\ Disturb(c)[d].base = cmd[d].base /\ Disturb(c)[d].doc = cmd[d].doc
        /\ Disturb(c)[d].got = cmd[d].got
        /\ Disturb(c)[d].expect = {} /\ Disturb(c)[d].alone = FALSE
    BY <2>1, <2>2 DEF Fields
  <2> QED
    BY <2>2, <2>3 DEF IsCommand
<1> QED
  BY <1>1, <1>2

LEMMA AtFacts ==
    ASSUME CmdsInv, NEW c \in Clis, NEW s, At(c, s)
    PROVE  /\ cmd[c] # NoCommand /\ IsCommand(cmd[c])
           /\ cmd[c].todo # <<>> /\ Head(cmd[c].todo) = s
  BY NoCommandFacts DEF CmdsInv, At

LEMMA ContinueActs ==
    ASSUME CmdsInv, NEW c \in Clis, cmd[c] # NoCommand, cmd[c].todo # <<>>, cmd' = Continue(c)
    PROVE  /\ Acts(c)
           /\ cmd'[c].todo = Tail(cmd[c].todo) /\ cmd'[c].result = cmd[c].result
           /\ cmd'[c].port = cmd[c].port /\ cmd'[c].base = cmd[c].base
           /\ cmd'[c].doc = cmd[c].doc /\ cmd'[c].got = cmd[c].got
<1>1. IsCommand(cmd[c]) /\ DOMAIN cmd[c] = Fields
  BY DEF CmdsInv, IsCommand
<1>2. DOMAIN Disturb(c) = Clis /\ Disturb(c)[c] = cmd[c]
  BY DisturbFacts
<1>3. DOMAIN cmd' = Clis /\ \A d \in Clis \ {c} : cmd'[d] = Disturb(c)[d]
  BY <1>2 DEF Continue
<1>4. cmd'[c] = [cmd[c] EXCEPT !.todo = Tail(cmd[c].todo)]
  BY <1>2 DEF Continue
<1>5. /\ DOMAIN cmd'[c] = Fields
      /\ cmd'[c].todo = Tail(cmd[c].todo) /\ cmd'[c].result = cmd[c].result
      /\ cmd'[c].port = cmd[c].port /\ cmd'[c].base = cmd[c].base
      /\ cmd'[c].doc = cmd[c].doc /\ cmd'[c].got = cmd[c].got
      /\ cmd'[c].req = cmd[c].req /\ cmd'[c].alone = cmd[c].alone
      /\ cmd'[c].expect = cmd[c].expect
  BY <1>1, <1>4 DEF Fields
<1>6. Left(cmd[c].req, Tail(cmd[c].todo))
  BY <1>1, LeftFacts DEF IsCommand
<1> QED
  BY <1>1, <1>3, <1>5, <1>6 DEF Acts, IsCommand

LEMMA EndActs ==
    ASSUME CmdsInv, NEW c \in Clis, cmd[c] # NoCommand, NEW x, cmd' = End(c, x)
    PROVE  /\ Acts(c)
           /\ cmd'[c].todo = <<>> /\ cmd'[c].result = x
           /\ cmd'[c].doc = <<>> /\ cmd'[c].got = NoPolicy
<1>1. IsCommand(cmd[c]) /\ DOMAIN cmd[c] = Fields
  BY DEF CmdsInv, IsCommand
<1>2. DOMAIN Disturb(c) = Clis /\ Disturb(c)[c] = cmd[c]
  BY DisturbFacts
<1>3. DOMAIN cmd' = Clis /\ \A d \in Clis \ {c} : cmd'[d] = Disturb(c)[d]
  BY <1>2 DEF End
<1>4. /\ DOMAIN cmd'[c] = Fields
      /\ cmd'[c].todo = <<>> /\ cmd'[c].result = x
      /\ cmd'[c].doc = <<>> /\ cmd'[c].got = NoPolicy
      /\ cmd'[c].req = cmd[c].req /\ cmd'[c].alone = cmd[c].alone
      /\ cmd'[c].expect = cmd[c].expect
  BY <1>1, <1>2 DEF Fields, End
<1>5. Left(cmd[c].req, <<>>)
  BY DEF Left
<1> QED
  BY <1>1, <1>3, <1>4, <1>5 DEF Acts, IsCommand

LEMMA ContinueWith ==
    ASSUME CmdsInv, NEW c \in Clis, cmd[c] # NoCommand, cmd[c].todo # <<>>,
           NEW f \in {"base", "doc", "got"}, NEW v,
           cmd' = [Continue(c) EXCEPT ![c] = [@ EXCEPT ![f] = v]]
    PROVE  /\ Acts(c)
           /\ cmd'[c].todo = Tail(cmd[c].todo) /\ cmd'[c].result = cmd[c].result
           /\ cmd'[c].port = cmd[c].port /\ cmd'[c][f] = v
           /\ \A g \in {"base", "doc", "got"} \ {f} : cmd'[c][g] = cmd[c][g]
<1>1. IsCommand(cmd[c]) /\ DOMAIN cmd[c] = Fields
  BY DEF CmdsInv, IsCommand
<1>2. DOMAIN Disturb(c) = Clis /\ Disturb(c)[c] = cmd[c]
  BY DisturbFacts
<1>3. DOMAIN Continue(c) = Clis /\ \A d \in Clis \ {c} : Continue(c)[d] = Disturb(c)[d]
  BY <1>2 DEF Continue
<1>4. Continue(c)[c] = [cmd[c] EXCEPT !.todo = Tail(cmd[c].todo)]
  BY <1>2 DEF Continue
<1>5. DOMAIN cmd' = Clis /\ \A d \in Clis \ {c} : cmd'[d] = Disturb(c)[d]
  BY <1>3
<1>6. cmd'[c] = [Continue(c)[c] EXCEPT ![f] = v]
  BY <1>3
<1>7. /\ DOMAIN Continue(c)[c] = Fields
      /\ Continue(c)[c].todo = Tail(cmd[c].todo)
      /\ \A g \in Fields \ {"todo"} : Continue(c)[c][g] = cmd[c][g]
  BY <1>1, <1>4 DEF Fields
<1>8. /\ DOMAIN cmd'[c] = Fields /\ cmd'[c][f] = v
      /\ cmd'[c].todo = Tail(cmd[c].todo)
      /\ \A g \in Fields \ {"todo", f} : cmd'[c][g] = cmd[c][g]
  BY <1>6, <1>7 DEF Fields
<1>9. Left(cmd[c].req, Tail(cmd[c].todo))
  BY <1>1, LeftFacts DEF IsCommand
<1>10. /\ cmd'[c].req = cmd[c].req /\ cmd'[c].alone = cmd[c].alone
       /\ cmd'[c].expect = cmd[c].expect /\ cmd'[c].result = cmd[c].result
       /\ cmd'[c].port = cmd[c].port
       /\ \A g \in {"base", "doc", "got"} \ {f} : cmd'[c][g] = cmd[c][g]
  BY <1>8 DEF Fields
<1> QED
  BY <1>1, <1>5, <1>8, <1>9, <1>10 DEF Acts, IsCommand

LEMMA RouteActs ==
    ASSUME CmdsInv, NEW c \in Clis, cmd[c] # NoCommand, NEW t, Left(cmd[c].req, t),
           cmd' = [Disturb(c) EXCEPT ![c].todo = t]
    PROVE  /\ Acts(c)
           /\ cmd'[c].todo = t /\ cmd'[c].result = cmd[c].result
           /\ cmd'[c].port = cmd[c].port /\ cmd'[c].base = cmd[c].base
           /\ cmd'[c].doc = cmd[c].doc /\ cmd'[c].got = cmd[c].got
<1>1. IsCommand(cmd[c]) /\ DOMAIN cmd[c] = Fields
  BY DEF CmdsInv, IsCommand
<1>2. DOMAIN Disturb(c) = Clis /\ Disturb(c)[c] = cmd[c]
  BY DisturbFacts
<1>3. DOMAIN cmd' = Clis /\ \A d \in Clis \ {c} : cmd'[d] = Disturb(c)[d]
  BY <1>2
<1>4. /\ DOMAIN cmd'[c] = Fields
      /\ cmd'[c].todo = t /\ cmd'[c].result = cmd[c].result
      /\ cmd'[c].port = cmd[c].port /\ cmd'[c].base = cmd[c].base
      /\ cmd'[c].doc = cmd[c].doc /\ cmd'[c].got = cmd[c].got
      /\ cmd'[c].req = cmd[c].req /\ cmd'[c].alone = cmd[c].alone
      /\ cmd'[c].expect = cmd[c].expect
  BY <1>1, <1>2 DEF Fields
<1> QED
  BY <1>1, <1>3, <1>4 DEF Acts, IsCommand

LEMMA HoldActs ==
    ASSUME CmdsInv, NEW c \in Clis, cmd[c] # NoCommand, cmd' = Disturb(c)
    PROVE  Acts(c) /\ cmd'[c] = cmd[c]
  BY DisturbFacts DEF CmdsInv, Acts

LEMMA AnsweredActs ==
    ASSUME CmdsInv, NEW c \in Clis, cmd[c] # NoCommand, cmd[c].todo # <<>>, cmd' = Answered(c)
    PROVE  /\ Acts(c)
           /\ Len(cmd[c].todo) = 1 =>
                  /\ cmd'[c].todo = <<>>
                  /\ cmd'[c].result = IF cmd[c].req.scope = "session" THEN "session" ELSE "applied"
                  /\ cmd'[c].doc = <<>> /\ cmd'[c].got = NoPolicy
           /\ Len(cmd[c].todo) # 1 =>
                  /\ cmd'[c].todo = Tail(cmd[c].todo) /\ cmd'[c].result = cmd[c].result
                  /\ cmd'[c].port = cmd[c].port /\ cmd'[c].base = cmd[c].base
                  /\ cmd'[c].doc = cmd[c].doc /\ cmd'[c].got = cmd[c].got
<1>1. CASE Len(cmd[c].todo) = 1
  BY <1>1, EndActs DEF Answered
<1>2. CASE Len(cmd[c].todo) # 1
  BY <1>2, ContinueActs DEF Answered
<1> QED
  BY <1>1, <1>2

LEMMA UnansweredActs ==
    ASSUME CmdsInv, NEW c \in Clis, cmd[c] # NoCommand, cmd[c].todo # <<>>, cmd' = Unanswered(c)
    PROVE  /\ Acts(c)
           /\ \/ cmd'[c].todo = <<>> /\ cmd'[c].result \in {"failed", "saved"}
                 /\ (cmd'[c].result = "saved" => cmd[c].req.scope # "session")
                 /\ cmd'[c].doc = <<>> /\ cmd'[c].got = NoPolicy
              \/ /\ At(c, "reload") /\ Len(cmd[c].todo) = 2
                 /\ cmd'[c].todo = Tail(cmd[c].todo) /\ cmd'[c].result = cmd[c].result
                 /\ cmd'[c].port = cmd[c].port /\ cmd'[c].base = cmd[c].base
                 /\ cmd'[c].doc = cmd[c].doc /\ cmd'[c].got = cmd[c].got
<1>1. CASE cmd[c].req.set = "profile" \/ cmd[c].req.scope = "session"
  BY <1>1, EndActs DEF Unanswered
<1>2. CASE /\ ~(cmd[c].req.set = "profile" \/ cmd[c].req.scope = "session")
           /\ At(c, "reload") /\ Len(cmd[c].todo) = 2
  BY <1>2, ContinueActs DEF Unanswered
<1>3. CASE /\ ~(cmd[c].req.set = "profile" \/ cmd[c].req.scope = "session")
           /\ ~(At(c, "reload") /\ Len(cmd[c].todo) = 2)
  BY <1>3, EndActs DEF Unanswered
<1> QED
  BY <1>1, <1>2, <1>3

\* Every step of a command that has begun and has not reported is of this kind.
LEMMA StepActs ==
    ASSUME CmdsInv, NEW c \in Clis, Step(c), cmd[c] # NoCommand, cmd[c].todo # <<>>
    PROVE  Acts(c)
<1>0. IsCommand(cmd[c])
  BY DEF CmdsInv
<1>1. CASE \E r \in Requests : Begin(c, r)
  BY <1>1 DEF Begin
<1>2. CASE Refuse(c)
  BY <1>2, EndActs DEF Refuse
<1>3. CASE Base(c)
  <2>1. cmd' = [Continue(c) EXCEPT ![c] = [@ EXCEPT !["base"] =
            IF Reachable(c) THEN live["categories"] ELSE categories_from_files(files)]]
    BY <1>3 DEF Base
  <2> QED
    BY <2>1, ContinueWith
<1>4. CASE ReadFile(c)
  <2>1. cmd' = [Continue(c) EXCEPT ![c] = [@ EXCEPT !["doc"] =
            parse_or_new(files[cmd[c].req.scope])]]
    BY <1>4 DEF ReadFile
  <2> QED
    BY <2>1, ContinueWith
<1>5. CASE WriteFile(c)
  <2>1. CASE Len(cmd[c].todo) = 1
    BY <1>5, <2>1, EndActs DEF WriteFile
  <2>2. CASE Len(cmd[c].todo) # 1
    <3>1. cmd' = [Continue(c) EXCEPT ![c] = [@ EXCEPT !["doc"] = <<>>]]
      BY <1>5, <2>2 DEF WriteFile
    <3> QED
      BY <3>1, ContinueWith
  <2> QED
    BY <2>1, <2>2
<1>6. CASE Route(c)
  <2>0. cmd[c].req \in Requests /\ cmd[c].req.set = "profile"
    BY <1>0, <1>6, LeftFacts DEF Route, At, IsCommand
  <2>1. CASE live # NoPolicy
    <3>1. Left(cmd[c].req, <<"profile">>)
      BY <2>0 DEF Left
    <3>2. cmd' = [Disturb(c) EXCEPT ![c].todo = <<"profile">>]
      BY <1>6, <2>1 DEF Route
    <3> QED
      BY <3>1, <3>2, RouteActs
  <2>2. CASE live = NoPolicy /\ cmd[c].req.scope = "session"
    BY <1>6, <2>2, EndActs DEF Route
  <2>3. CASE live = NoPolicy /\ cmd[c].req.scope # "session"
    <3>1. Left(cmd[c].req, <<"read", "write">>)
      BY <2>0, <2>3, RequestAssumption DEF Left
    <3>2. cmd' = [Disturb(c) EXCEPT ![c].todo = <<"read", "write">>]
      BY <1>6, <2>3 DEF Route
    <3> QED
      BY <3>1, <3>2, RouteActs
  <2> QED
    BY <2>1, <2>2, <2>3
<1>7. CASE SetEnabled(c)
  BY <1>7, AnsweredActs DEF SetEnabled
<1>8. CASE SetMl(c)
  BY <1>8, AnsweredActs DEF SetMl
<1>9. CASE Fetch(c)
  <2>1. cmd' = [Continue(c) EXCEPT ![c] = [@ EXCEPT !["got"] = live]]
    BY <1>9 DEF Fetch
  <2> QED
    BY <2>1, ContinueWith
<1>10. ASSUME NEW patch, put_config(c, patch)
       PROVE  Acts(c)
  <2>1. cmd' = End(c, "out of range") \/ cmd' = End(c, "unknown") \/ cmd' = Answered(c)
    BY <1>10 DEF put_config
  <2> QED
    BY <2>1, EndActs, AnsweredActs
<1>11. CASE PutWhole(c) \/ PutPatch(c)
  BY <1>10, <1>11 DEF PutWhole, PutPatch
<1>12. CASE ApplyProfile(c)
  BY <1>12, AnsweredActs DEF ApplyProfile
<1>13. CASE Reload(c)
  <2>1. cmd' = Unanswered(c) \/ cmd' = Disturb(c)
    BY <1>13 DEF Reload
  <2> QED
    BY <2>1, UnansweredActs, HoldActs
<1>14. CASE ReloadBroker(c)
  BY <1>14, AnsweredActs DEF ReloadBroker
<1>15. CASE Fail(c)
  BY <1>15, UnansweredActs DEF Fail
<1>16. CASE Exit(c)
  BY <1>16 DEF Exit
<1> QED
  BY <1>1, <1>2, <1>3, <1>4, <1>5, <1>6, <1>7, <1>8, <1>9, <1>11, <1>12, <1>13, <1>14, <1>15,
     <1>16 DEF Step

ReloadInv ==
    reloading # Nobody => reloading \in Clis /\ At(reloading, "reload") /\ live # NoPolicy

\* What the steps that are no command's do to the commands.
LEMMA AsideCmds ==
    ASSUME CmdsInv, cmd' = DisturbAll
    PROVE  /\ CmdsInv'
           /\ \A d \in Clis : cmd'[d].todo = cmd[d].todo
           /\ \A d \in Clis : cmd'[d] # NoCommand =>
                  cmd[d] # NoCommand /\ cmd'[d].doc = cmd[d].doc /\ cmd'[d].got = cmd[d].got
<1>1. Nobody \notin Clis /\ cmd' = Disturb(Nobody)
  BY NameAssumption DEF DisturbAll
<1>2. DOMAIN cmd' = Clis
  BY <1>1, DisturbFacts
<1>3. ASSUME NEW d \in Clis
      PROVE  /\ cmd'[d] = NoCommand \/ IsCommand(cmd'[d])
             /\ cmd'[d].todo = cmd[d].todo
             /\ cmd'[d] # NoCommand =>
                    cmd[d] # NoCommand /\ cmd'[d].doc = cmd[d].doc /\ cmd'[d].got = cmd[d].got
  <2>1. d # Nobody
    BY <1>1
  <2>2. CASE cmd[d] = NoCommand
    <3>1. cmd'[d] = cmd[d]
      BY <1>1, <2>2 DEF Disturb
    <3> QED
      BY <2>2, <3>1
  <2>3. CASE cmd[d] # NoCommand
    <3>1. /\ IsCommand(Disturb(Nobody)[d]) /\ Disturb(Nobody)[d].todo = cmd[d].todo
          /\ Disturb(Nobody)[d].doc = cmd[d].doc /\ Disturb(Nobody)[d].got = cmd[d].got
      BY <2>1, <2>3, DisturbFacts
    <3> QED
      BY <1>1, <2>3, <3>1
  <2> QED
    BY <2>2, <2>3
<1> QED
  BY <1>2, <1>3 DEF CmdsInv

LEMMA ActsCmds ==
    ASSUME CmdsInv, NEW c \in Clis, Acts(c)
    PROVE  /\ CmdsInv'
           /\ \A d \in Clis \ {c} : cmd'[d].todo = cmd[d].todo
<1>1. ASSUME NEW d \in Clis \ {c}
      PROVE  (cmd'[d] = NoCommand \/ IsCommand(cmd'[d])) /\ cmd'[d].todo = cmd[d].todo
  <2>1. cmd'[d] = Disturb(c)[d]
    BY DEF Acts
  <2>2. /\ Disturb(c)[d] = NoCommand \/ IsCommand(Disturb(c)[d])
        /\ Disturb(c)[d].todo = cmd[d].todo
    <3>1. d \in Clis /\ d # c
      OBVIOUS
    <3>2. CASE cmd[d] = NoCommand
      <4>1. Disturb(c)[d] = cmd[d]
        BY <3>1, <3>2, DisturbFacts
      <4> QED
        BY <4>1, <3>2
    <3>3. CASE cmd[d] # NoCommand
      BY <3>1, <3>3, DisturbFacts
    <3> QED
      BY <3>2, <3>3
  <2> QED
    BY <2>1, <2>2
<1>2. DOMAIN cmd' = Clis /\ IsCommand(cmd'[c])
  BY DEF Acts
<1> QED
  BY <1>1, <1>2 DEF CmdsInv

\* A reload that the proxy's end cuts short.
LEMMA CutActs ==
    ASSUME CmdsInv, NEW c \in Clis, cmd[c] # NoCommand, cmd[c].todo # <<>>, cmd' = CutShort(c)
    PROVE  /\ CmdsInv'
           /\ \A d \in Clis \ {c} : cmd'[d] = Disturb(c)[d] /\ cmd'[d].todo = cmd[d].todo
           /\ IsCommand(cmd'[c]) /\ cmd'[c].req = cmd[c].req
           /\ cmd'[c].alone = FALSE /\ cmd'[c].expect = {}
           /\ \/ cmd'[c].todo = <<>> /\ cmd'[c].result \in {"failed", "saved"}
                 /\ cmd'[c].doc = <<>> /\ cmd'[c].got = NoPolicy
              \/ /\ At(c, "reload") /\ Len(cmd[c].todo) = 2
                 /\ cmd'[c].todo = Tail(cmd[c].todo) /\ cmd'[c].result = cmd[c].result
                 /\ cmd'[c].doc = cmd[c].doc /\ cmd'[c].got = cmd[c].got
<1> DEFINE u == Unanswered(c)
           Ended == /\ u[c].todo = <<>> /\ u[c].result \in {"failed", "saved"}
                    /\ u[c].doc = <<>> /\ u[c].got = NoPolicy
           Went == /\ At(c, "reload") /\ Len(cmd[c].todo) = 2
                   /\ u[c].todo = Tail(cmd[c].todo) /\ u[c].result = cmd[c].result
                   /\ u[c].doc = cmd[c].doc /\ u[c].got = cmd[c].got
           Same == /\ DOMAIN u = Clis /\ \A d \in Clis \ {c} : u[d] = Disturb(c)[d]
                   /\ DOMAIN u[c] = Fields /\ u[c].req = cmd[c].req
<1>1. IsCommand(cmd[c]) /\ DOMAIN cmd[c] = Fields
  BY DEF CmdsInv, IsCommand
<1>2. DOMAIN Disturb(c) = Clis /\ Disturb(c)[c] = cmd[c]
  BY DisturbFacts
<1>3. Left(cmd[c].req, <<>>) /\ Left(cmd[c].req, Tail(cmd[c].todo))
  BY <1>1, LeftFacts DEF IsCommand, Left
<1>4. Same /\ (Ended \/ Went)
  <2>1. ASSUME NEW x \in {"failed", "saved"}, u = End(c, x)
        PROVE  Same /\ Ended
    <3>1. DOMAIN u = Clis /\ \A d \in Clis \ {c} : u[d] = Disturb(c)[d]
      BY <1>2, <2>1 DEF End
    <3>2. /\ DOMAIN u[c] = Fields /\ u[c].req = cmd[c].req
          /\ u[c].todo = <<>> /\ u[c].result = x /\ u[c].doc = <<>> /\ u[c].got = NoPolicy
      BY <1>1, <1>2, <2>1 DEF Fields, End
    <3> QED
      BY <3>1, <3>2
  <2>2. ASSUME At(c, "reload"), Len(cmd[c].todo) = 2, u = Continue(c)
        PROVE  Same /\ Went
    <3>1. DOMAIN u = Clis /\ \A d \in Clis \ {c} : u[d] = Disturb(c)[d]
      BY <1>2, <2>2 DEF Continue
    <3>2. u[c] = [cmd[c] EXCEPT !.todo = Tail(cmd[c].todo)]
      BY <1>2, <2>2 DEF Continue
    <3>3. /\ DOMAIN u[c] = Fields /\ u[c].req = cmd[c].req
          /\ u[c].todo = Tail(cmd[c].todo) /\ u[c].result = cmd[c].result
          /\ u[c].doc = cmd[c].doc /\ u[c].got = cmd[c].got
      BY <1>1, <3>2 DEF Fields
    <3> QED
      BY <2>2, <3>1, <3>3
  <2>3. \/ u = End(c, "failed") \/ u = End(c, "saved")
        \/ At(c, "reload") /\ Len(cmd[c].todo) = 2 /\ u = Continue(c)
    BY DEF Unanswered
  <2> HIDE DEF u, Same, Ended, Went
  <2> QED
    BY <2>1, <2>2, <2>3
<1>5. cmd' = [u EXCEPT ![c] = [u[c] EXCEPT !.alone = FALSE, !.expect = {}]]
  BY <1>4 DEF CutShort
<1> HIDE DEF u
<1>6. DOMAIN cmd' = Clis /\ \A d \in Clis \ {c} : cmd'[d] = Disturb(c)[d]
  BY <1>4, <1>5
<1>7. cmd'[c] = [u[c] EXCEPT !.alone = FALSE, !.expect = {}]
  BY <1>4, <1>5
<1>8. /\ DOMAIN cmd'[c] = Fields /\ cmd'[c].req = cmd[c].req
      /\ cmd'[c].alone = FALSE /\ cmd'[c].expect = {}
      /\ cmd'[c].todo = u[c].todo /\ cmd'[c].result = u[c].result
      /\ cmd'[c].doc = u[c].doc /\ cmd'[c].got = u[c].got
  BY <1>4, <1>7 DEF Fields
<1>9. IsCommand(cmd'[c])
  BY <1>1, <1>3, <1>4, <1>8 DEF IsCommand
<1>10. ASSUME NEW d \in Clis \ {c}
       PROVE  (cmd'[d] = NoCommand \/ IsCommand(cmd'[d])) /\ cmd'[d].todo = cmd[d].todo
  <2>1. d \in Clis /\ d # c
    OBVIOUS
  <2>2. CASE cmd[d] = NoCommand
    <3>1. Disturb(c)[d] = cmd[d]
      BY <2>1, <2>2, DisturbFacts
    <3> QED
      BY <1>6, <2>2, <3>1
  <2>3. CASE cmd[d] # NoCommand
    <3>1. IsCommand(Disturb(c)[d]) /\ Disturb(c)[d].todo = cmd[d].todo
      BY <2>1, <2>3, DisturbFacts
    <3> QED
      BY <1>6, <3>1
  <2> QED
    BY <2>2, <2>3
<1> QED
  BY <1>4, <1>6, <1>8, <1>9, <1>10 DEF CmdsInv

LEMMA BeginCmds ==
    ASSUME CmdsInv, NEW c \in Clis, NEW r \in Requests, Begin(c, r)
    PROVE  /\ CmdsInv'
           /\ \A d \in Clis \ {c} : cmd'[d] = Disturb(c)[d] /\ cmd'[d].todo = cmd[d].todo
           /\ cmd'[c].req = r /\ cmd'[c].todo = Steps(r) /\ cmd'[c].result = "none"
           /\ cmd'[c].port = port /\ cmd'[c].expect = Expected(r)
           /\ cmd'[c].doc = <<>> /\ cmd'[c].got = NoPolicy
           /\ cmd'[c].alone = (\A d \in Clis \ {c} : cmd[d] = NoCommand)
<1> DEFINE k == [req |-> r, port |-> port, todo |-> Steps(r), result |-> "none",
                 base |-> {}, doc |-> <<>>, got |-> NoPolicy, expect |-> Expected(r),
                 alone |-> \A d \in Clis \ {c} : cmd[d] = NoCommand]
<1>1. cmd' = [Disturb(c) EXCEPT ![c] = k]
  BY DEF Begin
<1>2. /\ DOMAIN k = Fields /\ k.req = r /\ k.todo = Steps(r) /\ k.alone \in BOOLEAN
      /\ k.result = "none" /\ k.port = port /\ k.expect = Expected(r)
      /\ k.doc = <<>> /\ k.got = NoPolicy
      /\ k.alone = (\A d \in Clis \ {c} : cmd[d] = NoCommand)
  BY DEF Fields
<1> HIDE DEF k
<1>3. IsCommand(k)
  BY <1>2, FirstSteps DEF IsCommand
<1>4. DOMAIN Disturb(c) = Clis
  BY DisturbFacts
<1>5. DOMAIN cmd' = Clis /\ cmd'[c] = k /\ \A d \in Clis \ {c} : cmd'[d] = Disturb(c)[d]
  BY <1>1, <1>4
<1>6. ASSUME NEW d \in Clis \ {c}
      PROVE  (cmd'[d] = NoCommand \/ IsCommand(cmd'[d])) /\ cmd'[d].todo = cmd[d].todo
  <2>2. /\ Disturb(c)[d] = NoCommand \/ IsCommand(Disturb(c)[d])
        /\ Disturb(c)[d].todo = cmd[d].todo
    <3>1. d \in Clis /\ d # c
      OBVIOUS
    <3>2. CASE cmd[d] = NoCommand
      <4>1. Disturb(c)[d] = cmd[d]
        BY <3>1, <3>2, DisturbFacts
      <4> QED
        BY <4>1, <3>2
    <3>3. CASE cmd[d] # NoCommand
      BY <3>1, <3>3, DisturbFacts
    <3> QED
      BY <3>2, <3>3
  <2> QED
    BY <1>5, <2>2
<1> QED
  BY <1>2, <1>3, <1>5, <1>6 DEF CmdsInv

LEMMA ExitCmds ==
    ASSUME CmdsInv, NEW c \in Clis, Exit(c)
    PROVE  /\ CmdsInv'
           /\ cmd'[c] = NoCommand
           /\ \A d \in Clis \ {c} : cmd'[d] = cmd[d]
  BY DEF CmdsInv, Exit

LEMMA StepKinds ==
    ASSUME CmdsInv, ReloadInv, NEW c \in Clis, Step(c)
    PROVE  (\E r \in Requests : Begin(c, r)) \/ Exit(c) \/ Acts(c)
<1>1. CASE cmd[c] # NoCommand /\ cmd[c].todo # <<>>
  BY <1>1, StepActs
<1>2. CASE cmd[c].todo = <<>>
  BY <1>2, NameAssumption DEF Step, Refuse, Base, ReadFile, WriteFile, Route, SetEnabled, SetMl, Fetch, PutWhole,
     PutPatch, ApplyProfile, Reload, ReloadBroker, Fail, Exit, Serve, At, ReloadInv, Acts
<1>3. CASE cmd[c] = NoCommand
  BY <1>2, <1>3, NoCommandFacts
<1> QED
  BY <1>1, <1>2, <1>3

FilesInv ==
    /\ DOMAIN files = Layers
    /\ \A l \in Layers : DOMAIN files[l] = {"ok", "doc"} /\ files[l].ok \in BOOLEAN

IsFcn(f) == f = [k \in DOMAIN f |-> f[k]]

LiveInv == live # NoPolicy => EngineKeys \subseteq DOMAIN live /\ IsFcn(live)

GhostInv ==
    /\ DOMAIN ghost = {"overlay", "unread", "raced", "asked", "basis"}
    /\ ghost.unread \in BOOLEAN /\ ghost.raced \in BOOLEAN

PanelInv == DOMAIN panel = {"masked", "revealed", "barred"}

TypeInv == CmdsInv /\ ReloadInv /\ FilesInv /\ LiveInv /\ GhostInv /\ PanelInv

LEMMA FcnFacts ==
    /\ \A f, g : IsFcn(f ++ g)
    /\ \A f, k, v : IsFcn([f EXCEPT ![k] = v])
    /\ \A f, k, v, l, w : IsFcn([f EXCEPT ![k] = v, ![l] = w])
<1>1. \A f, g : IsFcn(f ++ g)
  BY DEF IsFcn, ++
<1>2. \A f, k, v : IsFcn([f EXCEPT ![k] = v])
  BY DEF IsFcn
<1>3. \A f, k, v, l, w : IsFcn([f EXCEPT ![k] = v, ![l] = w])
  BY DEF IsFcn
<1> QED
  BY <1>1, <1>2, <1>3

\* A policy with the keys of a configuration is not the missing one.
LEMMA PolicyFacts ==
    \A p : EngineKeys \subseteq DOMAIN p => p # NoPolicy
<1>1. "rules" \in EngineKeys
  BY DEF EngineKeys
<1> QED
  BY <1>1, NoPolicyIsEmpty

LEMMA ReloadedFacts ==
    /\ DOMAIN Reloaded(load(files)) = DOMAIN load(files)
    /\ IsFcn(Reloaded(load(files)))
    /\ load(files) # NoPolicy =>
           /\ EngineKeys \subseteq DOMAIN Reloaded(load(files))
           /\ Reloaded(load(files)) # NoPolicy
           /\ Reloaded(load(files))["enabled"] = live["enabled"]
           /\ Reloaded(load(files))["ml"] = live["ml"]
           /\ \A k \in DOMAIN load(files) \ {"enabled", "ml"} :
                  Reloaded(load(files))[k] = load(files)[k]
<1>1. DOMAIN Reloaded(load(files)) = DOMAIN load(files) /\ IsFcn(Reloaded(load(files)))
  BY FcnFacts DEF Reloaded
<1>2. ASSUME load(files) # NoPolicy
      PROVE  /\ EngineKeys \subseteq DOMAIN Reloaded(load(files))
             /\ Reloaded(load(files)) # NoPolicy
             /\ Reloaded(load(files))["enabled"] = live["enabled"]
             /\ Reloaded(load(files))["ml"] = live["ml"]
             /\ \A k \in DOMAIN load(files) \ {"enabled", "ml"} :
                    Reloaded(load(files))[k] = load(files)[k]
  <2>1. EngineKeys \subseteq DOMAIN load(files) /\ {"enabled", "ml"} \subseteq EngineKeys
    BY <1>2, LoadFacts DEF EngineKeys
  <2>2. /\ Reloaded(load(files))["enabled"] = live["enabled"]
        /\ Reloaded(load(files))["ml"] = live["ml"]
        /\ \A k \in DOMAIN load(files) \ {"enabled", "ml"} :
               Reloaded(load(files))[k] = load(files)[k]
    BY <2>1 DEF Reloaded
  <2> QED
    BY <1>1, <2>1, <2>2, PolicyFacts
<1> QED
  BY <1>1, <1>2

LEMMA CmdsStep ==
    ASSUME CmdsInv, ReloadInv, [EditsNext]_editVars
    PROVE  CmdsInv' /\ ReloadInv'
<1>1. ASSUME NEW c \in Clis, Step(c)
      PROVE  CmdsInv' /\ ReloadInv'
  <2>1. CASE \E r \in Requests : Begin(c, r)
    <3>1. PICK r \in Requests : Begin(c, r)
      BY <2>1
    <3>2. CmdsInv' /\ \A d \in Clis \ {c} : cmd'[d].todo = cmd[d].todo
      BY <3>1, BeginCmds
    <3>3. cmd[c].todo = <<>> /\ UNCHANGED <<reloading, live>>
      BY <3>1, NoCommandFacts DEF Begin
    <3> QED
      BY <3>2, <3>3 DEF ReloadInv, At
  <2>2. CASE Exit(c)
    BY <2>2, ExitCmds DEF Exit, ReloadInv, At
  <2>3. CASE Acts(c)
    <3>1. CmdsInv' /\ \A d \in Clis \ {c} : cmd'[d].todo = cmd[d].todo
      BY <2>3, ActsCmds
    <3>2. CASE reloading' # Nobody /\ reloading # Nobody
      <4>1. UNCHANGED <<reloading, live>> /\ reloading # c
        BY <1>1, <3>2 DEF Step, Begin, Refuse, Base, ReadFile, WriteFile, Route, SetEnabled, SetMl,
           Fetch, PutWhole, PutPatch, ApplyProfile, Reload, ReloadBroker, Fail, Exit, Serve, At,
           ReloadInv, NoCommand
      <4> QED
        BY <3>1, <3>2, <4>1 DEF ReloadInv, At
    <3>3. CASE reloading' # Nobody /\ reloading = Nobody
      <4>1. /\ Serve(c, "reload") /\ cmd' = Disturb(c) /\ reloading' = c
            /\ load(files) # NoPolicy /\ live' = Reloaded(load(files))
        BY <1>1, <3>3 DEF Step, Begin, Refuse, Base, ReadFile, WriteFile, Route, SetEnabled, SetMl,
           Fetch, PutWhole, PutPatch, put_config, ApplyProfile, Reload, ReloadBroker, Fail, Exit
      <4>2. At(c, "reload") /\ cmd[c] # NoCommand
        BY <4>1, AtFacts DEF Serve
      <4>3. cmd'[c] = cmd[c]
        BY <4>1, <4>2, HoldActs
      <4> QED
        BY <3>1, <4>1, <4>2, <4>3, ReloadedFacts DEF ReloadInv, At
    <3> QED
      BY <3>1, <3>2, <3>3 DEF ReloadInv
  <2> QED
    BY <1>1, <2>1, <2>2, <2>3, StepKinds
<1>2. ASSUME cmd' = DisturbAll, UNCHANGED reloading, reloading # Nobody => UNCHANGED live
      PROVE  CmdsInv' /\ ReloadInv'
  BY <1>2, AsideCmds DEF ReloadInv, At
<1>3. CASE Stop
  <2>1. ReloadInv'
    BY <1>3 DEF Stop, ReloadInv
  <2>2. CASE reloading = Nobody
    BY <1>3, <2>1, <2>2, AsideCmds DEF Stop
  <2>3. CASE reloading # Nobody
    <3>1. reloading \in Clis /\ cmd' = CutShort(reloading) /\ cmd[reloading] # NoCommand
          /\ cmd[reloading].todo # <<>>
      BY <1>3, <2>3, NoCommandFacts DEF Stop, ReloadInv, At
    <3> QED
      BY <2>1, <3>1, CutActs
  <2> QED
    BY <2>2, <2>3
<1>4. CASE (\E p \in Ports : Start(p)) \/ (\E e \in Edits : Type(e))
           \/ (\E l \in {e[1] : e \in Edits} : Garble(l))
  <2>1. cmd' = DisturbAll /\ UNCHANGED reloading /\ (reloading # Nobody => UNCHANGED live)
    BY <1>4 DEF Start, Type, Garble, EditFile, ReloadInv
  <2> QED
    BY <1>2, <2>1
<1>5. CASE Clicks
  <2>1. cmd' = DisturbAll /\ UNCHANGED reloading /\ reloading = Nobody
    BY <1>5 DEF Clicks, custom_mask, custom_masks_remove, remask_keyphrase, reveal_keyphrase, Click
  <2> QED
    BY <1>2, <2>1
<1>6. CASE UNCHANGED editVars
  BY <1>6 DEF editVars, vars, CmdsInv, ReloadInv, At
<1> QED
  BY <1>1, <1>3, <1>4, <1>5, <1>6 DEF EditsNext, Others, Next

LEMMA PutFacts ==
    ASSUME LiveInv, live # NoPolicy, NEW patch
    PROVE  /\ DOMAIN MergeOnto(patch) = DOMAIN patch \cup DOMAIN live
           /\ IsFcn(MergeOnto(patch)) /\ EngineKeys \subseteq DOMAIN MergeOnto(patch)
           /\ MergeOnto(patch)["ml"] = live["ml"]
           /\ \A k \in (DOMAIN patch \cup DOMAIN live) \ {"ml"} :
                  MergeOnto(patch)[k] = IF k \in DOMAIN patch THEN patch[k] ELSE live[k]
<1> DEFINE head == Entry("ml", live["ml"])
           mid  == head ++ patch
<1>1. DOMAIN head = {"ml"} /\ head["ml"] = live["ml"]
  BY EntryFacts
<1>2. EngineKeys \subseteq DOMAIN live /\ "ml" \in EngineKeys
  BY DEF LiveInv, EngineKeys
<1>3. MergeOnto(patch) = mid ++ live
  BY DEF MergeOnto
<1> HIDE DEF head
<1>4. DOMAIN mid = {"ml"} \cup DOMAIN patch
      /\ \A k \in DOMAIN mid : mid[k] = IF k = "ml" THEN live["ml"] ELSE patch[k]
  BY <1>1 DEF ++
<1> HIDE DEF mid
<1>5. DOMAIN MergeOnto(patch) = DOMAIN mid \cup DOMAIN live
      /\ \A k \in DOMAIN mid \cup DOMAIN live :
             MergeOnto(patch)[k] = IF k \in DOMAIN mid THEN mid[k] ELSE live[k]
  BY <1>3 DEF ++
<1>6. IsFcn(MergeOnto(patch))
  BY <1>3, FcnFacts
<1> QED
  BY <1>2, <1>4, <1>5, <1>6

LEMMA FilesStep ==
    ASSUME TypeInv, [EditsNext]_editVars
    PROVE  FilesInv'
<1> USE DEF TypeInv
<1>0. ASSUME NEW l \in Layers, NEW f, files' = [files EXCEPT ![l] = f],
             DOMAIN f = {"ok", "doc"}, f.ok \in BOOLEAN
      PROVE  FilesInv'
  BY <1>0 DEF FilesInv
<1>1. ASSUME NEW c \in Clis, Step(c)
      PROVE  FilesInv'
  <2>1. CASE UNCHANGED files
    BY <2>1 DEF FilesInv
  <2>2. CASE WriteFile(c)
    <3>1. cmd[c].req.scope \in Layers
      BY <2>2, AtFacts, LeftFacts DEF WriteFile, IsCommand
    <3>2. PICK d : files' = [files EXCEPT ![cmd[c].req.scope] = [ok |-> TRUE, doc |-> d]]
      BY <2>2 DEF WriteFile
    <3>3. DOMAIN [ok |-> TRUE, doc |-> d] = {"ok", "doc"} /\ [ok |-> TRUE, doc |-> d].ok \in BOOLEAN
      OBVIOUS
    <3> QED
      BY <1>0, <3>1, <3>2, <3>3
  <2>3. CASE ApplyProfile(c) /\ files' # files
    <3>1. At(c, "profile") /\ cmd[c].req.scope # "session"
          /\ files' = [files EXCEPT ![cmd[c].req.scope] = persist_profile(@, cmd[c].req.value)]
      BY <2>3 DEF ApplyProfile, Serve
    <3>2. cmd[c].req.scope \in Layers
      BY <3>1, AtFacts, RequestAssumption DEF IsCommand
    <3> DEFINE s == cmd[c].req.scope
               f == persist_profile(files[s], cmd[c].req.value)
    <3>3. DOMAIN f = {"ok", "doc"} /\ f.ok \in BOOLEAN
      BY <3>2 DEF persist_profile, FilesInv
    <3>4. files' = [files EXCEPT ![s] = f]
      BY <3>1, <3>2 DEF FilesInv
    <3> HIDE DEF f, s
    <3> QED
      BY <1>0, <3>2, <3>3, <3>4 DEF s
  <2> QED
    BY <1>1, <2>1, <2>2, <2>3 DEF Step, Begin, Refuse, Base, ReadFile, Route, SetEnabled, SetMl,
       Fetch, PutWhole, PutPatch, put_config, ApplyProfile, Reload, ReloadBroker, Fail, Exit
<1>2. CASE (\E p \in Ports : Start(p)) \/ Stop
  BY <1>2 DEF Start, Stop, FilesInv
<1>3. CASE (\E e \in Edits : Type(e)) \/ (\E l \in {e[1] : e \in Edits} : Garble(l))
  <2>1. CASE \E e \in Edits : Type(e)
    <3>1. PICK e \in Edits : Type(e)
      BY <2>1
    <3>2. PICK d : files' = [files EXCEPT ![e[1]] = [ok |-> TRUE, doc |-> d]]
      BY <3>1 DEF Type, EditFile
    <3>3. DOMAIN [ok |-> TRUE, doc |-> d] = {"ok", "doc"} /\ [ok |-> TRUE, doc |-> d].ok \in BOOLEAN
      OBVIOUS
    <3> QED
      BY <1>0, <3>2, <3>3, EditAssumption
  <2>2. CASE \E l \in {e[1] : e \in Edits} : Garble(l)
    <3>1. PICK l \in {e[1] : e \in Edits} : Garble(l)
      BY <2>2
    <3>2. files' = [files EXCEPT ![l] = [files[l] EXCEPT !.ok = FALSE]] /\ l \in Layers
      BY <3>1, EditAssumption DEF Garble, EditFile
    <3>3. DOMAIN [files[l] EXCEPT !.ok = FALSE] = {"ok", "doc"}
          /\ [files[l] EXCEPT !.ok = FALSE].ok \in BOOLEAN
      BY <3>2 DEF FilesInv
    <3> QED
      BY <1>0, <3>2, <3>3
  <2> QED
    BY <1>3, <2>1, <2>2
<1>4. CASE Clicks
  <2>1. \/ files' = files
        \/ \E d : files' = [files EXCEPT !["local"].doc = d]
    BY <1>4 DEF Clicks, custom_mask, custom_masks_remove, remask_keyphrase, reveal_keyphrase, Saved
  <2>2. ASSUME NEW d, files' = [files EXCEPT !["local"].doc = d]
        PROVE  FilesInv'
    <3>1. files' = [files EXCEPT !["local"] = [files["local"] EXCEPT !.doc = d]]
          /\ "local" \in Layers
      BY <2>2 DEF Layers
    <3>2. DOMAIN [files["local"] EXCEPT !.doc = d] = {"ok", "doc"}
          /\ [files["local"] EXCEPT !.doc = d].ok \in BOOLEAN
      BY <3>1 DEF FilesInv
    <3> QED
      BY <1>0, <3>1, <3>2
  <2> QED
    BY <2>1, <2>2 DEF FilesInv
<1>5. CASE UNCHANGED editVars
  BY <1>5 DEF editVars, vars, FilesInv
<1> QED
  BY <1>1, <1>2, <1>3, <1>4, <1>5 DEF EditsNext, Others, Next

LEMMA LiveStep ==
    ASSUME TypeInv, [EditsNext]_editVars
    PROVE  LiveInv'
<1> USE DEF TypeInv
<1>0. ASSUME IsFcn(live'), EngineKeys \subseteq DOMAIN live'
      PROVE  LiveInv'
  BY <1>0 DEF LiveInv
<1>1. ASSUME NEW c \in Clis, Step(c)
      PROVE  LiveInv'
  <2>1. CASE UNCHANGED live
    BY <2>1 DEF LiveInv
  <2>2. CASE SetEnabled(c) \/ SetMl(c)
    <3>1. live # NoPolicy /\ \E k, v : live' = [live EXCEPT ![k] = v]
      BY <2>2 DEF SetEnabled, SetMl, Serve, Reachable
    <3>2. PICK k, v : live' = [live EXCEPT ![k] = v]
      BY <3>1
    <3>3. DOMAIN live' = DOMAIN live /\ IsFcn(live')
      BY <3>2, FcnFacts
    <3> QED
      BY <1>0, <3>1, <3>3 DEF LiveInv
  <2>3. ASSUME NEW patch, live # NoPolicy, put_config(c, patch), live' # live
        PROVE  LiveInv'
    <3>1. live' = MergeOnto(patch)
      BY <2>3 DEF put_config
    <3> QED
      BY <1>0, <2>3, <3>1, PutFacts
  <2>4. CASE (PutWhole(c) \/ PutPatch(c)) /\ live' # live
    BY <2>3, <2>4 DEF PutWhole, PutPatch, Serve, Reachable
  <2>5. CASE ApplyProfile(c)
    <3>1. live # NoPolicy /\ live' = for_profile(cmd[c].req.value) ++ live
      BY <2>5 DEF ApplyProfile, Serve, Reachable
    <3> QED
      BY <1>0, <3>1, FcnFacts, OverDomain DEF LiveInv
  <2>6. CASE Reload(c) /\ live' # live
    <3>1. live' = Reloaded(load(files)) /\ load(files) # NoPolicy
      BY <2>6 DEF Reload
    <3> QED
      BY <1>0, <3>1, ReloadedFacts
  <2> QED
    BY <1>1, <2>1, <2>2, <2>4, <2>5, <2>6 DEF Step, Begin, Refuse, Base, ReadFile, WriteFile, Route,
       Fetch, ReloadBroker, Fail, Exit
<1>2. CASE \E p \in Ports : Start(p)
  <2>1. live' = load(files) /\ load(files) # NoPolicy
    BY <1>2 DEF Start
  <2>2. IsFcn(Deserialize(merged_value(files)))
    BY FcnFacts DEF Deserialize
  <2> QED
    BY <1>0, <2>1, <2>2, LoadFacts
<1>3. CASE Stop \/ (\E e \in Edits : Type(e)) \/ (\E l \in {e[1] : e \in Edits} : Garble(l))
  BY <1>3 DEF Stop, Type, Garble, EditFile, LiveInv
<1>4. CASE Clicks
  <2>1. live # NoPolicy
    BY <1>4 DEF Clicks, custom_mask, custom_masks_remove, remask_keyphrase, reveal_keyphrase, Click
  <2>2. DOMAIN live' = DOMAIN live /\ IsFcn(live')
    <3>1. CASE \E rule \in Rules : custom_mask(rule) \/ custom_masks_remove(rule)
      BY <3>1 DEF custom_mask, custom_masks_remove, IsFcn
    <3>2. CASE \E ph \in Phrases : remask_keyphrase(ph)
      BY <3>2 DEF remask_keyphrase, IsFcn
    <3>3. CASE \E ph \in Phrases : \E backing \in Rules \cup {NoRule} : reveal_keyphrase(ph, backing)
      BY <3>3 DEF reveal_keyphrase, IsFcn
    <3> QED
      BY <1>4, <3>1, <3>2, <3>3 DEF Clicks
  <2> QED
    BY <1>0, <2>1, <2>2 DEF LiveInv
<1>5. CASE UNCHANGED editVars
  BY <1>5 DEF editVars, vars, LiveInv
<1> QED
  BY <1>1, <1>2, <1>3, <1>4, <1>5 DEF EditsNext, Others, Next

LEMMA GhostStep ==
    ASSUME TypeInv, [EditsNext]_editVars
    PROVE  GhostInv'
<1> USE DEF TypeInv
<1>0. ASSUME NEW keys, NEW g, g = Overlaid(keys)
      PROVE  /\ DOMAIN g = {"overlay", "unread", "raced", "asked", "basis"}
             /\ g.overlay = ghost.overlay \cup keys /\ g.unread = ghost.unread
             /\ g.raced = ghost.raced /\ g.asked = ghost.asked /\ g.basis = ghost.basis
  BY <1>0 DEF Overlaid, GhostInv
<1>1. ASSUME NEW c \in Clis, Step(c)
      PROVE  GhostInv'
  <2>1. CASE UNCHANGED ghost
    BY <2>1 DEF GhostInv
  <2>2. CASE WriteFile(c) \/ SetEnabled(c) \/ Reload(c)
    BY <2>2 DEF WriteFile, SetEnabled, Reload, GhostInv
  <2>3. ASSUME NEW patch, put_config(c, patch), ghost' # ghost
        PROVE  GhostInv'
    <3>1. ghost' = [Overlaid(DOMAIN patch) EXCEPT
              !.basis = @ \cup Declared(live'),
              !.raced = @ \/ ("enabled" \in DOMAIN patch /\ patch["enabled"] # live["enabled"])]
      BY <2>3 DEF put_config
    <3> DEFINE g == Overlaid(DOMAIN patch)
    <3>2. DOMAIN g = {"overlay", "unread", "raced", "asked", "basis"}
          /\ g.unread \in BOOLEAN
      BY <1>0 DEF GhostInv
    <3> HIDE DEF g
    <3>3. DOMAIN ghost' = {"overlay", "unread", "raced", "asked", "basis"}
          /\ ghost'.unread \in BOOLEAN
      BY <3>1, <3>2 DEF g
    <3>4. ghost'.raced \in BOOLEAN
      BY <3>1, <3>2 DEF g
    <3> QED
      BY <3>3, <3>4 DEF GhostInv
  <2>4. CASE (PutWhole(c) \/ PutPatch(c)) /\ ghost' # ghost
    BY <2>3, <2>4 DEF PutWhole, PutPatch
  <2>5. CASE ApplyProfile(c)
    <3> DEFINE g == Overlaid(DOMAIN for_profile(cmd[c].req.value))
               u == g.unread \/ (files[cmd[c].req.scope].ok /\ load(files) = NoPolicy)
    <3>1. ghost' = g \/ ghost' = [g EXCEPT !.unread = u]
      BY <2>5 DEF ApplyProfile
    <3>2. DOMAIN g = {"overlay", "unread", "raced", "asked", "basis"}
          /\ g.unread \in BOOLEAN /\ g.raced \in BOOLEAN
      BY <1>0 DEF GhostInv
    <3>3. u \in BOOLEAN
      OBVIOUS
    <3> HIDE DEF g, u
    <3> QED
      BY <3>1, <3>2, <3>3 DEF GhostInv
  <2> QED
    BY <1>1, <2>1, <2>2, <2>4, <2>5 DEF Step, Begin, Refuse, Base, ReadFile, Route, SetMl, Fetch,
       ReloadBroker, Fail, Exit
<1>2. CASE (\E p \in Ports : Start(p)) \/ Stop \/ (\E e \in Edits : Type(e))
           \/ (\E l \in {e[1] : e \in Edits} : Garble(l))
  <2>1. CASE \E p \in Ports : Start(p)
    BY <2>1 DEF Start, Started, GhostInv
  <2>2. CASE Stop
    BY <2>2 DEF Stop, GhostInv
  <2>3. ASSUME NEW l, NEW f, EditFile(l, f)
        PROVE  GhostInv'
    BY <2>3 DEF EditFile, GhostInv
  <2> QED
    BY <1>2, <2>1, <2>2, <2>3 DEF Type, Garble
<1>3. CASE Clicks
  <2>1. PICK keys : ghost' = Overlaid(keys)
    BY <1>3 DEF Clicks, custom_mask, custom_masks_remove, remask_keyphrase, reveal_keyphrase
  <2> QED
    BY <1>0, <2>1 DEF GhostInv
<1>4. CASE UNCHANGED editVars
  BY <1>4 DEF editVars, vars, GhostInv
<1> QED
  BY <1>1, <1>2, <1>3, <1>4 DEF EditsNext, Others, Next

LEMMA PanelStep ==
    ASSUME TypeInv, [EditsNext]_editVars
    PROVE  PanelInv'
<1>1. CASE Clicks
  BY <1>1 DEF Clicks, custom_mask, custom_masks_remove, remask_keyphrase, reveal_keyphrase, Note,
     PanelInv
<1>2. CASE Others \/ UNCHANGED editVars
  BY <1>2 DEF Others, Untouched, editVars, PanelInv, TypeInv
<1> QED
  BY <1>1, <1>2 DEF EditsNext

LEMMA TypeInit == EditsInit => TypeInv
<1> SUFFICES ASSUME EditsInit
             PROVE  TypeInv
  OBVIOUS
<1>1. CmdsInv /\ ReloadInv
  BY DEF EditsInit, Init, CmdsInv, ReloadInv
<1>2. FilesInv
  <2>1. PICK d \in UserDocs :
            files = [user |-> [ok |-> TRUE, doc |-> d], project |-> Empty, local |-> Empty]
    BY DEF EditsInit, Init
  <2>2. DOMAIN files = Layers
    BY <2>1 DEF Layers
  <2>3. DOMAIN Empty = {"ok", "doc"} /\ Empty.ok = TRUE
    BY DEF Empty
  <2>4. DOMAIN [ok |-> TRUE, doc |-> d] = {"ok", "doc"} /\ [ok |-> TRUE, doc |-> d].ok = TRUE
    OBVIOUS
  <2>5. /\ files["user"] = [ok |-> TRUE, doc |-> d]
        /\ files["project"] = Empty /\ files["local"] = Empty
    BY <2>1
  <2> QED
    BY <2>2, <2>3, <2>4, <2>5 DEF FilesInv, Layers
<1>3. LiveInv /\ GhostInv /\ PanelInv
  BY DEF EditsInit, Init, LiveInv, GhostInv, PanelInv, Untouched
<1> QED
  BY <1>1, <1>2, <1>3 DEF TypeInv

LEMMA TypeStep == TypeInv /\ [EditsNext]_editVars => TypeInv'
<1> SUFFICES ASSUME TypeInv, [EditsNext]_editVars
             PROVE  TypeInv'
  OBVIOUS
<1>1. CmdsInv' /\ ReloadInv'
  BY CmdsStep DEF TypeInv
<1> QED
  BY <1>1, FilesStep, LiveStep, GhostStep, PanelStep DEF TypeInv

-----------------------------------------------------------------------------
(* Misspelt entities.                                                      *)

\* A whole configuration is put by a command that has fetched it.
LEMMA PutFollowsFetch ==
    ASSUME CmdsInv, ReloadInv, NEW c \in Clis, Step(c), At(c, "put")'
    PROVE  Fetch(c)
<1>1. CASE \E r \in Requests : Begin(c, r)
  <2>1. PICK r \in Requests : Begin(c, r)
    BY <1>1
  <2>2. cmd'[c].todo = Steps(r)
    BY <2>1, BeginCmds
  <2> QED
    BY <2>2, FirstSteps DEF At
<1>2. CASE Exit(c)
  BY <1>2, ExitCmds, NoCommandFacts DEF At
<1>3. CASE Acts(c) /\ ~Exit(c) /\ ~(\E r \in Requests : Begin(c, r))
  <2>1. /\ CmdsInv' /\ cmd'[c].todo # <<>> /\ Head(cmd'[c].todo) = "put"
        /\ IsCommand(cmd'[c]) /\ cmd'[c].req = cmd[c].req
    BY <1>3, ActsCmds DEF At, Acts
  <2>2. cmd[c].req.scope = "session" /\ cmd[c].req.scope \notin Layers
    BY <2>1, LeftFacts DEF IsCommand, Layers
  <2>3. cmd[c] # NoCommand /\ cmd[c].todo # <<>>
    BY <1>3, NoCommandFacts, NameAssumption DEF Step, Refuse, Base, ReadFile, WriteFile, Route, SetEnabled, SetMl,
       Fetch, PutWhole, PutPatch, ApplyProfile, Reload, ReloadBroker, Fail, Serve, At, ReloadInv
  <2>4. IsCommand(cmd[c]) /\ cmd[c].req \in Requests /\ Left(cmd[c].req, cmd[c].todo)
    BY <2>3 DEF CmdsInv, IsCommand
  <2> DEFINE t == cmd[c].todo
  <2>5. /\ Head(t) # "read" /\ Head(t) # "write" /\ Head(t) # "reload"
        /\ Head(t) = "base" => Tail(t) = <<"fetch", "put">>
        /\ Head(t) \in {"profile", "enabled", "ml", "patch", "put"} => Len(t) = 1
    <3>1. /\ Head(t) # "read" /\ Head(t) # "write" /\ Head(t) # "reload"
          /\ Head(t) = "base" => Tail(t) = <<"fetch", "put">>
      BY <2>2, <2>3, <2>4, LeftFacts
    <3>2. Head(t) \in {"profile", "enabled", "ml", "patch", "put"} =>
              t \in {<<"profile">>, <<"enabled">>, <<"ml">>, <<"patch">>, <<"put">>}
      BY <2>3, <2>4, LeftFacts
    <3> HIDE DEF t
    <3> QED
      BY <3>1, <3>2, TupleFacts
  <2>6. ASSUME cmd' = Answered(c), Head(t) \in {"profile", "enabled", "ml", "patch", "put"}
        PROVE  FALSE
    BY <2>1, <2>3, <2>5, <2>6, AnsweredActs
  <2>7. ASSUME NEW x, cmd' = End(c, x)
        PROVE  FALSE
    BY <2>1, <2>3, <2>7, EndActs
  <2>8. ASSUME cmd' = Unanswered(c)
        PROVE  FALSE
    BY <2>1, <2>3, <2>5, <2>8, UnansweredActs DEF At
  <2>9. ~Refuse(c) /\ ~Fail(c)
    BY <2>7, <2>8 DEF Refuse, Fail
  <2>10. ~ReadFile(c) /\ ~WriteFile(c) /\ ~Reload(c)
    BY <2>5 DEF ReadFile, WriteFile, Reload, Serve, At
  <2>11. ~ReloadBroker(c)
    BY <2>5, NameAssumption DEF ReloadBroker, ReloadInv, At
  <2>12. ~SetEnabled(c) /\ ~SetMl(c) /\ ~ApplyProfile(c)
    BY <2>6 DEF SetEnabled, SetMl, ApplyProfile, Serve, At
  <2>13. ASSUME NEW patch, Head(t) \in {"patch", "put"}, put_config(c, patch)
         PROVE  FALSE
    BY <2>6, <2>7, <2>13 DEF put_config
  <2>14. ~PutWhole(c) /\ ~PutPatch(c)
    BY <2>13 DEF PutWhole, PutPatch, Serve, At
  <2>15. ~Base(c)
    <3> SUFFICES ASSUME Base(c)
                 PROVE  FALSE
      OBVIOUS
    <3>1. cmd' = [Continue(c) EXCEPT ![c] = [@ EXCEPT !["base"] =
              IF Reachable(c) THEN live["categories"] ELSE categories_from_files(files)]]
      BY DEF Base
    <3>2. cmd'[c].todo = Tail(t)
      BY <2>3, <3>1, ContinueWith
    <3>3. Tail(t) = <<"fetch", "put">>
      BY <2>5 DEF Base, At
    <3>4. Head(<<"fetch", "put">>) = "fetch"
      BY TupleFacts
    <3> QED
      BY <2>1, <3>2, <3>3, <3>4
  <2>16. ~Route(c)
    <3> SUFFICES ASSUME Route(c)
                 PROVE  FALSE
      OBVIOUS
    <3>1. CASE live = NoPolicy
      BY <2>2, <2>7, <3>1 DEF Route
    <3>2. CASE live # NoPolicy
      <4>1. cmd' = [Disturb(c) EXCEPT ![c].todo = <<"profile">>]
        BY <3>2 DEF Route
      <4>2. Left(cmd[c].req, <<"profile">>)
        BY <2>3, <2>4, LeftFacts DEF Route, At, Left
      <4>3. cmd'[c].todo = <<"profile">>
        BY <2>3, <4>1, <4>2, RouteActs
      <4> QED
        BY <2>1, <4>3, TupleFacts
    <3> QED
      BY <3>1, <3>2
  <2> QED
    BY <1>3, <2>9, <2>10, <2>11, <2>12, <2>14, <2>15, <2>16 DEF Step
<1> QED
  BY <1>1, <1>2, <1>3, StepKinds

PutInv ==
    \A c \in Clis : At(c, "put") /\ cmd[c].alone => live # NoPolicy /\ cmd[c].got = live

\* The steps of the proxy, of the editor and of the monitor.
Aside ==
    \/ \E p \in Ports : Start(p)
    \/ Stop
    \/ \E e \in Edits : Type(e)
    \/ \E l \in {e[1] : e \in Edits} : Garble(l)
    \/ Clicks

\* Whatever is not the command's own step, or the exit of another, leaves it
\* disturbed, but for a stop that interrupts its reload.
OthersAct(c) ==
    /\ Aside \/ (\E d \in Clis \ {c} : Step(d) /\ ~Exit(d))
    /\ ~(Stop /\ reloading = c)

LEMMA OthersDisturb ==
    ASSUME CmdsInv, ReloadInv, NEW c \in Clis, OthersAct(c)
    PROVE  /\ cmd[c] = NoCommand => cmd'[c] = NoCommand
           /\ cmd[c] # NoCommand =>
                  /\ cmd'[c].todo = cmd[c].todo
                  /\ cmd'[c].result = cmd[c].result /\ cmd'[c].req = cmd[c].req
                  /\ cmd'[c].alone = FALSE /\ cmd'[c].expect = {}
<1>1. PICK x : x # c /\ cmd'[c] = Disturb(x)[c]
  <2>1. CASE cmd' = DisturbAll
    BY <2>1, NameAssumption DEF DisturbAll
  <2>2. CASE Stop /\ reloading # Nobody /\ reloading # c
    <3>1. reloading \in Clis /\ cmd' = CutShort(reloading) /\ cmd[reloading] # NoCommand
          /\ cmd[reloading].todo # <<>>
      BY <2>2, NoCommandFacts DEF Stop, ReloadInv, At
    <3>2. \A d \in Clis \ {reloading} : cmd'[d] = Disturb(reloading)[d]
      BY <3>1, CutActs
    <3> QED
      BY <2>2, <3>1, <3>2
  <2>3. CASE \E d \in Clis \ {c} : Step(d) /\ ~Exit(d)
    <3>1. PICK d \in Clis \ {c} : Step(d) /\ ~Exit(d)
      BY <2>3
    <3>2. d \in Clis /\ ((\E r \in Requests : Begin(d, r)) \/ Acts(d))
      BY <3>1, StepKinds
    <3>3. CASE Acts(d)
      BY <3>1, <3>3 DEF Acts
    <3>4. CASE \E r \in Requests : Begin(d, r)
      <4>1. PICK r \in Requests : Begin(d, r)
        BY <3>4
      <4>2. \A e \in Clis \ {d} : cmd'[e] = Disturb(d)[e]
        BY <3>2, <4>1, BeginCmds
      <4> QED
        BY <3>1, <4>2
    <3> QED
      BY <3>2, <3>3, <3>4
  <2>4. CASE Aside
    BY <2>1, <2>2, <2>4 DEF OthersAct, Aside, Start, Stop, Type, Garble, EditFile, Clicks,
       custom_mask, custom_masks_remove, remask_keyphrase, reveal_keyphrase, Click
  <2> QED
    BY <2>3, <2>4 DEF OthersAct
<1>2. /\ cmd[c] = NoCommand => Disturb(x)[c] = cmd[c]
      /\ cmd[c] # NoCommand =>
             /\ Disturb(x)[c].todo = cmd[c].todo /\ Disturb(x)[c].req = cmd[c].req
             /\ Disturb(x)[c].result = cmd[c].result
             /\ Disturb(x)[c].expect = {} /\ Disturb(x)[c].alone = FALSE
  BY <1>1, DisturbFacts
<1> QED
  BY <1>1, <1>2

\* A stop that interrupts the reload of a command.
LEMMA Interrupted ==
    ASSUME CmdsInv, ReloadInv, NEW c \in Clis, Stop, reloading = c
    PROVE  /\ cmd'[c].alone = FALSE /\ cmd'[c].expect = {}
           /\ cmd'[c].todo = <<>> \/ cmd'[c].todo = <<"ml">>
<1>1. cmd' = CutShort(c) /\ At(c, "reload")
  BY NameAssumption DEF Stop, ReloadInv
<1>2. cmd[c] # NoCommand /\ cmd[c].todo # <<>> /\ Head(cmd[c].todo) = "reload"
      /\ cmd[c].req \in Requests /\ Left(cmd[c].req, cmd[c].todo)
  BY <1>1, AtFacts DEF IsCommand
<1>3. /\ cmd[c].req.scope \in Layers
      /\ cmd[c].todo = <<"reload">> \/ cmd[c].todo = <<"reload", "ml">>
  BY <1>2, LeftFacts
<1>4. /\ Len(<<"reload">>) = 1 /\ Tail(<<"reload", "ml">>) = <<"ml">>
  BY TupleFacts
<1>5. Len(cmd[c].todo) = 2 => cmd[c].todo = <<"reload", "ml">>
  BY <1>3, <1>4
<1> QED
  BY <1>1, <1>2, <1>4, <1>5, CutActs

LEMMA PutStep ==
    ASSUME TypeInv, PutInv, [EditsNext]_editVars
    PROVE  PutInv'
<1> USE DEF TypeInv
<1> SUFFICES ASSUME NEW c \in Clis, At(c, "put")', cmd'[c].alone
             PROVE  live' # NoPolicy /\ cmd'[c].got = live'
  BY DEF PutInv
<1>0. cmd'[c].todo # <<>> /\ Head(cmd'[c].todo) = "put"
  BY DEF At
<1>1. CASE Step(c)
  <2>1. Fetch(c)
    BY <1>1, PutFollowsFetch
  <2>2. cmd' = [Continue(c) EXCEPT ![c] = [@ EXCEPT !["got"] = live]]
        /\ live # NoPolicy /\ UNCHANGED live /\ At(c, "fetch")
    BY <2>1 DEF Fetch, Reachable
  <2>3. cmd[c] # NoCommand /\ cmd[c].todo # <<>>
    BY <2>2, AtFacts
  <2> QED
    BY <2>2, <2>3, ContinueWith
<1>2. CASE OthersAct(c)
  BY <1>0, <1>2, OthersDisturb, NoCommandFacts
<1>3. CASE Stop /\ reloading = c
  <2>1. Head(<<"ml">>) = "ml"
    BY TupleFacts
  <2> QED
    BY <1>0, <1>3, <2>1, Interrupted
<1>4. CASE \E d \in Clis \ {c} : Exit(d)
  <2>1. cmd'[c] = cmd[c] /\ UNCHANGED live
    BY <1>4, ExitCmds DEF Exit
  <2> QED
    BY <2>1 DEF PutInv, At
<1>5. CASE UNCHANGED editVars
  BY <1>5 DEF editVars, vars, PutInv, At
<1> QED
  BY <1>1, <1>2, <1>3, <1>4, <1>5 DEF EditsNext, Others, Next, Aside, OthersAct

\* Of a step, what it means for one command.
LEMMA ForOne ==
    ASSUME [EditsNext]_editVars, NEW c \in Clis
    PROVE  \/ Step(c)
           \/ OthersAct(c)
           \/ Stop /\ reloading = c
           \/ \E d \in Clis \ {c} : Exit(d)
           \/ UNCHANGED editVars
  BY DEF EditsNext, Others, Next, Aside, OthersAct

\* The keys of entities that are none of the program's own, whether a rule
\* declares them or not: a rule that goes leaves its key behind.
Foreign(p) == (DOMAIN p \cap Entities) \ Builtin

TypoInv ==
    /\ PutInv
    /\ live # NoPolicy => Foreign(live) \subseteq ghost.basis
    /\ \A c \in Clis : (cmd[c].result = "unknown" /\ cmd[c].alone) => cmd[c].req.set = "entity"

\* A configuration that a command has fetched alone brings no entity that is
\* not in the live one, for it changes none.
LEMMA WholeBringsNone ==
    ASSUME TypeInv, PutInv, NEW c \in Clis, At(c, "put"), cmd[c].alone
    PROVE  new_unknown_entity_keys(live, MergeOnto(Change(c) ++ cmd[c].got)) = {}
<1> DEFINE r == cmd[c].req
           patch == Change(c) ++ cmd[c].got
<1>1. live # NoPolicy /\ cmd[c].got = live
  BY DEF PutInv
<1>2. r \in Requests /\ r.set \in {"categories", "threshold"}
  BY AtFacts, LeftFacts DEF IsCommand, TypeInv
<1>3. Change(c) = Entry(r.set, IF r.set = "categories" THEN Toggled(cmd[c].base, r.value) ELSE r.value)
  BY <1>2 DEF Change
<1>4. DOMAIN Change(c) = {r.set}
  BY <1>3 DEF Entry
<1>5. r.set \notin Entities /\ "ml" \notin Entities
  BY <1>2, SpellingAssumption DEF EngineKeys
<1>6. DOMAIN patch = {r.set} \cup DOMAIN live
      /\ \A k \in DOMAIN patch \ {r.set} : patch[k] = live[k]
  BY <1>1, <1>4 DEF ++
<1> HIDE DEF patch
<1>7. DOMAIN MergeOnto(patch) = {r.set} \cup DOMAIN live
      /\ \A k \in DOMAIN live \ {r.set, "ml"} : MergeOnto(patch)[k] = live[k]
  BY <1>1, <1>6, PutFacts DEF TypeInv
<1>8. new_unknown_entity_keys(live, MergeOnto(patch)) = {}
  BY <1>5, <1>7 DEF new_unknown_entity_keys, unknown_entity_types
<1> QED
  BY <1>8 DEF patch

LEMMA PutBringsNone ==
    ASSUME TypeInv, live # NoPolicy, NEW patch,
           new_unknown_entity_keys(live, MergeOnto(patch)) = {}
    PROVE  Foreign(MergeOnto(patch)) \subseteq Foreign(live) \cup Declared(MergeOnto(patch))
  BY DEF new_unknown_entity_keys, unknown_entity_types, Foreign

\* A request is refused over an entity only by a PUT.
LEMMA UnknownIsPut ==
    ASSUME CmdsInv, ReloadInv, NEW c \in Clis, Step(c), Acts(c),
           cmd'[c].result = "unknown", cmd[c].result # "unknown"
    PROVE  \E patch : /\ put_config(c, patch) /\ cmd' = End(c, "unknown")
                      /\ new_unknown_entity_keys(live, MergeOnto(patch)) # {}
                      /\ \/ At(c, "patch")
                         \/ At(c, "put") /\ patch = Change(c) ++ cmd[c].got
<1>1. CASE Exit(c) \/ (\E r \in Requests : Begin(c, r))
  BY <1>1, ExitCmds, BeginCmds, NoCommandFacts
<1>2. CASE ~Exit(c) /\ ~(\E r \in Requests : Begin(c, r))
  <2>1. cmd[c] # NoCommand /\ cmd[c].todo # <<>>
    BY <1>2, NoCommandFacts, NameAssumption DEF Step, Refuse, Base, ReadFile, WriteFile, Route,
       SetEnabled, SetMl, Fetch, PutWhole, PutPatch, ApplyProfile, Reload, ReloadBroker, Fail, Serve,
       At, ReloadInv
  <2>2. ASSUME NEW x, cmd' = End(c, x)
        PROVE  x = "unknown"
    BY <2>1, <2>2, EndActs
  <2>3. cmd' # Answered(c)
    <3> SUFFICES ASSUME cmd' = Answered(c)
                 PROVE  FALSE
      OBVIOUS
    <3>1. CASE Len(cmd[c].todo) = 1
      BY <2>1, <3>1, AnsweredActs
    <3>2. CASE Len(cmd[c].todo) # 1
      BY <2>1, <3>2, AnsweredActs
    <3> QED
      BY <3>1, <3>2
  <2>4. cmd' # Unanswered(c)
    BY <2>1, UnansweredActs
  <2>5. cmd' # Disturb(c)
    BY <2>1, HoldActs
  <2>6. ASSUME NEW f \in {"base", "doc", "got"}, NEW v,
               cmd' = [Continue(c) EXCEPT ![c] = [@ EXCEPT ![f] = v]]
        PROVE  FALSE
    BY <2>1, <2>6, ContinueWith
  <2>7. ~Refuse(c) /\ ~Fail(c) /\ ~SetEnabled(c) /\ ~SetMl(c) /\ ~ApplyProfile(c) /\ ~ReloadBroker(c)
        /\ ~Reload(c)
    BY <2>2, <2>3, <2>4, <2>5 DEF Refuse, Fail, SetEnabled, SetMl, ApplyProfile, ReloadBroker, Reload
  <2>8. ~Base(c)
    <3>1. Base(c) => cmd' = [Continue(c) EXCEPT ![c] = [@ EXCEPT !["base"] =
              IF Reachable(c) THEN live["categories"] ELSE categories_from_files(files)]]
      BY DEF Base
    <3> QED
      BY <2>6, <3>1
  <2>9. ~ReadFile(c)
    <3>1. ReadFile(c) => cmd' = [Continue(c) EXCEPT ![c] = [@ EXCEPT !["doc"] =
              parse_or_new(files[cmd[c].req.scope])]]
      BY DEF ReadFile
    <3> QED
      BY <2>6, <3>1
  <2>10. ~Fetch(c)
    <3>1. Fetch(c) => cmd' = [Continue(c) EXCEPT ![c] = [@ EXCEPT !["got"] = live]]
      BY DEF Fetch
    <3> QED
      BY <2>6, <3>1
  <2>11. ~WriteFile(c)
    <3>1. WriteFile(c) => cmd' = End(c, "saved")
                          \/ cmd' = [Continue(c) EXCEPT ![c] = [@ EXCEPT !["doc"] = <<>>]]
      BY DEF WriteFile
    <3> QED
      BY <2>2, <2>6, <3>1
  <2>12. ~Route(c)
    <3> SUFFICES ASSUME Route(c)
                 PROVE  FALSE
      OBVIOUS
    <3>1. CASE cmd' = End(c, "failed")
      BY <2>2, <3>1
    <3>2. CASE cmd' # End(c, "failed")
      <4>1. PICK t \in {<<"profile">>, <<"read", "write">>} : cmd' = [Disturb(c) EXCEPT ![c].todo = t]
        BY <3>2 DEF Route
      <4>2. DOMAIN cmd[c] = Fields /\ DOMAIN Disturb(c) = Clis /\ Disturb(c)[c] = cmd[c]
        BY <2>1, DisturbFacts DEF CmdsInv, IsCommand
      <4>3. cmd'[c].result = cmd[c].result
        BY <4>1, <4>2 DEF Fields
      <4> QED
        BY <4>3
    <3> QED
      BY <3>1, <3>2
  <2>13. ASSUME NEW patch, put_config(c, patch)
         PROVE  cmd' = End(c, "unknown") /\ new_unknown_entity_keys(live, MergeOnto(patch)) # {}
    BY <2>2, <2>3, <2>13 DEF put_config
  <2>14. CASE PutWhole(c)
    BY <2>13, <2>14 DEF PutWhole, Serve
  <2>15. CASE PutPatch(c)
    BY <2>13, <2>15 DEF PutPatch, Serve
  <2> QED
    BY <1>2, <2>7, <2>8, <2>9, <2>10, <2>11, <2>12, <2>14, <2>15 DEF Step
<1> QED
  BY <1>1, <1>2

LEMMA TyposStep ==
    ASSUME TypeInv, TypoInv, [EditsNext]_editVars
    PROVE  /\ live' # NoPolicy => Foreign(live') \subseteq ghost'.basis
           /\ \A c \in Clis : (cmd'[c].result = "unknown" /\ cmd'[c].alone) => cmd'[c].req.set = "entity"
<1> USE DEF TypeInv, TypoInv
<1>0. /\ ProfileKeys \cap Entities = {} /\ EngineKeys \cap Entities = {}
      /\ DOMAIN ghost = {"overlay", "unread", "raced", "asked", "basis"}
  BY SpellingAssumption DEF ProfileKeys, EngineKeys, GhostInv
<1>a. ASSUME live # NoPolicy, DOMAIN live' \cap Entities \subseteq DOMAIN live, ghost'.basis = ghost.basis
      PROVE  Foreign(live') \subseteq ghost'.basis
  BY <1>a DEF Foreign
<1>1. live' # NoPolicy => Foreign(live') \subseteq ghost'.basis
  <2>1. ASSUME NEW c \in Clis, Step(c)
        PROVE  live' # NoPolicy => Foreign(live') \subseteq ghost'.basis
    <3>1. CASE UNCHANGED live /\ ghost'.basis = ghost.basis
      BY <3>1
    <3>2. CASE SetEnabled(c) \/ SetMl(c)
      BY <1>0, <1>a, <3>2 DEF SetEnabled, SetMl, Serve, Reachable
    <3>3. ASSUME NEW patch, put_config(c, patch), Serve(c, "put") \/ Serve(c, "patch")
          PROVE  live' # NoPolicy => Foreign(live') \subseteq ghost'.basis
      <4>1. live # NoPolicy
        BY <3>3 DEF Serve, Reachable
      <4>2. CASE UNCHANGED <<live, ghost>>
        BY <4>2
      <4>3. CASE ~UNCHANGED <<live, ghost>>
        <5>1. /\ new_unknown_entity_keys(live, MergeOnto(patch)) = {}
              /\ live' = MergeOnto(patch)
              /\ ghost' = [Overlaid(DOMAIN patch) EXCEPT
                    !.basis = @ \cup Declared(live'),
                    !.raced = @ \/ ("enabled" \in DOMAIN patch /\ patch["enabled"] # live["enabled"])]
          BY <3>3, <4>3 DEF put_config
        <5>2. ghost'.basis = ghost.basis \cup Declared(live')
          BY <1>0, <5>1 DEF Overlaid
        <5> QED
          BY <4>1, <5>1, <5>2, PutBringsNone
      <4> QED
        BY <4>2, <4>3
    <3>4. CASE ApplyProfile(c)
      <4>1. live # NoPolicy /\ live' = for_profile(cmd[c].req.value) ++ live
        BY <3>4 DEF ApplyProfile, Serve, Reachable
      <4>2. ghost'.basis = ghost.basis
        BY <1>0, <3>4 DEF ApplyProfile, Overlaid
      <4>3. DOMAIN live' = ProfileKeys \cup DOMAIN live
        <5>1. DOMAIN for_profile(cmd[c].req.value) = ProfileKeys
          BY ForProfile
        <5> QED
          BY <4>1, <5>1 DEF ++
      <4> QED
        BY <1>0, <1>a, <4>1, <4>2, <4>3
    <3>5. CASE Reload(c)
      <4>1. CASE load(files) = NoPolicy
        BY <1>0, <3>5, <4>1 DEF Reload
      <4>2. CASE load(files) # NoPolicy
        <5>1. live' = Reloaded(load(files)) /\ ghost'.basis = DOMAIN merged_value(files)
          BY <1>0, <3>5, <4>2 DEF Reload
        <5> QED
          BY <4>2, <5>1, ReloadedFacts, LoadFacts DEF Foreign
      <4> QED
        BY <4>1, <4>2
    <3>6. CASE WriteFile(c)
      BY <1>0, <3>6 DEF WriteFile
    <3> QED
      BY <2>1, <3>1, <3>2, <3>3, <3>4, <3>5, <3>6 DEF Step, Begin, Refuse, Base, ReadFile, Route,
         Fetch, PutWhole, PutPatch, ReloadBroker, Fail, Exit
  <2>2. CASE \E p \in Ports : Start(p)
    <3>1. live' = load(files) /\ load(files) # NoPolicy /\ ghost' = Started
      BY <2>2 DEF Start
    <3>2. ghost'.basis = DOMAIN merged_value(files)
      BY <3>1 DEF Started
    <3> QED
      BY <3>1, <3>2, LoadFacts DEF Foreign
  <2>3. CASE Stop
    BY <2>3 DEF Stop
  <2>4. ASSUME NEW l, NEW f, EditFile(l, f)
        PROVE  live' # NoPolicy => Foreign(live') \subseteq ghost'.basis
    BY <1>0, <2>4 DEF EditFile
  <2>5. CASE Clicks
    <3>1. live # NoPolicy /\ DOMAIN live' = DOMAIN live
      <4>1. CASE \E rule \in Rules : custom_mask(rule) \/ custom_masks_remove(rule)
        BY <4>1 DEF custom_mask, custom_masks_remove, Click
      <4>2. CASE \E ph \in Phrases : remask_keyphrase(ph)
        BY <4>2 DEF remask_keyphrase, Click
      <4>3. CASE \E ph \in Phrases : \E backing \in Rules \cup {NoRule} : reveal_keyphrase(ph, backing)
        BY <4>3 DEF reveal_keyphrase, Click
      <4> QED
        BY <2>5, <4>1, <4>2, <4>3 DEF Clicks
    <3>2. \E keys : ghost' = Overlaid(keys)
      BY <2>5 DEF Clicks, custom_mask, custom_masks_remove, remask_keyphrase, reveal_keyphrase
    <3>3. ghost'.basis = ghost.basis
      BY <1>0, <3>2 DEF Overlaid
    <3> QED
      BY <1>a, <3>1, <3>3
  <2>6. CASE UNCHANGED editVars
    BY <2>6 DEF editVars, vars
  <2> QED
    BY <2>1, <2>2, <2>3, <2>4, <2>5, <2>6 DEF EditsNext, Others, Next, Type, Garble
<1>2. ASSUME NEW c \in Clis, cmd'[c].result = "unknown", cmd'[c].alone
      PROVE  cmd'[c].req.set = "entity"
  <2>1. CASE OthersAct(c)
    BY <1>2, <2>1, OthersDisturb, NoCommandFacts
  <2>2. CASE Stop /\ reloading = c
    BY <1>2, <2>2, Interrupted
  <2>3. CASE \E d \in Clis \ {c} : Exit(d)
    BY <1>2, <2>3, ExitCmds
  <2>4. CASE UNCHANGED editVars
    BY <1>2, <2>4 DEF editVars, vars
  <2>5. CASE Step(c)
    <3>1. CASE cmd[c].result = "unknown" /\ Acts(c)
      BY <1>2, <3>1 DEF Acts
    <3>2. CASE Exit(c) \/ (\E r \in Requests : Begin(c, r))
      BY <1>2, <3>2, ExitCmds, BeginCmds, NoCommandFacts
    <3>3. CASE cmd[c].result # "unknown" /\ Acts(c)
      <4>1. PICK patch : /\ put_config(c, patch) /\ cmd' = End(c, "unknown")
                         /\ new_unknown_entity_keys(live, MergeOnto(patch)) # {}
                         /\ \/ At(c, "patch")
                            \/ At(c, "put") /\ patch = Change(c) ++ cmd[c].got
        BY <1>2, <2>5, <3>3, UnknownIsPut
      <4>2. cmd'[c].req = cmd[c].req /\ cmd[c].alone
        BY <1>2, <3>3 DEF Acts
      <4>3. CASE At(c, "patch")
        <5>1. /\ cmd[c].req \in Requests /\ Left(cmd[c].req, cmd[c].todo)
              /\ cmd[c].todo # <<>> /\ Head(cmd[c].todo) = "patch"
          BY <4>3, AtFacts DEF IsCommand
        <5>2. cmd[c].req.set = "entity"
          BY <5>1, LeftFacts
        <5> QED
          BY <4>2, <5>2
      <4>4. CASE At(c, "put") /\ patch = Change(c) ++ cmd[c].got
        BY <4>1, <4>2, <4>4, WholeBringsNone
      <4> QED
        BY <4>1, <4>3, <4>4
    <3> QED
      BY <2>5, <3>1, <3>2, <3>3, StepKinds
  <2> QED
    BY <2>1, <2>2, <2>3, <2>4, <2>5, ForOne
<1> QED
  BY <1>1, <1>2

LEMMA FirstPut == EditsInit => PutInv /\ TypoInv
  BY NoCommandFacts DEF EditsInit, Init, PutInv, TypoInv, At

(***************************************************************************)
(* A misspelt entity stays out of the live policy, whatever the control    *)
(* plane is asked and in whatever order, and one that a file brought in    *)
(* does not block a command about something else.                          *)
(***************************************************************************)
THEOREM TyposOut == EditsSpec => []TyposStayOut
<1>1. EditsInit => TypeInv /\ TypoInv
  BY TypeInit, FirstPut
<1>2. TypeInv /\ TypoInv /\ [EditsNext]_editVars => TypeInv' /\ TypoInv'
  <2> SUFFICES ASSUME TypeInv, TypoInv, [EditsNext]_editVars
               PROVE  TypeInv' /\ TypoInv'
    OBVIOUS
  <2>1. TypeInv'
    BY TypeStep
  <2>2. PutInv'
    BY PutStep DEF TypoInv
  <2> QED
    BY <2>1, <2>2, TyposStep DEF TypoInv
<1>3. TypeInv /\ TypoInv => TyposStayOut
  BY DEF TypoInv, TyposStayOut, Foreign, unknown_entity_types
<1> QED
  BY <1>1, <1>2, <1>3, PTL DEF EditsSpec

-----------------------------------------------------------------------------
(* The live policy and the files.                                          *)

\* Two documents, or two policies, that differ in these keys only.
Agree(f, g, S) ==
    /\ DOMAIN f \ S = DOMAIN g \ S
    /\ \A k \in DOMAIN f \ S : f[k] = g[k]

LEMMA AgreeRestrict ==
    \A f, g, S : RestrictTo(f, DOMAIN f \ S) = RestrictTo(g, DOMAIN g \ S) <=> Agree(f, g, S)
<1> SUFFICES ASSUME NEW f, NEW g, NEW S
             PROVE  RestrictTo(f, DOMAIN f \ S) = RestrictTo(g, DOMAIN g \ S) <=> Agree(f, g, S)
  OBVIOUS
<1> DEFINE A == DOMAIN f \ S
           B == DOMAIN g \ S
<1>1. \A T, U : RestrictTo(f, T) = RestrictTo(g, U) <=>
          /\ DOMAIN f \cap T = DOMAIN g \cap U
          /\ \A k \in DOMAIN f \cap T : f[k] = g[k]
  BY RestrictEqual, Zenon
<1>2. RestrictTo(f, A) = RestrictTo(g, B) <=>
          /\ DOMAIN f \cap A = DOMAIN g \cap B
          /\ \A k \in DOMAIN f \cap A : f[k] = g[k]
  BY <1>1, Zenon
<1>3. DOMAIN f \cap A = DOMAIN f \ S /\ DOMAIN g \cap B = DOMAIN g \ S
  OBVIOUS
<1> QED
  BY <1>2, <1>3 DEF Agree

\* Files whose documents differ in these keys only.
SameFiles(fs, gs, S) ==
    /\ DOMAIN fs = Layers /\ DOMAIN gs = Layers
    /\ \A l \in Layers : gs[l].ok = fs[l].ok /\ Agree(fs[l].doc, gs[l].doc, S)

LEMMA MergedAgree ==
    ASSUME NEW fs, NEW gs, NEW S, SameFiles(fs, gs, S)
    PROVE  Agree(merged_value(fs), merged_value(gs), S)
<1>1. \A l \in {"local", "project", "user"} : Agree(fs[l].doc, gs[l].doc, S)
  BY DEF SameFiles, Layers
<1>2. /\ DOMAIN fs["local"].doc \ S = DOMAIN gs["local"].doc \ S
      /\ DOMAIN fs["project"].doc \ S = DOMAIN gs["project"].doc \ S
      /\ DOMAIN fs["user"].doc \ S = DOMAIN gs["user"].doc \ S
      /\ \A k \in DOMAIN fs["local"].doc \ S : fs["local"].doc[k] = gs["local"].doc[k]
      /\ \A k \in DOMAIN fs["project"].doc \ S : fs["project"].doc[k] = gs["project"].doc[k]
      /\ \A k \in DOMAIN fs["user"].doc \ S : fs["user"].doc[k] = gs["user"].doc[k]
  BY <1>1 DEF Agree
<1>3. DOMAIN merged_value(fs) \ S = DOMAIN merged_value(gs) \ S
  <2>1. DOMAIN merged_value(fs)
            = DOMAIN fs["local"].doc \cup DOMAIN fs["project"].doc \cup DOMAIN fs["user"].doc
    BY MergedFacts
  <2>2. DOMAIN merged_value(gs)
            = DOMAIN gs["local"].doc \cup DOMAIN gs["project"].doc \cup DOMAIN gs["user"].doc
    BY MergedFacts
  <2> QED
    BY <1>2, <2>1, <2>2
<1>4. ASSUME NEW k \in DOMAIN merged_value(fs) \ S
      PROVE  merged_value(fs)[k] = merged_value(gs)[k]
  <2>1. k \in DOMAIN merged_value(fs) /\ k \in DOMAIN merged_value(gs) /\ k \notin S
    BY <1>3
  <2>2. merged_value(fs)[k] = IF k \in DOMAIN fs["local"].doc THEN fs["local"].doc[k]
                              ELSE IF k \in DOMAIN fs["project"].doc
                              THEN fs["project"].doc[k] ELSE fs["user"].doc[k]
    BY <2>1, MergedFacts
  <2>3. merged_value(gs)[k] = IF k \in DOMAIN gs["local"].doc THEN gs["local"].doc[k]
                              ELSE IF k \in DOMAIN gs["project"].doc
                              THEN gs["project"].doc[k] ELSE gs["user"].doc[k]
    BY <2>1, MergedFacts
  <2>4. k \in DOMAIN fs["local"].doc \cup DOMAIN fs["project"].doc \cup DOMAIN fs["user"].doc
    BY <2>1, MergedFacts
  <2> QED
    BY <1>2, <2>1, <2>2, <2>3, <2>4
<1> QED
  BY <1>3, <1>4 DEF Agree

\* Whether the files load, and what they broker, is decided by other keys than
\* the engine's own.
LEMMA BrokerAgrees ==
    ASSUME NEW fs, NEW gs, NEW S \in SUBSET EngineKeys, SameFiles(fs, gs, S)
    PROVE  /\ Loadable(fs) <=> Loadable(gs)
           /\ reload_broker_allows(fs) = reload_broker_allows(gs)
<1>1. "secrets" \notin S /\ "broker" \notin S
  BY DEF EngineKeys
<1>2. /\ "secrets" \in DOMAIN merged_value(fs) <=> "secrets" \in DOMAIN merged_value(gs)
      /\ "broker" \in DOMAIN merged_value(fs) <=> "broker" \in DOMAIN merged_value(gs)
      /\ "secrets" \in DOMAIN merged_value(fs) =>
             merged_value(fs)["secrets"] = merged_value(gs)["secrets"]
      /\ "broker" \in DOMAIN merged_value(fs) =>
             merged_value(fs)["broker"] = merged_value(gs)["broker"]
  BY <1>1, MergedAgree DEF Agree
<1>3. (\A l \in DOMAIN fs : fs[l].ok) <=> (\A l \in DOMAIN gs : gs[l].ok)
  BY DEF SameFiles
<1>4. Loadable(fs) <=> Loadable(gs)
  BY <1>2, <1>3 DEF Loadable, no_inline_secret_values
<1> QED
  BY <1>2, <1>4 DEF reload_broker_allows

LEMMA DeserializeAgree ==
    ASSUME NEW m, NEW n, NEW S \in SUBSET EngineKeys, Agree(m, n, S),
           "profile" \in S => ProfileKeys \subseteq S
    PROVE  Agree(Deserialize(m), Deserialize(n), S)
<1>1. EngineKeys \cap Entities = {}
  BY SpellingAssumption
<1>2. DOMAIN m \cap Entities = DOMAIN n \cap Entities
  BY <1>1 DEF Agree
<1>3. DOMAIN Deserialize(m) = EngineKeys \cup (DOMAIN m \cap Entities)
      /\ DOMAIN Deserialize(n) = EngineKeys \cup (DOMAIN m \cap Entities)
  BY <1>2, DeserializeFacts
<1>4. ASSUME NEW k \in EngineKeys \cup (DOMAIN m \cap Entities), k \notin S
      PROVE  Deserialize(m)[k] = Deserialize(n)[k]
  <2>1. Deserialize(m)[k] = IF k \in DOMAIN m THEN m[k] ELSE Fallback(Profile(m))[k]
    BY DeserializeFacts
  <2>2. Deserialize(n)[k] = IF k \in DOMAIN n THEN n[k] ELSE Fallback(Profile(n))[k]
    BY <1>2, DeserializeFacts
  <2>3. k \in DOMAIN m <=> k \in DOMAIN n
    BY <1>4 DEF Agree
  <2>4. CASE k \in DOMAIN m
    BY <1>4, <2>1, <2>2, <2>3, <2>4 DEF Agree
  <2>5. CASE k \notin DOMAIN m
    <3>1. k \in EngineKeys
      BY <2>5
    <3>2. Fallback(Profile(m))[k] = Fallback(Profile(n))[k]
      <4>1. CASE "profile" \in S
        <5>1. k \in EngineKeys \ ProfileKeys
          BY <1>4, <3>1, <4>1
        <5> QED
          BY <5>1, FallbackFacts
      <4>2. CASE "profile" \notin S
        BY <4>2 DEF Profile, Agree
      <4> QED
        BY <4>1, <4>2
    <3> QED
      BY <2>1, <2>2, <2>3, <2>5, <3>2
  <2> QED
    BY <2>4, <2>5
<1> QED
  BY <1>3, <1>4 DEF Agree

\* What the files amount to changes only where they do.
LEMMA LoadAgrees ==
    ASSUME NEW fs, NEW gs, NEW S \in SUBSET EngineKeys, SameFiles(fs, gs, S),
           "profile" \in S => ProfileKeys \subseteq S
    PROVE  /\ load(fs) # NoPolicy /\ load(gs) # NoPolicy => Agree(load(fs), load(gs), S)
           /\ S \cap ProfileKeys = {} => (load(fs) # NoPolicy <=> load(gs) # NoPolicy)
<1> DEFINE m == Deserialize(merged_value(fs))
           n == Deserialize(merged_value(gs))
<1>1. Agree(m, n, S)
  BY MergedAgree, DeserializeAgree
<1>2. load(fs) # NoPolicy <=> Loadable(fs) /\ AcceptedByPolicy(m)
  BY LoadFacts
<1>3. load(gs) # NoPolicy <=> Loadable(gs) /\ AcceptedByPolicy(n)
  BY LoadFacts
<1>4. load(fs) # NoPolicy => load(fs) = m
  BY LoadFacts
<1>5. load(gs) # NoPolicy => load(gs) = n
  BY LoadFacts
<1>6. "operator" \in DOMAIN m /\ "operator" \in DOMAIN n
  <2>1. "operator" \in EngineKeys
    BY DEF EngineKeys
  <2> QED
    BY <2>1, DeserializeFacts
<1> HIDE DEF m, n
<1>7. ASSUME S \cap ProfileKeys = {}
      PROVE  AcceptedByPolicy(m) <=> AcceptedByPolicy(n)
  <2>1. "operator" \notin S /\ Entities \cap S = {}
    BY <1>7, SpellingAssumption DEF ProfileKeys
  <2>2. DOMAIN m \cap Entities = DOMAIN n \cap Entities
    BY <1>1, <2>1 DEF Agree
  <2>3. \A k \in {"operator"} \cup (DOMAIN m \cap Entities) : m[k] = n[k]
    BY <1>1, <1>6, <2>1 DEF Agree
  <2> QED
    BY <2>2, <2>3 DEF AcceptedByPolicy
<1>8. Loadable(fs) <=> Loadable(gs)
  BY BrokerAgrees
<1> QED
  BY <1>1, <1>2, <1>3, <1>4, <1>5, <1>7, <1>8

LEMMA AgreeSame == \A f, S : Agree(f, f, S)
  BY DEF Agree

LEMMA AgreeChain ==
    \A f, g, h, S, T, U :
        Agree(f, g, S) /\ Agree(g, h, T) /\ S \subseteq U /\ T \subseteq U => Agree(f, h, U)
  BY DEF Agree

LEMMA AgreeSwap == \A f, g, S : Agree(f, g, S) => Agree(g, f, S)
  BY DEF Agree

LEMMA AgreeAlso ==
    \A f, g, S, T : /\ Agree(f, g, S)
                    /\ \A k \in S \ T : k \in DOMAIN f /\ k \in DOMAIN g /\ f[k] = g[k]
                    => Agree(f, g, T)
  BY DEF Agree

\* A change of one key, or of one overlay.
LEMMA AgreeExcept ==
    \A f, k, v : k \in DOMAIN f => Agree([f EXCEPT ![k] = v], f, {k})
  BY DEF Agree

LEMMA AgreeOver ==
    \A f, g : Agree(f ++ g, g, DOMAIN f)
  BY DEF Agree, ++

\* What the local file says of a key of the engine's is what is loaded.
LEMMA LocalWins ==
    ASSUME NEW fs, load(fs) # NoPolicy, NEW k \in EngineKeys, k \in DOMAIN fs["local"].doc
    PROVE  k \in DOMAIN load(fs) /\ load(fs)[k] = fs["local"].doc[k]
<1>1. load(fs) = Deserialize(merged_value(fs)) /\ EngineKeys \subseteq DOMAIN load(fs)
  BY LoadFacts
<1>2. k \in DOMAIN merged_value(fs) /\ merged_value(fs)[k] = fs["local"].doc[k]
  <2>1. k \in DOMAIN merged_value(fs)
    BY MergedFacts
  <2> QED
    BY <2>1, MergedFacts
<1> QED
  BY <1>1, <1>2, DeserializeFacts

\* The documents that the requests of the monitor write.
LEMMA WithRulesFacts ==
    ASSUME NEW doc, NEW rules
    PROVE  /\ Agree(doc, WithRules(doc, rules), {"rules"})
           /\ rules = <<>> => "rules" \notin DOMAIN WithRules(doc, rules)
           /\ rules # <<>> => /\ "rules" \in DOMAIN WithRules(doc, rules)
                              /\ WithRules(doc, rules)["rules"] = rules
<1>1. CASE rules = <<>>
  <2>1. WithRules(doc, rules) = RestrictTo(doc, DOMAIN doc \ {"rules"})
    BY <1>1 DEF WithRules
  <2> QED
    BY <1>1, <2>1 DEF RestrictTo, Agree
<1>2. CASE rules # <<>>
  <2>1. WithRules(doc, rules) = Entry("rules", rules) ++ doc
    BY <1>2 DEF WithRules
  <2> QED
    BY <1>2, <2>1 DEF Agree, ++, Entry
<1> QED
  BY <1>1, <1>2

LEMMA AllowListFacts ==
    ASSUME NEW doc, NEW policy
    PROVE  LET d == persist_local_allow_lists(doc, policy)
           IN  /\ Agree(doc, d, {"exact", "exact_ci"})
               /\ {"exact", "exact_ci"} \subseteq DOMAIN d
               /\ d["exact"] = policy["exact"] /\ d["exact_ci"] = policy["exact_ci"]
  BY DEF persist_local_allow_lists, Agree, ++

\* The rules of the local file go at most where a rule is dropped.
LEMMA RemovalAgrees ==
    ASSUME NEW doc, NEW ph
    PROVE  Agree(doc, remove_custom_replacement(doc, ph), {"rules"})
<1>1. CASE "rules" \in DOMAIN doc /\ form["local"] = "table"
  BY <1>1, WithRulesFacts DEF remove_custom_replacement
<1>2. CASE ~("rules" \in DOMAIN doc /\ form["local"] = "table")
  BY <1>2, AgreeSame DEF remove_custom_replacement
<1> QED
  BY <1>1, <1>2

LEMMA SavedFacts ==
    ASSUME FilesInv, NEW can \in BOOLEAN, can => Persists,
           NEW d, NEW S, Agree(files["local"].doc, d, S), files' = Saved(can, d)
    PROVE  /\ SameFiles(files, files', S)
           /\ can => files'["local"].doc = d
           /\ ~can => files' = files
           /\ \A l \in Layers \ {"local"} : files'[l] = files[l]
<1>1. "local" \in Layers /\ DOMAIN files = Layers /\ DOMAIN files["local"] = {"ok", "doc"}
  BY DEF Layers, FilesInv
<1>2. CASE can
  <2>1. files' = [files EXCEPT !["local"] = [files["local"] EXCEPT !.doc = d]]
    BY <1>2 DEF Saved
  <2>2. /\ DOMAIN files' = Layers
        /\ files'["local"].ok = files["local"].ok /\ files'["local"].doc = d
        /\ \A l \in Layers \ {"local"} : files'[l] = files[l]
    BY <1>1, <2>1
  <2>3. \A l \in Layers : files'[l].ok = files[l].ok /\ Agree(files[l].doc, files'[l].doc, S)
    BY <2>2, AgreeSame
  <2> QED
    BY <1>1, <1>2, <2>2, <2>3 DEF SameFiles
<1>3. CASE ~can
  <2>1. files' = files
    BY <1>3 DEF Saved
  <2> QED
    BY <1>1, <1>3, <2>1, AgreeSame DEF SameFiles
<1> QED
  BY <1>2, <1>3

\* Where a request of the monitor may write.
LEMMA PersistFacts ==
    ASSUME FilesInv
    PROVE  /\ Persists \in BOOLEAN /\ RulePersists \in BOOLEAN
           /\ RulePersists => Persists
           /\ load(files) # NoPolicy => Persists
<1>1. "local" \in Layers /\ DOMAIN files = Layers
  BY DEF Layers, FilesInv
<1>2. Persists \in BOOLEAN /\ (RulePersists => Persists) /\ RulePersists \in BOOLEAN
  BY <1>1 DEF Persists, RulePersists, FilesInv
<1>3. ~Persists => ~Loadable(files)
  BY <1>1 DEF Persists, Loadable
<1> QED
  BY <1>2, <1>3, LoadFacts

\* Every request of the monitor changes the lists only.
LEMMA ClickFiles ==
    ASSUME FilesInv, Clicks
    PROVE  SameFiles(files, files', Lists)
<1>1. {"rules"} \subseteq Lists /\ {"exact", "exact_ci"} \subseteq Lists
  BY DEF Lists
<1> DEFINE doc == files["local"].doc
<1>2. ASSUME NEW rule \in Rules, custom_mask(rule)
      PROVE  SameFiles(files, files', Lists)
  <2> DEFINE d == WithRules(doc, Append(Local("rules", <<>>), rule))
  <2>1. files' = Saved(RulePersists, d)
    BY <1>2 DEF custom_mask, persist_custom_replacement
  <2>3. Agree(doc, d, {"rules"})
    BY WithRulesFacts
  <2> HIDE DEF d
  <2>2. Agree(doc, d, Lists)
    BY <1>1, <2>3, AgreeSame, AgreeChain
  <2> QED
    BY <2>1, <2>2, PersistFacts, SavedFacts
<1>3. ASSUME NEW rule \in Rules, custom_masks_remove(rule)
      PROVE  SameFiles(files, files', Lists)
  <2> DEFINE d == remove_custom_replacement(doc, rule)
  <2>1. files' = Saved(Persists, d)
    BY <1>3 DEF custom_masks_remove
  <2>2. Agree(doc, d, Lists)
    BY <1>1, RemovalAgrees, AgreeSame, AgreeChain
  <2> HIDE DEF d
  <2> QED
    BY <2>1, <2>2, PersistFacts, SavedFacts
<1>4. ASSUME NEW x \in {doc} \cup {remove_custom_replacement(doc, rule) : rule \in Rules \cup {NoRule}},
             files' = Saved(Persists, persist_local_allow_lists(x, live'))
      PROVE  SameFiles(files, files', Lists)
  <2> DEFINE d == persist_local_allow_lists(x, live')
  <2>1. Agree(doc, x, {"rules"})
    BY AgreeSame, RemovalAgrees
  <2>2. Agree(x, d, {"exact", "exact_ci"})
    BY AllowListFacts
  <2>3. files' = Saved(Persists, d)
    BY <1>4
  <2> HIDE DEF d
  <2>4. Agree(doc, d, Lists)
    BY <1>1, <2>1, <2>2, AgreeChain
  <2> QED
    BY <2>3, <2>4, PersistFacts, SavedFacts
<1>5. ASSUME NEW ph \in Phrases, remask_keyphrase(ph)
      PROVE  SameFiles(files, files', Lists)
  BY <1>4, <1>5 DEF remask_keyphrase
<1>6. ASSUME NEW ph \in Phrases, NEW backing \in Rules \cup {NoRule}, reveal_keyphrase(ph, backing)
      PROVE  SameFiles(files, files', Lists)
  <2>1. PICK x \in {doc, remove_custom_replacement(doc, backing)} :
            files' = Saved(Persists, persist_local_allow_lists(x, live'))
    BY <1>6 DEF reveal_keyphrase
  <2> QED
    BY <1>4, <2>1
<1> QED
  BY <1>2, <1>3, <1>5, <1>6 DEF Clicks

\* A profile changes the keys of a profile only.
LEMMA ProfileFiles ==
    ASSUME CmdsInv, FilesInv, NEW c \in Clis, ApplyProfile(c)
    PROVE  /\ SameFiles(files, files', ProfileKeys)
           /\ cmd[c].req.scope = "session" => files' = files
           /\ cmd[c].req.scope # "session" => cmd[c].req.scope \in Layers
<1> DEFINE s == cmd[c].req.scope
           p == cmd[c].req.value
           f == persist_profile(files[s], p)
<1>1. CASE s = "session"
  <2>1. files' = files
    BY <1>1 DEF ApplyProfile
  <2> QED
    BY <1>1, <2>1, AgreeSame DEF SameFiles, FilesInv
<1>2. CASE s # "session"
  <2>1. At(c, "profile") /\ files' = [files EXCEPT ![s] = persist_profile(@, p)]
    BY <1>2 DEF ApplyProfile, Serve
  <2>2. s \in Layers
    BY <1>2, <2>1, AtFacts, RequestAssumption DEF IsCommand
  <2>3. files' = [files EXCEPT ![s] = f]
        /\ DOMAIN files = Layers /\ DOMAIN files[s] = {"ok", "doc"}
    BY <2>1, <2>2 DEF FilesInv
  <2>4. f.ok = files[s].ok /\ Agree(files[s].doc, f.doc, ProfileKeys)
    <3>1. CASE files[s].ok
      <4>1. f = [files[s] EXCEPT !.doc = for_profile(p) ++ files[s].doc]
        BY <3>1 DEF persist_profile
      <4>2. f.ok = files[s].ok /\ f.doc = for_profile(p) ++ files[s].doc
        BY <2>3, <4>1
      <4>3. Agree(for_profile(p) ++ files[s].doc, files[s].doc, ProfileKeys)
        BY ForProfile, AgreeOver
      <4> QED
        BY <4>2, <4>3, AgreeSwap
    <3>2. CASE ~files[s].ok
      BY <3>2, AgreeSame DEF persist_profile
    <3> QED
      BY <3>1, <3>2
  <2> HIDE DEF s, p, f
  <2>5. /\ DOMAIN files' = Layers /\ files'[s] = f
        /\ \A l \in Layers \ {s} : files'[l] = files[l]
    BY <2>2, <2>3
  <2>6. SameFiles(files, files', ProfileKeys)
    BY <2>3, <2>4, <2>5, AgreeSame DEF SameFiles
  <2> QED
    BY <1>2, <2>2, <2>6 DEF s
<1> QED
  BY <1>1, <1>2

\* The three parts of LiveFollowsFiles, the second in terms of Agree.
BrokerFollows ==
    live # NoPolicy /\ ~ghost.unread /\ reloading = Nobody /\ broker = "allow"
        => reload_broker_allows(files) = "allow"

PolicyFollows ==
    live # NoPolicy /\ ~ghost.unread /\ load(files) # NoPolicy
        => Agree(live, load(files), ghost.overlay \cup {"enabled", "ml"})

SwitchStands == live # NoPolicy /\ ~ghost.raced => live["enabled"] = ghost.asked

LEMMA OverlaidFacts ==
    ASSUME GhostInv, NEW keys
    PROVE  /\ DOMAIN Overlaid(keys) = DOMAIN ghost
           /\ Overlaid(keys).overlay = ghost.overlay \cup keys
           /\ Overlaid(keys).unread = ghost.unread /\ Overlaid(keys).raced = ghost.raced
           /\ Overlaid(keys).asked = ghost.asked /\ Overlaid(keys).basis = ghost.basis
  BY DEF Overlaid, GhostInv

\* What a click does to the live policy: the lists only.
LEMMA ClickLive ==
    ASSUME LiveInv, Clicks
    PROVE  /\ live # NoPolicy /\ reloading = Nobody
           /\ UNCHANGED <<broker, port, reloading>>
           /\ Agree(live', live, Lists)
           /\ \E keys : ghost' = Overlaid(keys)
<1>1. live # NoPolicy /\ reloading = Nobody /\ UNCHANGED <<broker, port, reloading>>
      /\ \E keys : ghost' = Overlaid(keys)
  BY DEF Clicks, custom_mask, custom_masks_remove, remask_keyphrase, reveal_keyphrase, Click
<1>2. Lists \subseteq EngineKeys /\ EngineKeys \subseteq DOMAIN live
  BY <1>1 DEF Lists, EngineKeys, LiveInv
<1>3. DOMAIN live' = DOMAIN live /\ \A k \in DOMAIN live \ Lists : live'[k] = live[k]
  <2>1. CASE \E rule \in Rules : custom_mask(rule) \/ custom_masks_remove(rule)
    BY <2>1 DEF custom_mask, custom_masks_remove, Lists
  <2>2. CASE \E ph \in Phrases : remask_keyphrase(ph)
    BY <2>2 DEF remask_keyphrase, Lists
  <2>3. CASE \E ph \in Phrases : \E backing \in Rules \cup {NoRule} : reveal_keyphrase(ph, backing)
    BY <2>3 DEF reveal_keyphrase, Lists
  <2> QED
    BY <2>1, <2>2, <2>3 DEF Clicks
<1> QED
  BY <1>1, <1>3 DEF Agree

LEMMA SwitchStep ==
    ASSUME TypeInv, SwitchStands, [EditsNext]_editVars
    PROVE  SwitchStands'
<1> USE DEF TypeInv
<1>0. "enabled" \in EngineKeys /\ "enabled" \notin Lists /\ "enabled" \notin ProfileKeys
  BY DEF EngineKeys, Lists, ProfileKeys
<1>1. ASSUME NEW c \in Clis, Step(c)
      PROVE  SwitchStands'
  <2>1. CASE UNCHANGED <<live, ghost>>
    BY <2>1 DEF SwitchStands
  <2>2. CASE SetEnabled(c)
    <3>1. live # NoPolicy /\ live' = [live EXCEPT !["enabled"] = cmd[c].req.value]
          /\ ghost' = [ghost EXCEPT !.asked = cmd[c].req.value, !.raced = FALSE]
      BY <2>2 DEF SetEnabled, Serve, Reachable
    <3>2. "enabled" \in DOMAIN live /\ {"asked", "raced"} \subseteq DOMAIN ghost
      BY <1>0, <3>1 DEF LiveInv, GhostInv
    <3>3. live'["enabled"] = cmd[c].req.value /\ ghost'.asked = cmd[c].req.value
      BY <3>1, <3>2
    <3> QED
      BY <3>3 DEF SwitchStands
  <2>3. CASE SetMl(c)
    <3>1. live # NoPolicy /\ live' = [live EXCEPT !["ml"] = cmd[c].req.value] /\ UNCHANGED ghost
      BY <2>3 DEF SetMl, Serve, Reachable
    <3>2. "enabled" \in DOMAIN live
      BY <1>0, <3>1 DEF LiveInv
    <3>3. live'["enabled"] = live["enabled"]
      BY <3>1, <3>2
    <3> QED
      BY <3>1, <3>3 DEF SwitchStands
  <2>4. ASSUME NEW patch, live # NoPolicy, put_config(c, patch), live' # live
        PROVE  SwitchStands'
    <3>1. /\ live' = MergeOnto(patch)
          /\ ghost' = [Overlaid(DOMAIN patch) EXCEPT
              !.basis = @ \cup Declared(live'),
              !.raced = @ \/ ("enabled" \in DOMAIN patch /\ patch["enabled"] # live["enabled"])]
      BY <2>4 DEF put_config
    <3>2. "enabled" \in DOMAIN live /\ DOMAIN ghost = {"overlay", "unread", "raced", "asked", "basis"}
      BY <1>0, <2>4 DEF LiveInv, GhostInv
    <3>3. live'["enabled"] = IF "enabled" \in DOMAIN patch THEN patch["enabled"] ELSE live["enabled"]
      BY <2>4, <3>1, <3>2, PutFacts
    <3> DEFINE g == Overlaid(DOMAIN patch)
               b == g.raced \/ ("enabled" \in DOMAIN patch /\ patch["enabled"] # live["enabled"])
    <3>4. DOMAIN g = DOMAIN ghost /\ g.raced = ghost.raced /\ g.asked = ghost.asked
      BY OverlaidFacts
    <3>5. \E e : ghost' = [g EXCEPT !.basis = e, !.raced = b]
      BY <3>1
    <3>6. b <=> ghost.raced \/ ("enabled" \in DOMAIN patch /\ patch["enabled"] # live["enabled"])
      BY <3>4
    <3> HIDE DEF g, b
    <3>7. ghost'.raced = b /\ ghost'.asked = ghost.asked
      BY <3>2, <3>4, <3>5
    <3> QED
      BY <2>4, <3>3, <3>6, <3>7 DEF SwitchStands
  <2>5. CASE (PutWhole(c) \/ PutPatch(c)) /\ ~UNCHANGED <<live, ghost>>
    <3>1. PICK patch : put_config(c, patch)
      BY <2>5 DEF PutWhole, PutPatch
    <3>2. live # NoPolicy
      BY <2>5 DEF PutWhole, PutPatch, Serve, Reachable
    <3>3. CASE live' # live
      BY <2>4, <3>1, <3>2, <3>3
    <3>4. CASE live' = live
      <4>1. ghost' = [Overlaid(DOMAIN patch) EXCEPT
              !.basis = @ \cup Declared(live'),
              !.raced = @ \/ ("enabled" \in DOMAIN patch /\ patch["enabled"] # live["enabled"])]
        BY <2>5, <3>1, <3>4 DEF put_config
      <4> DEFINE g == Overlaid(DOMAIN patch)
                 b == g.raced \/ ("enabled" \in DOMAIN patch /\ patch["enabled"] # live["enabled"])
      <4>2. DOMAIN g = {"overlay", "unread", "raced", "asked", "basis"}
            /\ g.raced = ghost.raced /\ g.asked = ghost.asked
        BY OverlaidFacts DEF GhostInv
      <4>3. (\E e : ghost' = [g EXCEPT !.basis = e, !.raced = b]) /\ (ghost.raced => b)
        BY <4>1, <4>2
      <4> HIDE DEF g, b
      <4>4. ghost'.raced = b /\ ghost'.asked = ghost.asked
        BY <4>2, <4>3
      <4> QED
        BY <3>4, <4>3, <4>4 DEF SwitchStands
    <3> QED
      BY <3>3, <3>4
  <2>6. CASE ApplyProfile(c)
    <3> DEFINE o == for_profile(cmd[c].req.value)
    <3>1. live # NoPolicy /\ live' = o ++ live
      BY <2>6 DEF ApplyProfile, Serve, Reachable
    <3>2. "enabled" \in DOMAIN live /\ DOMAIN o = ProfileKeys
      BY <1>0, <3>1, ForProfile DEF LiveInv
    <3> HIDE DEF o
    <3>3. live'["enabled"] = live["enabled"]
      BY <1>0, <3>1, <3>2, OverValue
    <3>4. ghost'.raced = ghost.raced /\ ghost'.asked = ghost.asked
      <4>1. ghost' = Overlaid(DOMAIN o) \/ \E u : ghost' = [Overlaid(DOMAIN o) EXCEPT !.unread = u]
        BY <2>6 DEF ApplyProfile, o
      <4> DEFINE g == Overlaid(DOMAIN o)
      <4>2. DOMAIN g = {"overlay", "unread", "raced", "asked", "basis"}
            /\ g.raced = ghost.raced /\ g.asked = ghost.asked
        BY OverlaidFacts DEF GhostInv
      <4>3. ghost' = g \/ \E u : ghost' = [g EXCEPT !.unread = u]
        BY <4>1
      <4> HIDE DEF g
      <4> QED
        BY <4>2, <4>3
    <3> QED
      BY <3>1, <3>3, <3>4 DEF SwitchStands
  <2>7. CASE Reload(c) /\ ~UNCHANGED <<live, ghost>>
    <3>1. ghost'.raced = ghost.raced /\ ghost'.asked = ghost.asked /\ live # NoPolicy
      BY <2>7 DEF Reload, GhostInv, Serve, Reachable
    <3>2. live' = live \/ (load(files) # NoPolicy /\ live' = Reloaded(load(files)))
      BY <2>7 DEF Reload
    <3>3. live'["enabled"] = live["enabled"]
      BY <3>2, ReloadedFacts
    <3> QED
      BY <3>1, <3>3 DEF SwitchStands
  <2>8. CASE WriteFile(c)
    BY <2>8 DEF WriteFile, SwitchStands, GhostInv
  <2> QED
    BY <1>1, <2>1, <2>2, <2>3, <2>5, <2>6, <2>7, <2>8
       DEF Step, Begin, Refuse, Base, ReadFile, Route, Fetch, ReloadBroker, Fail, Exit
<1>2. CASE (\E p \in Ports : Start(p)) \/ Stop \/ (\E e \in Edits : Type(e))
           \/ (\E l \in {e[1] : e \in Edits} : Garble(l))
  <2>1. CASE \E p \in Ports : Start(p)
    <3>1. live' = load(files) /\ ghost'.asked = load(files)["enabled"]
      BY <2>1 DEF Start, Started
    <3> QED
      BY <3>1 DEF SwitchStands
  <2>2. CASE Stop
    BY <2>2 DEF Stop, SwitchStands
  <2>3. ASSUME NEW l, NEW f, EditFile(l, f)
        PROVE  SwitchStands'
    BY <2>3 DEF EditFile, GhostInv, SwitchStands
  <2> QED
    BY <1>2, <2>1, <2>2, <2>3 DEF Type, Garble
<1>3. CASE Clicks
  <2>1. PICK keys : ghost' = Overlaid(keys)
    BY <1>3, ClickLive
  <2>2. ghost'.raced = ghost.raced /\ ghost'.asked = ghost.asked
    BY <2>1, OverlaidFacts
  <2>3. live # NoPolicy /\ Agree(live', live, Lists)
    BY <1>3, ClickLive
  <2>4. "enabled" \in DOMAIN live
    BY <1>0, <2>3 DEF LiveInv
  <2>5. live'["enabled"] = live["enabled"]
    BY <1>0, <2>3, <2>4 DEF Agree
  <2> QED
    BY <2>2, <2>3, <2>5 DEF SwitchStands
<1>4. CASE UNCHANGED editVars
  BY <1>4 DEF editVars, vars, SwitchStands
<1> QED
  BY <1>1, <1>2, <1>3, <1>4 DEF EditsNext, Others, Next

LEMMA BrokerStep ==
    ASSUME TypeInv, BrokerFollows, [EditsNext]_editVars
    PROVE  BrokerFollows'
<1> USE DEF TypeInv
<1>0. ProfileKeys \subseteq EngineKeys /\ Lists \subseteq EngineKeys
  BY DEF ProfileKeys, Lists, EngineKeys
<1> SUFFICES ASSUME live' # NoPolicy, ~ghost'.unread, reloading' = Nobody, broker' = "allow"
             PROVE  reload_broker_allows(files') = "allow"
  BY DEF BrokerFollows
<1>9. ASSUME live # NoPolicy, ~ghost.unread, reloading = Nobody, broker = "allow",
             reload_broker_allows(files') = reload_broker_allows(files)
      PROVE  reload_broker_allows(files') = "allow"
  BY <1>9 DEF BrokerFollows
<1>1. ASSUME NEW c \in Clis, Step(c)
      PROVE  reload_broker_allows(files') = "allow"
  <2>1. CASE UNCHANGED <<files, broker, reloading>> /\ ghost'.unread = ghost.unread
                  /\ (live' # NoPolicy => live # NoPolicy)
    BY <2>1, <1>9
  <2>2. CASE SetEnabled(c) \/ SetMl(c)
    BY <2>1, <2>2 DEF SetEnabled, SetMl, GhostInv, Serve, Reachable
  <2>3. CASE PutWhole(c) \/ PutPatch(c)
    <3>1. PICK patch : put_config(c, patch)
      BY <2>3 DEF PutWhole, PutPatch
    <3>2. live # NoPolicy
      BY <2>3 DEF PutWhole, PutPatch, Serve, Reachable
    <3>3. ghost'.unread = ghost.unread
      <4>1. CASE UNCHANGED ghost
        BY <4>1
      <4>2. CASE ~UNCHANGED ghost
        <5>1. \E b, e : ghost' = [Overlaid(DOMAIN patch) EXCEPT !.basis = e, !.raced = b]
          BY <3>1, <4>2 DEF put_config
        <5> DEFINE g == Overlaid(DOMAIN patch)
        <5>2. DOMAIN g = {"overlay", "unread", "raced", "asked", "basis"}
              /\ g.unread = ghost.unread
          BY OverlaidFacts DEF GhostInv
        <5>3. \E b, e : ghost' = [g EXCEPT !.basis = e, !.raced = b]
          BY <5>1
        <5> HIDE DEF g
        <5> QED
          BY <5>2, <5>3
      <4> QED
        BY <4>1, <4>2
    <3> QED
      BY <2>1, <3>1, <3>2, <3>3 DEF put_config
  <2>4. CASE ApplyProfile(c)
    <3>1. SameFiles(files, files', ProfileKeys)
      BY <2>4, ProfileFiles
    <3>2. reload_broker_allows(files) = reload_broker_allows(files')
      BY <1>0, <3>1, BrokerAgrees
    <3>3. live # NoPolicy /\ reloading = Nobody /\ UNCHANGED broker
      BY <2>4 DEF ApplyProfile, Serve, Reachable
    <3>4. ~ghost.unread
      <4> DEFINE g == Overlaid(DOMAIN for_profile(cmd[c].req.value))
      <4>1. ghost' = g \/ ghost' = [g EXCEPT !.unread =
                g.unread \/ (files[cmd[c].req.scope].ok /\ load(files) = NoPolicy)]
        BY <2>4 DEF ApplyProfile
      <4>2. DOMAIN g = {"overlay", "unread", "raced", "asked", "basis"}
            /\ g.unread = ghost.unread
        BY OverlaidFacts DEF GhostInv
      <4> HIDE DEF g
      <4>3. ghost'.unread = g.unread \/ ghost'.unread
                = (g.unread \/ (files[cmd[c].req.scope].ok /\ load(files) = NoPolicy))
        BY <4>1, <4>2
      <4> QED
        BY <4>2, <4>3
    <3> QED
      BY <1>9, <3>2, <3>3, <3>4
  <2>5. CASE Reload(c)
    BY <2>5, NameAssumption DEF Reload
  <2>6. CASE ReloadBroker(c)
    BY <2>6 DEF ReloadBroker
  <2>7. CASE WriteFile(c)
    BY <2>7 DEF WriteFile, GhostInv
  <2> QED
    BY <1>1, <2>1, <2>2, <2>3, <2>4, <2>5, <2>6, <2>7
       DEF Step, Begin, Refuse, Base, ReadFile, Route, Fetch, Fail, Exit
<1>2. CASE (\E p \in Ports : Start(p)) \/ Stop \/ (\E e \in Edits : Type(e))
           \/ (\E l \in {e[1] : e \in Edits} : Garble(l))
  <2>1. CASE (\E p \in Ports : Start(p)) \/ Stop
    BY <2>1 DEF Start, Stop
  <2>3. ASSUME NEW l, NEW f, EditFile(l, f)
        PROVE  FALSE
    BY <2>3 DEF EditFile, GhostInv
  <2> QED
    BY <1>2, <2>1, <2>3 DEF Type, Garble
<1>3. CASE Clicks
  <2>1. SameFiles(files, files', Lists)
    BY <1>3, ClickFiles
  <2>2. reload_broker_allows(files) = reload_broker_allows(files')
    BY <1>0, <2>1, BrokerAgrees
  <2>3. live # NoPolicy /\ reloading = Nobody /\ UNCHANGED broker /\ ghost'.unread = ghost.unread
    BY <1>3, ClickLive, OverlaidFacts
  <2> QED
    BY <1>9, <2>2, <2>3
<1>4. CASE UNCHANGED editVars
  BY <1>4, <1>9 DEF editVars, vars
<1> QED
  BY <1>1, <1>2, <1>3, <1>4 DEF EditsNext, Others, Next

LEMMA PolicyStep ==
    ASSUME TypeInv, PolicyFollows, [EditsNext]_editVars
    PROVE  PolicyFollows'
<1> USE DEF TypeInv
<1> DEFINE theirs == ghost.overlay \cup {"enabled", "ml"}
<1>0. /\ ProfileKeys \subseteq EngineKeys /\ Lists \subseteq EngineKeys
      /\ "profile" \in ProfileKeys /\ "profile" \notin Lists /\ Lists \cap ProfileKeys = {}
      /\ {"enabled", "ml", "rules", "exact", "exact_ci"} \subseteq EngineKeys
  BY DEF ProfileKeys, Lists, EngineKeys
<1> SUFFICES ASSUME live' # NoPolicy, ~ghost'.unread, load(files') # NoPolicy
             PROVE  Agree(live', load(files'), ghost'.overlay \cup {"enabled", "ml"})
  BY DEF PolicyFollows
<1>8. ASSUME NEW S, live # NoPolicy, ~ghost.unread, load(files) # NoPolicy,
             Agree(live', live, S), Agree(load(files), load(files'), S),
             NEW U, theirs \subseteq U, S \subseteq U
      PROVE  Agree(live', load(files'), U)
  <2>1. Agree(live, load(files), theirs)
    BY <1>8 DEF PolicyFollows
  <2> HIDE DEF theirs
  <2>2. Agree(live', load(files), U)
    BY <2>1, <1>8, AgreeChain
  <2>3. U \subseteq U
    OBVIOUS
  <2> QED
    BY <1>8, <2>2, <2>3, AgreeChain
<1>9. ASSUME NEW S, live # NoPolicy, ~ghost.unread, UNCHANGED files, Agree(live', live, S),
             ghost.overlay \subseteq ghost'.overlay,
             S \subseteq ghost'.overlay \cup {"enabled", "ml"}
      PROVE  Agree(live', load(files'), ghost'.overlay \cup {"enabled", "ml"})
  BY <1>8, <1>9, AgreeSame
<1>1. ASSUME NEW c \in Clis, Step(c)
      PROVE  Agree(live', load(files'), ghost'.overlay \cup {"enabled", "ml"})
  <2>1. CASE UNCHANGED <<files, live, ghost>>
    BY <2>1 DEF PolicyFollows
  <2>2. CASE SetEnabled(c) \/ SetMl(c)
    <3>1. live # NoPolicy /\ UNCHANGED files
          /\ \/ \E v : live' = [live EXCEPT !["enabled"] = v]
             \/ \E v : live' = [live EXCEPT !["ml"] = v]
      BY <2>2 DEF SetEnabled, SetMl, Serve, Reachable
    <3>2. PICK k, v : k \in {"enabled", "ml"} /\ live' = [live EXCEPT ![k] = v]
      BY <3>1
    <3>3. k \in DOMAIN live
      BY <1>0, <3>1, <3>2 DEF LiveInv
    <3>4. Agree(live', live, {k})
      BY <3>2, <3>3, AgreeExcept
    <3>5. ghost'.overlay = ghost.overlay /\ ghost'.unread = ghost.unread
      BY <2>2 DEF SetEnabled, SetMl, GhostInv
    <3> QED
      BY <1>9, <3>1, <3>2, <3>4, <3>5
  <2>3. CASE (PutWhole(c) \/ PutPatch(c)) /\ ~UNCHANGED <<live, ghost>>
    <3>1. PICK patch : put_config(c, patch)
      BY <2>3 DEF PutWhole, PutPatch
    <3>2. live # NoPolicy
      BY <2>3 DEF PutWhole, PutPatch, Serve, Reachable
    <3>3. /\ UNCHANGED files /\ live' = MergeOnto(patch)
          /\ \E b, e : ghost' = [Overlaid(DOMAIN patch) EXCEPT !.basis = e, !.raced = b]
      BY <2>3, <3>1 DEF put_config
    <3>4. ghost'.unread = ghost.unread /\ ghost'.overlay = ghost.overlay \cup DOMAIN patch
      <4> DEFINE g == Overlaid(DOMAIN patch)
      <4>1. DOMAIN g = {"overlay", "unread", "raced", "asked", "basis"}
            /\ g.unread = ghost.unread /\ g.overlay = ghost.overlay \cup DOMAIN patch
        BY OverlaidFacts DEF GhostInv
      <4>2. \E b, e : ghost' = [g EXCEPT !.basis = e, !.raced = b]
        BY <3>3
      <4> HIDE DEF g
      <4> QED
        BY <4>1, <4>2
    <3>5. "ml" \in DOMAIN live
      BY <1>0, <3>2 DEF LiveInv
    <3>6. Agree(MergeOnto(patch), live, DOMAIN patch \cup {"ml"})
      BY <3>2, <3>5, PutFacts DEF Agree
    <3> QED
      BY <1>9, <3>2, <3>3, <3>4, <3>6
  <2>4. CASE ApplyProfile(c)
    <3> DEFINE o == for_profile(cmd[c].req.value)
               g == Overlaid(DOMAIN o)
               s == cmd[c].req.scope
    <3>1. live # NoPolicy /\ live' = o ++ live
      BY <2>4 DEF ApplyProfile, Serve, Reachable
    <3>2. DOMAIN o = ProfileKeys
      BY ForProfile
    <3>3. Agree(live', live, ProfileKeys)
      BY <3>1, <3>2, AgreeOver
    <3>4. /\ DOMAIN g = {"overlay", "unread", "raced", "asked", "basis"}
          /\ g.unread = ghost.unread /\ g.overlay = ghost.overlay \cup ProfileKeys
      BY <3>2, OverlaidFacts DEF GhostInv
    <3>5. CASE s = "session"
      <4>1. ghost' = g /\ UNCHANGED files
        BY <2>4, <3>5 DEF ApplyProfile
      <4> HIDE DEF g, o, s
      <4> QED
        BY <1>9, <3>1, <3>3, <3>4, <4>1
    <3>6. CASE s # "session"
      <4>1. ghost' = [g EXCEPT !.unread = g.unread \/ (files[s].ok /\ load(files) = NoPolicy)]
        BY <2>4, <3>6 DEF ApplyProfile
      <4>2. SameFiles(files, files', ProfileKeys) /\ s \in Layers
        BY <2>4, <3>6, ProfileFiles
      <4> HIDE DEF g, o, s
      <4>3. ghost'.overlay = ghost.overlay \cup ProfileKeys
            /\ (ghost'.unread = (ghost.unread \/ (files[s].ok /\ load(files) = NoPolicy)))
        BY <3>4, <4>1
      <4>4. files[s].ok
        <5>1. Loadable(files') /\ Loadable(files)
          BY <1>0, <4>2, BrokerAgrees, LoadFacts
        <5> QED
          BY <4>2, <5>1 DEF Loadable, FilesInv
      <4>5. load(files) # NoPolicy /\ ~ghost.unread
        BY <4>3, <4>4
      <4>6. Agree(load(files), load(files'), ProfileKeys)
        BY <1>0, <4>2, <4>5, LoadAgrees
      <4> QED
        BY <1>8, <3>1, <3>3, <4>3, <4>5, <4>6
    <3> QED
      BY <3>5, <3>6
  <2>5. CASE Reload(c) /\ ~UNCHANGED live
    <3>1. load(files) # NoPolicy /\ live' = Reloaded(load(files)) /\ UNCHANGED files
          /\ ghost'.overlay = {}
      BY <2>5 DEF Reload, GhostInv
    <3>2. Agree(live', load(files), {"enabled", "ml"})
      BY <3>1, ReloadedFacts DEF Agree
    <3>3. ghost'.overlay \cup {"enabled", "ml"} = {"enabled", "ml"}
      BY <3>1
    <3> QED
      BY <3>1, <3>2, <3>3
  <2>6. CASE Reload(c) /\ UNCHANGED live
    <3>1. UNCHANGED files
      BY <2>6 DEF Reload
    <3>2. load(files) # NoPolicy /\ live' = Reloaded(load(files)) /\ ghost'.overlay = {}
      BY <2>6, <3>1 DEF Reload, GhostInv
    <3>3. Agree(live', load(files), {"enabled", "ml"})
      BY <3>2, ReloadedFacts DEF Agree
    <3>4. ghost'.overlay \cup {"enabled", "ml"} = {"enabled", "ml"}
      BY <3>2
    <3> QED
      BY <3>1, <3>3, <3>4
  <2>7. CASE WriteFile(c)
    BY <2>7 DEF WriteFile, GhostInv
  <2>8. CASE (PutWhole(c) \/ PutPatch(c)) /\ UNCHANGED <<live, ghost>>
    BY <2>1, <2>8 DEF PutWhole, PutPatch, put_config
  <2> QED
    BY <1>1, <2>1, <2>2, <2>3, <2>4, <2>5, <2>6, <2>7, <2>8
       DEF Step, Begin, Refuse, Base, ReadFile, Route, Fetch, ReloadBroker, Fail, Exit
<1>2. CASE (\E p \in Ports : Start(p)) \/ Stop \/ (\E e \in Edits : Type(e))
           \/ (\E l \in {e[1] : e \in Edits} : Garble(l))
  <2>1. CASE \E p \in Ports : Start(p)
    BY <2>1, AgreeSame DEF Start
  <2>2. CASE Stop
    BY <2>2 DEF Stop
  <2>3. ASSUME NEW l, NEW f, EditFile(l, f)
        PROVE  FALSE
    BY <2>3 DEF EditFile, GhostInv
  <2> QED
    BY <1>2, <2>1, <2>2, <2>3 DEF Type, Garble
<1>3. CASE Clicks
  <2>1. SameFiles(files, files', Lists)
    BY <1>3, ClickFiles
  <2>2. load(files) # NoPolicy /\ Persists
    BY <1>0, <1>3, <2>1, LoadAgrees, PersistFacts
  <2>3. live # NoPolicy /\ ~ghost.unread
    BY <1>3, ClickLive, OverlaidFacts
  <2>4. Lists \subseteq DOMAIN live
    BY <1>0, <2>3 DEF LiveInv
  \* The rules are among the keys set live, or nothing has happened to them.
  <2>5. ASSUME NEW keys, ghost' = Overlaid(keys), NEW d, files'["local"].doc = d,
               NEW S \in SUBSET Lists, SameFiles(files, files', S), Agree(live', live, S),
               NEW K \in SUBSET {"exact", "exact_ci"}, S \subseteq keys \cup K,
               K \subseteq DOMAIN d, \A k \in K : d[k] = live'[k],
               DOMAIN live' = DOMAIN live
        PROVE  Agree(live', load(files'), ghost'.overlay \cup {"enabled", "ml"})
    <3>1. SameFiles(files, files', S) /\ files'["local"].doc = d
      BY <2>5
    <3>2. Agree(load(files), load(files'), S)
      BY <1>0, <2>2, <2>5, <3>1, LoadAgrees
    <3> DEFINE U == ghost.overlay \cup keys \cup {"enabled", "ml"}
               W == U \cup K
    <3>3. theirs \subseteq W /\ S \subseteq W /\ W \ U \subseteq K
      BY <2>5
    <3>4. Agree(live', load(files'), W)
      BY <1>8, <2>2, <2>3, <2>5, <3>2, <3>3
    <3>5. \A k \in K : k \in DOMAIN load(files') /\ load(files')[k] = d[k]
      BY <1>0, <2>5, <3>1, LocalWins
    <3>6. \A k \in K : k \in DOMAIN live'
      BY <2>4, <2>5 DEF Lists
    <3>9. \A k \in K : k \in DOMAIN live' /\ k \in DOMAIN load(files') /\ live'[k] = load(files')[k]
      BY <2>5, <3>5, <3>6
    <3> HIDE DEF U, W
    <3>7. Agree(live', load(files'), U)
      BY <3>3, <3>4, <3>9, AgreeAlso
    <3>8. ghost'.overlay \cup {"enabled", "ml"} = U
      BY <2>5, OverlaidFacts DEF U
    <3> QED
      BY <3>7, <3>8
  <2> DEFINE doc == files["local"].doc
  <2>6. ASSUME NEW rule \in Rules, custom_mask(rule) \/ custom_masks_remove(rule)
        PROVE  Agree(live', load(files'), ghost'.overlay \cup {"enabled", "ml"})
    <3>1. ghost' = Overlaid({"rules"})
          /\ DOMAIN live' = DOMAIN live /\ Agree(live', live, {"rules"})
      BY <2>6 DEF custom_mask, custom_masks_remove, Agree
    <3>2. \E can \in {Persists, RulePersists} : \E d :
              files' = Saved(can, d) /\ Agree(doc, d, {"rules"})
      BY <2>6, WithRulesFacts, RemovalAgrees
         DEF custom_mask, custom_masks_remove, persist_custom_replacement
    <3> DEFINE S == {"rules"}
               K == {}
               d == files'["local"].doc
    <3>3. SameFiles(files, files', S)
      BY <1>0, <3>2, PersistFacts, SavedFacts
    <3>4. S \in SUBSET Lists /\ K \in SUBSET {"exact", "exact_ci"}
          /\ S \subseteq S \cup K /\ K \subseteq DOMAIN d
          /\ \A k \in K : d[k] = live'[k]
      BY DEF Lists
    <3> HIDE DEF S, K, doc
    <3>5. ghost' = Overlaid(S) /\ DOMAIN live' = DOMAIN live /\ Agree(live', live, S)
      BY <3>1 DEF S
    <3> QED
      BY <2>5, <3>3, <3>4, <3>5
  <2>7. ListsOverlaid = {}
    BY <2>2 DEF ListsOverlaid
  <2>8. {"exact", "exact_ci"} \in SUBSET Lists /\ Lists = {"rules", "exact", "exact_ci"}
    BY DEF Lists
  <2>9. ASSUME NEW ph \in Phrases, remask_keyphrase(ph)
        PROVE  Agree(live', load(files'), ghost'.overlay \cup {"enabled", "ml"})
    <3> DEFINE d == persist_local_allow_lists(doc, live')
    <3>1. ghost' = Overlaid({}) /\ files' = Saved(Persists, d)
          /\ DOMAIN live' = DOMAIN live /\ Agree(live', live, {"exact", "exact_ci"})
      BY <2>7, <2>9 DEF remask_keyphrase, Agree
    <3>2. /\ Agree(doc, d, {"exact", "exact_ci"}) /\ {"exact", "exact_ci"} \subseteq DOMAIN d
          /\ \A k \in {"exact", "exact_ci"} : d[k] = live'[k]
      BY AllowListFacts
    <3> HIDE DEF d
    <3>3. SameFiles(files, files', {"exact", "exact_ci"}) /\ files'["local"].doc = d
      BY <1>0, <2>2, <3>1, <3>2, PersistFacts, SavedFacts
    <3> QED
      BY <2>5, <2>8, <3>1, <3>2, <3>3
  <2>10. ASSUME NEW ph \in Phrases, NEW backing \in Rules \cup {NoRule}, reveal_keyphrase(ph, backing)
         PROVE  Agree(live', load(files'), ghost'.overlay \cup {"enabled", "ml"})
    <3> DEFINE removed == Contains(live["rules"], backing)
               x    == IF removed THEN remove_custom_replacement(doc, backing) ELSE doc
               d    == persist_local_allow_lists(x, live')
               keys == IF removed THEN {"rules"} ELSE {}
    <3>1. files' = Saved(Persists, d) /\ DOMAIN live' = DOMAIN live
      BY <2>10 DEF reveal_keyphrase
    <3>2. /\ Agree(x, d, {"exact", "exact_ci"}) /\ {"exact", "exact_ci"} \subseteq DOMAIN d
          /\ \A k \in {"exact", "exact_ci"} : d[k] = live'[k]
      BY AllowListFacts
    <3> HIDE DEF d
    <3>3. ghost' = Overlaid(keys)
      BY <2>7, <2>10 DEF reveal_keyphrase
    <3>4. Agree(doc, x, keys)
      BY RemovalAgrees, AgreeSame
    <3>5. Agree(live', live, keys \cup {"exact", "exact_ci"})
      <4>1. live'["rules"] = DropFirst(live["rules"], backing)
        BY <2>4, <2>8, <2>10 DEF reveal_keyphrase
      <4>2. ~removed => live'["rules"] = live["rules"]
        BY <4>1 DEF DropFirst
      <4>3. Agree(live', live, Lists)
        BY <1>3, ClickLive
      <4> QED
        BY <2>8, <3>1, <4>2, <4>3 DEF Agree
    <3> HIDE DEF x
    <3>6. keys \subseteq {"rules"}
      OBVIOUS
    <3> HIDE DEF keys
    <3>7. Agree(doc, d, keys \cup {"exact", "exact_ci"})
      BY <3>2, <3>4, AgreeChain
    <3>8. keys \cup {"exact", "exact_ci"} \in SUBSET Lists
      BY <2>8, <3>6
    <3>9. SameFiles(files, files', keys \cup {"exact", "exact_ci"}) /\ files'["local"].doc = d
      BY <1>0, <2>2, <3>1, <3>7, PersistFacts, SavedFacts
    <3> QED
      BY <2>5, <3>1, <3>2, <3>3, <3>5, <3>8, <3>9
  <2> QED
    BY <1>3, <2>6, <2>9, <2>10 DEF Clicks
<1>4. CASE UNCHANGED editVars
  BY <1>4 DEF editVars, vars, PolicyFollows
<1> QED
  BY <1>1, <1>2, <1>3, <1>4 DEF EditsNext, Others, Next

(***************************************************************************)
(* Whatever the three files hold and however commands, edits, clicks and   *)
(* restarts interleave: a proxy that has reloaded since the files changed  *)
(* runs what they say but for what was set live, and brokers nothing they  *)
(* do not allow; and only the operator moves the masking switch, unless a  *)
(* whole-configuration PUT was overtaken.  A profile that is applied       *)
(* changes the same keys in the policy and in its file, and a click either *)
(* writes what it set or counts as set live.                               *)
(***************************************************************************)
THEOREM FollowsFiles == EditsSpec => []LiveFollowsFiles
<1> DEFINE Inv == TypeInv /\ BrokerFollows /\ PolicyFollows /\ SwitchStands
<1>1. EditsInit => Inv
  <2>1. EditsInit => live = NoPolicy
    BY DEF EditsInit, Init
  <2> QED
    BY <2>1, TypeInit DEF BrokerFollows, PolicyFollows, SwitchStands
<1>2. Inv /\ [EditsNext]_editVars => Inv'
  BY TypeStep, BrokerStep, PolicyStep, SwitchStep
<1>3. Inv => LiveFollowsFiles
  BY AgreeRestrict DEF LiveFollowsFiles, BrokerFollows, PolicyFollows, SwitchStands
<1> QED
  BY <1>1, <1>2, <1>3, PTL DEF EditsSpec

-----------------------------------------------------------------------------
(* The rules are sequences, wherever a document is held.                   *)

LEMMA Least ==
    ASSUME NEW I \in SUBSET Nat, I # {}
    PROVE  \E x \in I : \A y \in I : x =< y
<1> DEFINE R == OpToRel(<, Nat)
<1>1. IsWellFoundedOn(R, Nat)
  BY NatLessThanWellFounded
<1>2. \A x, y \in Nat : y < x => <<y, x>> \in R
  BY DEF OpToRel
<1> HIDE DEF R
<1>3. PICK x \in I : \A y \in I : ~ (<<y, x>> \in R)
  BY <1>1, WFMin
<1>4. \A y \in I : x =< y
  <2> SUFFICES ASSUME NEW y \in I
               PROVE  x =< y
    OBVIOUS
  <2>1. x \in Nat /\ y \in Nat /\ ~(y < x)
    BY <1>2, <1>3
  <2> QED
    BY <2>1
<1> QED
  BY <1>4

\* Dropping the first rule for a phrase keeps the rules for all others.
LEMMA DropFacts ==
    ASSUME NEW S, NEW rules \in Seq(S), NEW ph
    PROVE  /\ DropFirst(rules, ph) \in Seq(S)
           /\ ToSet(rules) \ {ph} \subseteq ToSet(DropFirst(rules, ph))
<1>1. CASE ~Contains(rules, ph)
  BY <1>1 DEF DropFirst
<1>2. CASE Contains(rules, ph)
  <2> DEFINE I == {i \in 1 .. Len(rules) : rules[i] = ph}
             i == SelectInSeq(rules, LAMBDA x : x = ph)
             n == Len(rules)
             p == SubSeq(rules, 1, i - 1)
             q == SubSeq(rules, i + 1, n)
  <2>1. I # {} /\ I \in SUBSET Nat
    BY <1>2 DEF Contains
  <2>2. i = Min(I)
    BY <2>1 DEF SelectInSeq
  <2> HIDE DEF I
  <2>3. Min(I) \in I
    BY <2>1, Least DEF Min
  <2>4. n \in Nat /\ i \in 1 .. n /\ rules[i] = ph
    BY <2>2, <2>3 DEF I
  <2>5. DropFirst(rules, ph) = p \o q
    BY <1>2 DEF DropFirst, RemoveAt
  <2> HIDE DEF i, n
  <2>6. /\ p \in Seq(S) /\ Len(p) = i - 1 /\ \A j \in 1 .. i - 1 : p[j] = rules[j]
    BY <2>4, SubSeqProperties DEF n
  <2>7. /\ q \in Seq(S) /\ Len(q) = n - i /\ \A j \in 1 .. n - i : q[j] = rules[i + j]
    BY <2>4, SubSeqProperties DEF n
  <2> HIDE DEF p, q
  <2>8. /\ p \o q \in Seq(S) /\ Len(p \o q) = n - 1
        /\ \A j \in 1 .. n - 1 : (p \o q)[j] = IF j =< i - 1 THEN p[j] ELSE q[j - (i - 1)]
    <3>1. /\ p \o q \in Seq(S) /\ Len(p \o q) = Len(p) + Len(q)
          /\ \A j \in 1 .. Len(p) + Len(q) :
                 (p \o q)[j] = IF j =< Len(p) THEN p[j] ELSE q[j - Len(p)]
      BY <2>6, <2>7, ConcatProperties
    <3>2. Len(p) + Len(q) = n - 1
      BY <2>4, <2>6, <2>7
    <3> QED
      BY <2>6, <3>1, <3>2
  <2>9. DOMAIN (p \o q) = 1 .. n - 1
    BY <2>8
  <2>10. ASSUME NEW x \in ToSet(rules) \ {ph}
        PROVE  x \in ToSet(p \o q)
    <3>1. PICK j \in 1 .. n : rules[j] = x
      BY DEF ToSet, n
    <3>2. j # i
      BY <2>4, <2>10, <3>1
    <3>3. CASE j < i
      <4>1. j \in 1 .. n - 1 /\ j =< i - 1 /\ j \in 1 .. i - 1
        BY <2>4, <3>1, <3>3
      <4>2. (p \o q)[j] = x
        BY <2>6, <2>8, <3>1, <4>1
      <4> QED
        BY <2>9, <4>1, <4>2 DEF ToSet
    <3>4. CASE j > i
      <4>1. j - 1 \in 1 .. n - 1 /\ ~(j - 1 =< i - 1) /\ j - i \in 1 .. n - i
            /\ (j - 1) - (i - 1) = j - i /\ i + (j - i) = j
        BY <2>4, <3>1, <3>4
      <4>2. (p \o q)[j - 1] = q[j - i] /\ q[j - i] = rules[j]
        BY <2>7, <2>8, <4>1
      <4> QED
        BY <2>9, <3>1, <4>1, <4>2 DEF ToSet
    <3> QED
      BY <2>4, <3>1, <3>2, <3>3, <3>4
  <2> QED
    BY <2>5, <2>8, <2>10
<1> QED
  BY <1>1, <1>2

LEMMA AppendFacts ==
    ASSUME NEW S, NEW rules \in Seq(S), NEW ph \in S
    PROVE  /\ Append(rules, ph) \in Seq(S) /\ Append(rules, ph) # <<>>
           /\ ToSet(rules) \cup {ph} \subseteq ToSet(Append(rules, ph))
<1> DEFINE n == Len(rules)
<1>1. /\ Append(rules, ph) \in Seq(S) /\ Len(Append(rules, ph)) = n + 1 /\ n \in Nat
      /\ \A j \in 1 .. n : Append(rules, ph)[j] = rules[j]
      /\ Append(rules, ph)[n + 1] = ph
  BY AppendProperties
<1>2. Append(rules, ph) # <<>>
  BY <1>1
<1>3. ToSet(rules) \cup {ph} \subseteq ToSet(Append(rules, ph))
  <2>1. 1 .. n \subseteq 1 .. n + 1 /\ n + 1 \in 1 .. n + 1
    BY <1>1
  <2>2. DOMAIN Append(rules, ph) = 1 .. n + 1 /\ DOMAIN rules = 1 .. n
    BY <1>1
  <2> QED
    BY <1>1, <2>1, <2>2 DEF ToSet
<1> QED
  BY <1>1, <1>2, <1>3

\* What a command carries of the files and of the policy.
LEMMA StepCarries ==
    ASSUME CmdsInv, ReloadInv, NEW c \in Clis, Step(c)
    PROVE  /\ \A d \in Clis \ {c} : cmd'[d] # NoCommand =>
                  cmd[d] # NoCommand /\ cmd'[d].doc = cmd[d].doc /\ cmd'[d].got = cmd[d].got
           /\ cmd'[c] # NoCommand =>
                  \/ cmd'[c].doc = <<>> /\ cmd'[c].got = NoPolicy
                  \/ /\ cmd[c] # NoCommand
                     /\ \/ cmd'[c].doc \in {cmd[c].doc, <<>>}
                        \/ /\ cmd[c].req.scope \in Layers
                           /\ cmd'[c].doc = parse_or_new(files[cmd[c].req.scope])
                     /\ cmd'[c].got \in {cmd[c].got, live}
<1> DEFINE Mine ==
        \/ cmd'[c].doc = <<>> /\ cmd'[c].got = NoPolicy
        \/ /\ cmd[c] # NoCommand
           /\ \/ cmd'[c].doc \in {cmd[c].doc, <<>>}
              \/ /\ cmd[c].req.scope \in Layers
                 /\ cmd'[c].doc = parse_or_new(files[cmd[c].req.scope])
           /\ cmd'[c].got \in {cmd[c].got, live}
<1>0. ASSUME NEW d \in Clis \ {c}, cmd'[d] = Disturb(c)[d], cmd'[d] # NoCommand
      PROVE  cmd[d] # NoCommand /\ cmd'[d].doc = cmd[d].doc /\ cmd'[d].got = cmd[d].got
  <2>1. d \in Clis /\ d # c
    OBVIOUS
  <2>2. cmd[d] # NoCommand
    BY <1>0, <2>1, DisturbFacts
  <2>3. Disturb(c)[d].doc = cmd[d].doc /\ Disturb(c)[d].got = cmd[d].got
    BY <2>1, <2>2, DisturbFacts
  <2> QED
    BY <1>0, <2>2, <2>3
<1>1. CASE \E r \in Requests : Begin(c, r)
  BY <1>0, <1>1, BeginCmds
<1>2. CASE Exit(c)
  BY <1>2, ExitCmds
<1>3. CASE Acts(c) /\ ~Exit(c) /\ ~(\E r \in Requests : Begin(c, r))
  <2>1. \A d \in Clis \ {c} : cmd'[d] # NoCommand =>
            cmd[d] # NoCommand /\ cmd'[d].doc = cmd[d].doc /\ cmd'[d].got = cmd[d].got
    BY <1>0, <1>3 DEF Acts
  <2>2. cmd[c] # NoCommand /\ cmd[c].todo # <<>>
    BY <1>3, NoCommandFacts, NameAssumption DEF Step, Refuse, Base, ReadFile, WriteFile, Route,
       SetEnabled, SetMl, Fetch, PutWhole, PutPatch, ApplyProfile, Reload, ReloadBroker, Fail,
       Serve, At, ReloadInv
  <2>3. ASSUME cmd' = Answered(c) \/ cmd' = Unanswered(c) \/ cmd' = Disturb(c)
               \/ (\E x : cmd' = End(c, x))
        PROVE  Mine
    <3>1. CASE cmd' = Answered(c)
      BY <2>2, <3>1, AnsweredActs
    <3>2. CASE cmd' = Unanswered(c)
      BY <2>2, <3>2, UnansweredActs
    <3>3. CASE cmd' = Disturb(c)
      BY <2>2, <3>3, HoldActs
    <3>4. CASE \E x : cmd' = End(c, x)
      BY <2>2, <3>4, EndActs
    <3> QED
      BY <2>3, <3>1, <3>2, <3>3, <3>4
  <2>4. CASE Base(c)
    <3>1. cmd' = [Continue(c) EXCEPT ![c] = [@ EXCEPT !["base"] =
              IF Reachable(c) THEN live["categories"] ELSE categories_from_files(files)]]
      BY <2>4 DEF Base
    <3>2. \A g \in {"base", "doc", "got"} \ {"base"} : cmd'[c][g] = cmd[c][g]
      BY <2>2, <3>1, ContinueWith
    <3>3. cmd'[c].doc = cmd[c].doc /\ cmd'[c].got = cmd[c].got
      BY <3>2
    <3> QED
      BY <2>1, <2>2, <3>3
  <2>5. CASE ReadFile(c)
    <3>1. cmd' = [Continue(c) EXCEPT ![c] = [@ EXCEPT !["doc"] =
              parse_or_new(files[cmd[c].req.scope])]]
      BY <2>5 DEF ReadFile
    <3>2. /\ cmd'[c]["doc"] = parse_or_new(files[cmd[c].req.scope])
          /\ \A g \in {"base", "doc", "got"} \ {"doc"} : cmd'[c][g] = cmd[c][g]
      BY <2>2, <3>1, ContinueWith
    <3>3. cmd'[c].got = cmd[c].got
      BY <3>2
    <3>4. cmd[c].req.scope \in Layers
      BY <2>2, <2>5, LeftFacts DEF CmdsInv, IsCommand, ReadFile, At
    <3> QED
      BY <2>1, <2>2, <3>2, <3>3, <3>4
  <2>6. CASE WriteFile(c)
    <3>1. CASE Len(cmd[c].todo) = 1
      BY <2>1, <2>3, <2>6, <3>1 DEF WriteFile
    <3>2. CASE Len(cmd[c].todo) # 1
      <4>1. cmd' = [Continue(c) EXCEPT ![c] = [@ EXCEPT !["doc"] = <<>>]]
        BY <2>6, <3>2 DEF WriteFile
      <4>2. /\ cmd'[c]["doc"] = <<>>
            /\ \A g \in {"base", "doc", "got"} \ {"doc"} : cmd'[c][g] = cmd[c][g]
        BY <2>2, <4>1, ContinueWith
      <4>3. cmd'[c].got = cmd[c].got
        BY <4>2
      <4> QED
        BY <2>1, <2>2, <4>2, <4>3
    <3> QED
      BY <3>1, <3>2
  <2>7. CASE Route(c)
    <3>1. CASE cmd' = End(c, "failed")
      BY <2>1, <2>3, <3>1
    <3>2. CASE \E t : cmd' = [Disturb(c) EXCEPT ![c].todo = t]
      <4>1. PICK t : cmd' = [Disturb(c) EXCEPT ![c].todo = t]
        BY <3>2
      <4>2. DOMAIN Disturb(c) = Clis /\ Disturb(c)[c] = cmd[c]
        BY DisturbFacts
      <4>3. DOMAIN cmd[c] = Fields
        BY <2>2 DEF CmdsInv, IsCommand
      <4>4. cmd'[c].doc = cmd[c].doc /\ cmd'[c].got = cmd[c].got
        BY <4>1, <4>2, <4>3 DEF Fields
      <4> QED
        BY <2>1, <2>2, <4>4
    <3> QED
      BY <2>7, <3>1, <3>2 DEF Route
  <2>8. CASE Fetch(c)
    <3>1. cmd' = [Continue(c) EXCEPT ![c] = [@ EXCEPT !["got"] = live]]
      BY <2>8 DEF Fetch
    <3>2. /\ cmd'[c]["got"] = live
          /\ \A g \in {"base", "doc", "got"} \ {"got"} : cmd'[c][g] = cmd[c][g]
      BY <2>2, <3>1, ContinueWith
    <3>3. cmd'[c].doc = cmd[c].doc
      BY <3>2
    <3> QED
      BY <2>1, <2>2, <3>2, <3>3
  <2>9. ASSUME NEW patch, put_config(c, patch)
        PROVE  Mine
    BY <2>3, <2>9 DEF put_config
  <2>10. CASE PutWhole(c) \/ PutPatch(c)
    BY <2>1, <2>9, <2>10 DEF PutWhole, PutPatch
  <2>11. CASE Refuse(c) \/ SetEnabled(c) \/ SetMl(c) \/ ApplyProfile(c) \/ Reload(c)
              \/ ReloadBroker(c) \/ Fail(c)
    <3>1. cmd' = Answered(c) \/ cmd' = Unanswered(c) \/ cmd' = Disturb(c)
          \/ (\E x : cmd' = End(c, x))
      BY <2>11 DEF Refuse, SetEnabled, SetMl, ApplyProfile, Reload, ReloadBroker, Fail
    <3> QED
      BY <2>1, <2>3, <3>1
  <2> QED
    BY <1>3, <2>4, <2>5, <2>6, <2>7, <2>8, <2>10, <2>11 DEF Step
<1> QED
  BY <1>1, <1>2, <1>3, StepKinds

\* No command sets a list.
LEMMA ChangeFacts ==
    ASSUME NEW c, IsCommand(cmd[c])
    PROVE  DOMAIN Change(c) \cap Lists = {}
<1> DEFINE r == cmd[c].req
<1>1. r \in Requests /\ Lists \subseteq EngineKeys
  BY DEF IsCommand, Lists, EngineKeys
<1>2. CASE r.set = "profile"
  BY <1>2, ForProfile DEF Change, ProfileKeys, Lists
<1>3. CASE r.set = "categories"
  BY <1>3 DEF Change, Entry, Lists
<1>4. CASE r.set = "entity"
  <2>1. Key(r) \in Entities
    BY <1>1, <1>4, RequestAssumption, EntityAssumption DEF Key, resolve_entity_type
  <2>2. Key(r) \notin Lists
    BY <1>1, <2>1, SpellingAssumption
  <2>3. Change(c) = Entry(Key(r), r.value[2])
    BY <1>4 DEF Change
  <2> QED
    BY <2>2, <2>3 DEF Entry
<1>5. CASE r.set \notin {"profile", "categories", "entity"}
  <2>1. r.set \in {"enabled", "threshold", "ml"}
    BY <1>1, <1>5, RequestAssumption
  <2>2. Change(c) = Entry(r.set, r.value)
    BY <1>5 DEF Change
  <2> QED
    BY <2>1, <2>2 DEF Entry, Lists
<1> QED
  BY <1>2, <1>3, <1>4, <1>5

HasRules(d) == "rules" \in DOMAIN d => d["rules"] \in Seq(Rules)

RulesInv ==
    /\ \A l \in Layers : HasRules(files[l].doc)
    /\ HasRules(live)
    /\ \A c \in Clis : cmd[c] # NoCommand => HasRules(cmd[c].doc) /\ HasRules(cmd[c].got)

LEMMA HasRulesAgree ==
    ASSUME NEW f, NEW g, NEW S, Agree(f, g, S), "rules" \notin S, HasRules(g)
    PROVE  HasRules(f)
  BY DEF Agree, HasRules

LEMMA HasRulesOver ==
    ASSUME NEW f, NEW g, HasRules(f), HasRules(g)
    PROVE  HasRules(f ++ g)
  BY DEF ++, HasRules

LEMMA HasRulesLoad ==
    ASSUME \A l \in Layers : HasRules(files[l].doc)
    PROVE  HasRules(load(files))
<1> DEFINE m == merged_value(files)
<1>1. HasRules(files["local"].doc) /\ HasRules(files["project"].doc) /\ HasRules(files["user"].doc)
  BY DEF Layers
<1>2. HasRules(m)
  BY <1>1, HasRulesOver DEF merged_value
<1> HIDE DEF m
<1>3. "rules" \in EngineKeys
  BY DEF EngineKeys
<1>4. Fallback(Profile(m))["rules"] = <<>>
  BY DEF Fallback, for_profile, ++
<1>5. HasRules(Deserialize(m))
  <2>1. Deserialize(m)["rules"] = IF "rules" \in DOMAIN m THEN m["rules"]
                                  ELSE Fallback(Profile(m))["rules"]
    BY <1>3, DeserializeFacts
  <2>2. <<>> \in Seq(Rules)
    OBVIOUS
  <2> QED
    BY <1>2, <1>4, <2>1, <2>2 DEF HasRules
<1>6. HasRules(NoPolicy)
  BY NoPolicyIsEmpty DEF HasRules
<1> QED
  BY <1>5, <1>6, LoadFacts DEF m

LEMMA RulesInit == EditsInit => RulesInv
<1> SUFFICES ASSUME EditsInit
             PROVE  RulesInv
  OBVIOUS
<1>1. HasRules(<<>>)
  BY DEF HasRules
<1>2. PICK d \in UserDocs :
          files = [user |-> [ok |-> TRUE, doc |-> d], project |-> Empty, local |-> Empty]
  BY DEF EditsInit, Init
<1>3. files["user"].doc = d /\ files["project"].doc = <<>> /\ files["local"].doc = <<>>
  BY <1>2 DEF Empty
<1>4. HasRules(d)
  BY RuleAssumption DEF HasRules
<1>5. live = <<>> /\ \A c \in Clis : cmd[c] = NoCommand
  BY DEF EditsInit, Init, NoPolicy
<1> QED
  BY <1>1, <1>3, <1>4, <1>5 DEF RulesInv, Layers

\* The files and the policy after a click.
LEMMA ClickRules ==
    ASSUME TypeInv, RulesInv, Clicks
    PROVE  (\A l \in Layers : HasRules(files'[l].doc)) /\ HasRules(live')
<1> USE DEF TypeInv
<1> DEFINE doc == files["local"].doc
<1>0. /\ "local" \in Layers /\ HasRules(doc) /\ live # NoPolicy
      /\ "rules" \in DOMAIN live /\ live["rules"] \in Seq(Rules)
      /\ {"exact", "exact_ci"} \subseteq DOMAIN live
  <2>1. live # NoPolicy
    BY ClickLive
  <2>2. {"rules", "exact", "exact_ci"} \subseteq DOMAIN live
    BY <2>1 DEF LiveInv, EngineKeys
  <2> QED
    BY <2>1, <2>2 DEF RulesInv, HasRules, Layers
<1>1. ASSUME NEW can \in BOOLEAN, NEW d, files' = Saved(can, d), HasRules(d)
      PROVE  \A l \in Layers : HasRules(files'[l].doc)
  <2>1. CASE can
    <3>1. files' = [files EXCEPT !["local"] = [files["local"] EXCEPT !.doc = d]]
      BY <1>1, <2>1 DEF Saved
    <3>2. DOMAIN files = Layers /\ DOMAIN files["local"] = {"ok", "doc"}
      BY <1>0 DEF FilesInv
    <3>3. files'["local"].doc = d /\ \A l \in Layers \ {"local"} : files'[l] = files[l]
      BY <1>0, <3>1, <3>2
    <3> QED
      BY <1>1, <3>3 DEF RulesInv
  <2>2. CASE ~can
    BY <1>1, <2>2 DEF Saved, RulesInv
  <2> QED
    BY <2>1, <2>2
<1>2. \A x, rules : rules \in Seq(Rules) => HasRules(WithRules(x, rules))
  BY WithRulesFacts DEF HasRules
<1>3. \A ph : HasRules(remove_custom_replacement(doc, ph))
  <2> SUFFICES ASSUME NEW ph
               PROVE  HasRules(remove_custom_replacement(doc, ph))
    OBVIOUS
  <2>1. CASE "rules" \in DOMAIN doc /\ form["local"] = "table"
    <3>1. DropFirst(doc["rules"], ph) \in Seq(Rules)
      BY <1>0, <2>1, DropFacts DEF HasRules
    <3> QED
      BY <1>2, <2>1, <3>1 DEF remove_custom_replacement
  <2>2. CASE ~("rules" \in DOMAIN doc /\ form["local"] = "table")
    BY <1>0, <2>2 DEF remove_custom_replacement
  <2> QED
    BY <2>1, <2>2
<1>4. \A rule \in Rules : HasRules(persist_custom_replacement(doc, rule))
  <2> SUFFICES ASSUME NEW rule \in Rules
               PROVE  HasRules(persist_custom_replacement(doc, rule))
    OBVIOUS
  <2>1. Local("rules", <<>>) \in Seq(Rules)
    BY <1>0 DEF Local, HasRules
  <2>2. Append(Local("rules", <<>>), rule) \in Seq(Rules)
    BY <2>1, AppendFacts
  <2> QED
    BY <1>2, <2>2 DEF persist_custom_replacement
<1>5. \A x, policy : HasRules(x) => HasRules(persist_local_allow_lists(x, policy))
  <2> SUFFICES ASSUME NEW x, NEW policy, HasRules(x)
               PROVE  HasRules(persist_local_allow_lists(x, policy))
    OBVIOUS
  <2>1. Agree(x, persist_local_allow_lists(x, policy), {"exact", "exact_ci"})
    BY AllowListFacts
  <2> DEFINE y == persist_local_allow_lists(x, policy)
             S == {"exact", "exact_ci"}
  <2>2. Agree(y, x, S) /\ "rules" \notin S
    BY <2>1, AgreeSwap
  <2> HIDE DEF y, S
  <2>3. HasRules(y)
    BY <2>2, HasRulesAgree
  <2> QED
    BY <2>3 DEF y
<1> HIDE DEF doc
<1>6. ASSUME live'["rules"] \in Seq(Rules)
      PROVE  HasRules(live')
  BY <1>6 DEF HasRules
<1>7. \A ph : DropFirst(live["rules"], ph) \in Seq(Rules)
  BY <1>0, DropFacts
<1>8. ASSUME NEW rule \in Rules, custom_mask(rule)
      PROVE  (\A l \in Layers : HasRules(files'[l].doc)) /\ HasRules(live')
  <2>1. live'["rules"] = Append(live["rules"], rule)
        /\ files' = Saved(RulePersists, persist_custom_replacement(doc, rule))
    BY <1>0, <1>8 DEF custom_mask, doc
  <2>2. live'["rules"] \in Seq(Rules)
    BY <1>0, <2>1, AppendFacts
  <2> QED
    BY <1>1, <1>4, <1>6, <2>1, <2>2, PersistFacts
<1>9. ASSUME NEW rule \in Rules, custom_masks_remove(rule)
      PROVE  (\A l \in Layers : HasRules(files'[l].doc)) /\ HasRules(live')
  <2>1. live'["rules"] = DropFirst(live["rules"], rule)
        /\ files' = Saved(Persists, remove_custom_replacement(doc, rule))
    BY <1>0, <1>9 DEF custom_masks_remove, doc
  <2> QED
    BY <1>1, <1>3, <1>6, <1>7, <2>1, PersistFacts
<1>10. ASSUME NEW ph \in Phrases, remask_keyphrase(ph)
       PROVE  (\A l \in Layers : HasRules(files'[l].doc)) /\ HasRules(live')
  <2>1. live'["rules"] = live["rules"]
        /\ files' = Saved(Persists, persist_local_allow_lists(doc, live'))
    BY <1>0, <1>10 DEF remask_keyphrase, doc
  <2>2. HasRules(persist_local_allow_lists(doc, live'))
    BY <1>0, <1>5
  <2> QED
    BY <1>0, <1>1, <1>6, <2>1, <2>2, PersistFacts
<1>11. ASSUME NEW ph \in Phrases, NEW backing \in Rules \cup {NoRule}, reveal_keyphrase(ph, backing)
       PROVE  (\A l \in Layers : HasRules(files'[l].doc)) /\ HasRules(live')
  <2>1. live'["rules"] = DropFirst(live["rules"], backing)
    BY <1>0, <1>11 DEF reveal_keyphrase
  <2>2. \/ files' = Saved(Persists, persist_local_allow_lists(doc, live'))
        \/ files' = Saved(Persists, persist_local_allow_lists(remove_custom_replacement(doc, backing), live'))
    BY <1>11 DEF reveal_keyphrase, doc
  <2>3. HasRules(persist_local_allow_lists(doc, live'))
        /\ HasRules(persist_local_allow_lists(remove_custom_replacement(doc, backing), live'))
    BY <1>0, <1>3, <1>5
  <2>4. \A l \in Layers : HasRules(files'[l].doc)
    BY <1>1, <2>2, <2>3, PersistFacts
  <2> QED
    BY <1>0, <1>6, <1>7, <2>1, <2>4
<1> QED
  BY <1>8, <1>9, <1>10, <1>11 DEF Clicks

LEMMA RulesStep ==
    ASSUME TypeInv, RulesInv, [EditsNext]_editVars
    PROVE  RulesInv'
<1> USE DEF TypeInv
<1>0. "rules" \in Lists /\ "rules" \notin ProfileKeys /\ HasRules(<<>>) /\ HasRules(NoPolicy)
  BY NoPolicyIsEmpty DEF Lists, ProfileKeys, HasRules
<1>1. ASSUME NEW l \in Layers, NEW f, files' = [files EXCEPT ![l] = f], HasRules(f.doc)
      PROVE  \A x \in Layers : HasRules(files'[x].doc)
  <2>1. files'[l] = f /\ \A x \in Layers \ {l} : files'[x] = files[x]
    BY <1>1 DEF FilesInv
  <2> QED
    BY <1>1, <2>1 DEF RulesInv
<1>2. ASSUME NEW c \in Clis, Step(c)
      PROVE  RulesInv'
  <2>1. \A d \in Clis : cmd'[d] # NoCommand => HasRules(cmd'[d].doc) /\ HasRules(cmd'[d].got)
    <3> SUFFICES ASSUME NEW d \in Clis, cmd'[d] # NoCommand
                 PROVE  HasRules(cmd'[d].doc) /\ HasRules(cmd'[d].got)
      OBVIOUS
    <3>1. CASE d # c
      <4>1. cmd[d] # NoCommand /\ cmd'[d].doc = cmd[d].doc /\ cmd'[d].got = cmd[d].got
        BY <1>2, <3>1, StepCarries
      <4> QED
        BY <4>1 DEF RulesInv
    <3>2. CASE d = c
      <4>1. \A l \in Layers : HasRules(parse_or_new(files[l]))
        BY <1>0 DEF parse_or_new, RulesInv
      <4>2. \/ cmd'[c].doc = <<>> /\ cmd'[c].got = NoPolicy
            \/ /\ cmd[c] # NoCommand
               /\ \/ cmd'[c].doc \in {cmd[c].doc, <<>>}
                  \/ /\ cmd[c].req.scope \in Layers
                     /\ cmd'[c].doc = parse_or_new(files[cmd[c].req.scope])
               /\ cmd'[c].got \in {cmd[c].got, live}
        BY <1>2, <3>2, StepCarries
      <4>3. HasRules(live) /\ (cmd[c] # NoCommand => HasRules(cmd[c].doc) /\ HasRules(cmd[c].got))
        BY DEF RulesInv
      <4>4. HasRules(cmd'[c].doc)
        BY <1>0, <4>1, <4>2, <4>3
      <4>5. HasRules(cmd'[c].got)
        BY <1>0, <4>2, <4>3
      <4> QED
        BY <3>2, <4>4, <4>5
    <3> QED
      BY <3>1, <3>2
  <2>2. \A x \in Layers : HasRules(files'[x].doc)
    <3>1. CASE UNCHANGED files
      BY <3>1 DEF RulesInv
    <3>2. CASE WriteFile(c)
      <4> DEFINE r == cmd[c].req
                 k == cmd[c].doc
                 w == IF Clears(r) THEN RestrictTo(k, DOMAIN k \ {Key(r)}) ELSE Change(c) ++ k
      <4>1. IsCommand(cmd[c]) /\ cmd[c] # NoCommand /\ r.scope \in Layers
        BY <3>2, AtFacts, LeftFacts DEF WriteFile, IsCommand
      <4>2. HasRules(k) /\ HasRules(Change(c))
        BY <1>0, <4>1, ChangeFacts DEF RulesInv, HasRules
      <4>3. HasRules(RestrictTo(k, DOMAIN k \ {Key(r)}))
        BY <4>2 DEF HasRules, RestrictTo
      <4>4. HasRules(w)
        BY <4>2, <4>3, HasRulesOver
      <4>5. files' = [files EXCEPT ![r.scope] = [ok |-> TRUE, doc |-> w]]
        BY <3>2 DEF WriteFile
      <4> HIDE DEF w
      <4>6. [ok |-> TRUE, doc |-> w].doc = w
        OBVIOUS
      <4> QED
        BY <1>1, <4>1, <4>4, <4>5, <4>6
    <3>3. CASE ApplyProfile(c)
      <4>1. SameFiles(files, files', ProfileKeys)
        BY <3>3, ProfileFiles
      <4>2. ASSUME NEW l \in Layers
            PROVE  HasRules(files'[l].doc)
        <5>1. Agree(files[l].doc, files'[l].doc, ProfileKeys) /\ HasRules(files[l].doc)
          BY <4>1 DEF SameFiles, RulesInv
        <5> QED
          BY <1>0, <5>1 DEF Agree, HasRules
      <4> QED
        BY <4>2
    <3> QED
      BY <1>2, <3>1, <3>2, <3>3 DEF Step, Begin, Refuse, Base, ReadFile, Route, SetEnabled, SetMl,
         Fetch, PutWhole, PutPatch, put_config, Reload, ReloadBroker, Fail, Exit
  <2>3. HasRules(live')
    <3>1. CASE UNCHANGED live
      BY <3>1 DEF RulesInv
    <3>2. CASE SetEnabled(c) \/ SetMl(c)
      <4>1. \E k \in {"enabled", "ml"} : \E v : live' = [live EXCEPT ![k] = v]
        BY <3>2 DEF SetEnabled, SetMl
      <4> QED
        BY <4>1 DEF HasRules, RulesInv
    <3>3. ASSUME NEW patch, live # NoPolicy, put_config(c, patch), live' # live, HasRules(patch)
          PROVE  HasRules(live')
      <4>1. live' = MergeOnto(patch)
        BY <3>3 DEF put_config
      <4>2. "rules" \in DOMAIN live
        BY <3>3 DEF LiveInv, EngineKeys
      <4>3. MergeOnto(patch)["rules"] = IF "rules" \in DOMAIN patch THEN patch["rules"] ELSE live["rules"]
        BY <3>3, <4>2, PutFacts
      <4> QED
        BY <3>3, <4>1, <4>2, <4>3 DEF HasRules, RulesInv
    <3>4. CASE (PutWhole(c) \/ PutPatch(c)) /\ live' # live
      <4>1. At(c, "put") \/ At(c, "patch")
        BY <3>4 DEF PutWhole, PutPatch, Serve
      <4>2. live # NoPolicy /\ IsCommand(cmd[c]) /\ cmd[c] # NoCommand
        BY <3>4, <4>1, AtFacts DEF PutWhole, PutPatch, Serve, Reachable
      <4>3. HasRules(Change(c)) /\ HasRules(cmd[c].got)
        BY <1>0, <4>2, ChangeFacts DEF RulesInv, HasRules
      <4>4. HasRules(Change(c) ++ cmd[c].got)
        BY <4>3, HasRulesOver
      <4> QED
        BY <3>3, <3>4, <4>2, <4>3, <4>4 DEF PutWhole, PutPatch
    <3>5. CASE ApplyProfile(c)
      <4> DEFINE o == for_profile(cmd[c].req.value)
      <4>1. live' = o ++ live
        BY <3>5 DEF ApplyProfile
      <4>2. HasRules(o)
        BY <1>0, ForProfile DEF HasRules
      <4> HIDE DEF o
      <4> QED
        BY <4>1, <4>2, HasRulesOver DEF RulesInv
    <3>6. CASE Reload(c) /\ live' # live
      <4>1. load(files) # NoPolicy /\ live' = Reloaded(load(files))
        BY <3>6 DEF Reload
      <4>2. HasRules(load(files))
        BY HasRulesLoad DEF RulesInv
      <4> QED
        BY <4>1, <4>2, ReloadedFacts DEF HasRules
    <3> QED
      BY <1>2, <3>1, <3>2, <3>4, <3>5, <3>6 DEF Step, Begin, Refuse, Base, ReadFile, WriteFile,
         Route, Fetch, ReloadBroker, Fail, Exit
  <2> QED
    BY <2>1, <2>2, <2>3 DEF RulesInv
<1>3. ASSUME cmd' = DisturbAll, HasRules(live'), \A x \in Layers : HasRules(files'[x].doc)
      PROVE  RulesInv'
  <2>1. \A d \in Clis : cmd'[d] # NoCommand =>
            cmd[d] # NoCommand /\ cmd'[d].doc = cmd[d].doc /\ cmd'[d].got = cmd[d].got
    BY <1>3, AsideCmds
  <2> QED
    BY <1>3, <2>1 DEF RulesInv
<1>4. CASE Clicks
  <2>1. cmd' = DisturbAll
    BY <1>4 DEF Clicks, custom_mask, custom_masks_remove, remask_keyphrase, reveal_keyphrase, Click
  <2> QED
    BY <1>3, <1>4, <2>1, ClickRules
<1>5. CASE \E p \in Ports : Start(p)
  BY <1>3, <1>5, HasRulesLoad DEF Start, RulesInv
<1>6. CASE Stop
  <2>1. live' = NoPolicy /\ UNCHANGED files
    BY <1>6 DEF Stop
  <2>2. CASE cmd' = DisturbAll
    BY <1>0, <1>3, <2>1, <2>2 DEF RulesInv
  <2>3. CASE cmd' = CutShort(reloading) /\ reloading # Nobody
    <3> DEFINE c == reloading
    <3>1. c \in Clis /\ cmd[c] # NoCommand /\ cmd[c].todo # <<>>
      BY <2>3, NoCommandFacts DEF ReloadInv, At
    <3>2. /\ \A d \in Clis \ {c} : cmd'[d] = Disturb(c)[d]
          /\ \/ cmd'[c].doc = <<>> /\ cmd'[c].got = NoPolicy
             \/ cmd'[c].doc = cmd[c].doc /\ cmd'[c].got = cmd[c].got
      BY <2>3, <3>1, CutActs
    <3> HIDE DEF c
    <3>3. ASSUME NEW d \in Clis, d # c, cmd'[d] # NoCommand
          PROVE  HasRules(cmd'[d].doc) /\ HasRules(cmd'[d].got)
      <4>1. cmd'[d] = Disturb(c)[d]
        BY <3>2, <3>3
      <4>2. cmd[d] # NoCommand
        BY <3>3, <4>1, DisturbFacts
      <4>3. Disturb(c)[d].doc = cmd[d].doc /\ Disturb(c)[d].got = cmd[d].got
        BY <3>3, <4>2, DisturbFacts
      <4> QED
        BY <4>1, <4>2, <4>3 DEF RulesInv
    <3>4. HasRules(cmd'[c].doc) /\ HasRules(cmd'[c].got)
      BY <1>0, <3>1, <3>2 DEF RulesInv
    <3> QED
      BY <1>0, <2>1, <3>3, <3>4 DEF RulesInv
  <2> QED
    BY <1>6, <2>2, <2>3 DEF Stop
<1>7. CASE \E e \in Edits : Type(e)
  <2>1. PICK e \in Edits : Type(e)
    BY <1>7
  <2> DEFINE d == Entry(e[2], e[3]) ++ files[e[1]].doc
  <2>2. files' = [files EXCEPT ![e[1]] = [ok |-> TRUE, doc |-> d]] /\ e[1] \in Layers
        /\ cmd' = DisturbAll /\ UNCHANGED live
    BY <2>1, EditAssumption DEF Type, EditFile
  <2>3. HasRules(Entry(e[2], e[3]))
    BY RuleAssumption DEF HasRules, Entry
  <2>4. HasRules(d)
    BY <2>2, <2>3, HasRulesOver DEF RulesInv
  <2> HIDE DEF d
  <2>5. [ok |-> TRUE, doc |-> d].doc = d
    OBVIOUS
  <2>6. \A x \in Layers : HasRules(files'[x].doc)
    BY <1>1, <2>2, <2>4, <2>5
  <2> QED
    BY <1>3, <2>2, <2>6 DEF RulesInv
<1>8. CASE \E l \in {e[1] : e \in Edits} : Garble(l)
  <2>1. PICK l \in {e[1] : e \in Edits} : Garble(l)
    BY <1>8
  <2>2. files' = [files EXCEPT ![l] = [files[l] EXCEPT !.ok = FALSE]] /\ l \in Layers
        /\ cmd' = DisturbAll /\ UNCHANGED live
    BY <2>1, EditAssumption DEF Garble, EditFile
  <2>3. [files[l] EXCEPT !.ok = FALSE].doc = files[l].doc
    BY <2>2 DEF FilesInv
  <2>4. HasRules([files[l] EXCEPT !.ok = FALSE].doc)
    BY <2>2, <2>3 DEF RulesInv
  <2>5. \A x \in Layers : HasRules(files'[x].doc)
    BY <1>1, <2>2, <2>4
  <2> QED
    BY <1>3, <2>2, <2>5 DEF RulesInv
<1>9. CASE UNCHANGED editVars
  BY <1>9 DEF editVars, vars, RulesInv
<1> QED
  BY <1>2, <1>4, <1>5, <1>6, <1>7, <1>8, <1>9 DEF EditsNext, Others, Next

-----------------------------------------------------------------------------
(* What the operator did in the monitor stands in the local file, over the *)
(* lists of every other layer, and in the live policy.                     *)

MaskedIn(M, p) == M # {} => "rules" \in DOMAIN p /\ M \subseteq ToSet(p["rules"])

ListedIn(R, B, p) ==
    /\ R \cup B # {} => {"exact", "exact_ci"} \subseteq DOMAIN p
    /\ \A ph \in R : is_allowed(p, ph)
    /\ \A ph \in B : ~is_allowed(p, ph)

Stands(p) == MaskedIn(panel.masked, p) /\ ListedIn(panel.revealed, panel.barred, p)

StandInv == Stands(files["local"].doc) /\ (live # NoPolicy => Stands(live))

LEMMA MaskedLess ==
    ASSUME NEW p, NEW M, MaskedIn(M, p), NEW N \in SUBSET M
    PROVE  MaskedIn(N, p)
  BY DEF MaskedIn

LEMMA ListedLess ==
    ASSUME NEW p, NEW R, NEW B, ListedIn(R, B, p), NEW Q \in SUBSET R, NEW C \in SUBSET B
    PROVE  ListedIn(Q, C, p)
  BY DEF ListedIn

LEMMA MaskedSame ==
    ASSUME NEW p, NEW q, NEW M, MaskedIn(M, p), NEW S, Agree(q, p, S), "rules" \notin S
    PROVE  MaskedIn(M, q)
  BY DEF MaskedIn, Agree

LEMMA ListedSame ==
    ASSUME NEW p, NEW q, NEW R, NEW B, ListedIn(R, B, p), NEW S, Agree(q, p, S),
           "exact" \notin S, "exact_ci" \notin S
    PROVE  ListedIn(R, B, q)
<1>1. CASE R \cup B = {}
  BY <1>1 DEF ListedIn
<1>2. CASE R \cup B # {}
  <2>1. /\ {"exact", "exact_ci"} \subseteq DOMAIN q
        /\ q["exact"] = p["exact"] /\ q["exact_ci"] = p["exact_ci"]
    BY <1>2 DEF ListedIn, Agree
  <2> QED
    BY <2>1 DEF ListedIn, is_allowed
<1> QED
  BY <1>1, <1>2

\* A policy or a document with the same lists.
LEMMA StandsSame ==
    ASSUME NEW p, NEW q, Stands(p), NEW S, Agree(q, p, S), S \cap Lists = {}, panel' = panel
    PROVE  Stands(q)'
<1>1. "rules" \notin S /\ "exact" \notin S /\ "exact_ci" \notin S
  BY DEF Lists
<1>2. MaskedIn(panel.masked, q) /\ ListedIn(panel.revealed, panel.barred, q)
  BY <1>1, MaskedSame, ListedSame DEF Stands
<1> QED
  BY <1>2 DEF Stands

LEMMA StandsRestricted ==
    ASSUME NEW p, NEW q, Stands(p), RestrictTo(q, Lists) = RestrictTo(p, Lists), panel' = panel
    PROVE  Stands(q)'
<1>1. /\ DOMAIN q \cap Lists = DOMAIN p \cap Lists
      /\ \A k \in DOMAIN q \cap Lists : q[k] = p[k]
  BY RestrictEqual
<1>2. Agree(q, p, (DOMAIN q \cup DOMAIN p) \ Lists)
  BY <1>1 DEF Agree
<1>3. ((DOMAIN q \cup DOMAIN p) \ Lists) \cap Lists = {}
  OBVIOUS
<1> DEFINE S == (DOMAIN q \cup DOMAIN p) \ Lists
<1> HIDE DEF S
<1> QED
  BY <1>2, <1>3, StandsSame DEF S

\* The local file decides what is loaded of the lists it has.
LEMMA LoadStands ==
    ASSUME Stands(files["local"].doc), load(files) # NoPolicy
    PROVE  Stands(load(files))
<1> DEFINE doc == files["local"].doc
<1>1. \A k \in Lists \cap DOMAIN doc : k \in DOMAIN load(files) /\ load(files)[k] = doc[k]
  BY LocalWins DEF Lists, EngineKeys
<1>2. MaskedIn(panel.masked, load(files))
  BY <1>1 DEF Stands, MaskedIn, Lists
<1>3. ListedIn(panel.revealed, panel.barred, load(files))
  <2>1. CASE panel.revealed \cup panel.barred = {}
    BY <2>1 DEF ListedIn
  <2>2. CASE panel.revealed \cup panel.barred # {}
    <3>1. {"exact", "exact_ci"} \subseteq DOMAIN doc
      BY <2>2 DEF Stands, ListedIn
    <3>2. /\ {"exact", "exact_ci"} \subseteq DOMAIN load(files)
          /\ load(files)["exact"] = doc["exact"] /\ load(files)["exact_ci"] = doc["exact_ci"]
      BY <1>1, <3>1 DEF Lists
    <3> QED
      BY <3>2 DEF Stands, ListedIn, is_allowed
  <2> QED
    BY <2>1, <2>2
<1> QED
  BY <1>2, <1>3 DEF Stands

LEMMA StandsUntouched ==
    \A p : panel = Untouched => Stands(p)
  BY DEF Untouched, Stands, MaskedIn, ListedIn

\* The steps of commands, editor and proxy.
LEMMA OthersStand ==
    ASSUME TypeInv, StandInv, Others
    PROVE  StandInv'
<1> USE DEF TypeInv
<1>1. CASE Overtaken
  <2>1. panel' = Untouched
    BY <1>1 DEF Others
  <2> QED
    BY <2>1 DEF StandInv, Untouched, Stands, MaskedIn, ListedIn
<1>2. CASE ~Overtaken
  <2>1. panel' = panel
    BY <1>2 DEF Others
  <2>2. RestrictTo(files'["local"].doc, Lists) = RestrictTo(files["local"].doc, Lists)
    BY <1>2 DEF Overtaken
  <2>3. Stands(files["local"].doc)'
    <3> DEFINE p == files["local"].doc
               q == files'["local"].doc
    <3>1. Stands(p) /\ RestrictTo(q, Lists) = RestrictTo(p, Lists)
      BY <2>2 DEF StandInv
    <3>2. MaskedIn(panel'.masked, q) /\ ListedIn(panel'.revealed, panel'.barred, q)
      BY <2>1, <3>1, StandsRestricted DEF Stands
    <3> QED
      BY <3>2 DEF Stands
  <2>4. ASSUME NEW S, live # NoPolicy, Agree(live', live, S), S \cap Lists = {}
        PROVE  Stands(live)'
    <3>1. MaskedIn(panel'.masked, live') /\ ListedIn(panel'.revealed, panel'.barred, live')
      BY <2>1, <2>4, StandsSame DEF StandInv, Stands
    <3> QED
      BY <3>1 DEF Stands
  <2>5. load(files) # NoPolicy => Stands(load(files))
    BY LoadStands DEF StandInv
  <2>6. ASSUME NEW c \in Clis, Step(c), live' # NoPolicy
        PROVE  Stands(live)'
    <3>1. CASE UNCHANGED live
      BY <2>1, <2>6, <3>1 DEF StandInv, Stands
    <3>2. CASE SetEnabled(c) \/ SetMl(c)
      <4>1. live # NoPolicy /\ \E k \in {"enabled", "ml"} : \E v : live' = [live EXCEPT ![k] = v]
        BY <3>2 DEF SetEnabled, SetMl, Serve, Reachable
      <4>2. Agree(live', live, {"enabled", "ml"}) /\ {"enabled", "ml"} \cap Lists = {}
        BY <4>1 DEF Agree, Lists
      <4> QED
        BY <2>4, <4>1, <4>2
    <3>3. CASE PutPatch(c) /\ live' # live
      <4>1. live # NoPolicy /\ live' = MergeOnto(Change(c)) /\ At(c, "patch")
        BY <3>3 DEF PutPatch, put_config, Serve, Reachable
      <4>2. DOMAIN Change(c) \cap Lists = {}
        BY <4>1, AtFacts, ChangeFacts
      <4>3. "ml" \in DOMAIN live
        BY <4>1 DEF LiveInv, EngineKeys
      <4> DEFINE patch == Change(c)
                 S == DOMAIN patch \cup {"ml"}
      <4>4. live' = MergeOnto(patch) /\ S \cap Lists = {}
        BY <4>1, <4>2 DEF Lists
      <4> HIDE DEF patch
      <4>5. /\ DOMAIN MergeOnto(patch) = DOMAIN patch \cup DOMAIN live
            /\ \A k \in (DOMAIN patch \cup DOMAIN live) \ {"ml"} :
                   MergeOnto(patch)[k] = IF k \in DOMAIN patch THEN patch[k] ELSE live[k]
        BY <4>1, PutFacts
      <4>6. Agree(live', live, S)
        BY <4>3, <4>4, <4>5 DEF Agree
      <4> HIDE DEF S
      <4> QED
        BY <2>4, <4>1, <4>4, <4>6
    <3>4. CASE PutWhole(c) /\ live' # live
      <4> DEFINE patch == Change(c) ++ cmd[c].got
                 S == (DOMAIN patch \cup {"ml"}) \ Lists
      <4>1. live # NoPolicy /\ live' = MergeOnto(patch) /\ At(c, "put") /\ cmd' = Answered(c)
        BY <3>4 DEF PutWhole, put_config, Serve, Reachable
      <4>2. IsCommand(cmd[c]) /\ cmd[c] # NoCommand /\ cmd[c].todo = <<"put">>
        <5>1. IsCommand(cmd[c]) /\ cmd[c] # NoCommand /\ cmd[c].todo # <<>>
              /\ Head(cmd[c].todo) = "put"
          BY <4>1, AtFacts
        <5> QED
          BY <5>1, LeftFacts DEF IsCommand
      <4>3. cmd'[c].todo # cmd[c].todo
        <5>1. Len(<<"put">>) = 1 /\ <<"put">> # <<>>
          BY TupleFacts
        <5>2. Len(cmd[c].todo) = 1 /\ cmd[c].todo # <<>>
          BY <4>2, <5>1
        <5>3. cmd'[c].todo = <<>>
          BY <4>1, <4>2, <5>2, AnsweredActs
        <5> QED
          BY <5>2, <5>3
      <4>4. RestrictTo(cmd[c].got, Lists) = RestrictTo(live, Lists)
        BY <1>2, <2>6, <4>1, <4>3 DEF Overtaken
      <4>5. DOMAIN Change(c) \cap Lists = {}
        BY <4>2, ChangeFacts
      <4>6. \A k \in Lists : /\ k \in DOMAIN live /\ k \in DOMAIN cmd[c].got
                             /\ cmd[c].got[k] = live[k]
        <5>1. Lists \subseteq DOMAIN live
          BY <4>1 DEF LiveInv, Lists, EngineKeys
        <5>2. /\ DOMAIN cmd[c].got \cap Lists = DOMAIN live \cap Lists
              /\ \A k \in DOMAIN cmd[c].got \cap Lists : cmd[c].got[k] = live[k]
          BY <4>4, RestrictEqual
        <5> QED
          BY <5>1, <5>2
      <4>7. \A k \in Lists : k \in DOMAIN patch /\ patch[k] = live[k]
        <5>1. \A k \in Lists : k \notin DOMAIN Change(c)
          BY <4>5
        <5> QED
          BY <4>6, <5>1 DEF ++
      <4> HIDE DEF patch
      <4>8. /\ DOMAIN MergeOnto(patch) = DOMAIN patch \cup DOMAIN live
            /\ \A k \in (DOMAIN patch \cup DOMAIN live) \ {"ml"} :
                   MergeOnto(patch)[k] = IF k \in DOMAIN patch THEN patch[k] ELSE live[k]
        BY <4>1, PutFacts
      <4>9. "ml" \notin Lists
        BY DEF Lists
      <4>10. Agree(live', live, S)
        <5>1. DOMAIN live' \ S = DOMAIN live \ S
          BY <4>1, <4>6, <4>8
        <5>2. ASSUME NEW k \in DOMAIN live' \ S
              PROVE  live'[k] = live[k]
          <6>1. CASE k \in Lists
            BY <4>1, <4>7, <4>8, <4>9, <6>1
          <6>2. CASE k \notin Lists
            BY <4>1, <4>8, <5>2, <6>2
          <6> QED
            BY <6>1, <6>2
        <5> QED
          BY <5>1, <5>2 DEF Agree
      <4>11. S \cap Lists = {}
        OBVIOUS
      <4> HIDE DEF S
      <4> QED
        BY <2>4, <4>1, <4>10, <4>11
    <3>5. CASE ApplyProfile(c)
      <4> DEFINE o == for_profile(cmd[c].req.value)
      <4>1. live # NoPolicy /\ live' = o ++ live
        BY <3>5 DEF ApplyProfile, Serve, Reachable
      <4>2. Agree(live', live, ProfileKeys)
        BY <4>1, ForProfile, AgreeOver
      <4>3. ProfileKeys \cap Lists = {}
        BY DEF ProfileKeys, Lists
      <4> QED
        BY <2>4, <4>1, <4>2, <4>3
    <3>6. CASE Reload(c) /\ live' # live
      <4>1. load(files) # NoPolicy /\ live' = Reloaded(load(files))
        BY <3>6 DEF Reload
      <4> DEFINE S == {"enabled", "ml"}
                 p == load(files)
                 q == Reloaded(load(files))
      <4>2. Agree(q, p, S) /\ S \cap Lists = {}
        BY <4>1, ReloadedFacts DEF Agree, Lists
      <4>3. Stands(p)
        BY <2>5, <4>1
      <4> HIDE DEF S, p, q
      <4>4. "rules" \notin S /\ "exact" \notin S /\ "exact_ci" \notin S
        BY <4>2 DEF Lists
      <4>5. MaskedIn(panel.masked, q) /\ ListedIn(panel.revealed, panel.barred, q)
        BY <4>2, <4>3, <4>4, MaskedSame, ListedSame DEF Stands
      <4>6. live' = q
        BY <4>1 DEF q
      <4> QED
        BY <2>1, <4>5, <4>6 DEF Stands
    <3> QED
      BY <2>6, <3>1, <3>2, <3>3, <3>4, <3>5, <3>6 DEF Step, Begin, Refuse, Base, ReadFile,
         WriteFile, Route, Fetch, ReloadBroker, Fail, Exit
  <2>7. ASSUME NEW p \in Ports, Start(p)
        PROVE  Stands(live)'
    <3>1. load(files) # NoPolicy /\ live' = load(files)
      BY <2>7 DEF Start
    <3>2. MaskedIn(panel.masked, load(files)) /\ ListedIn(panel.revealed, panel.barred, load(files))
      BY <2>5, <3>1 DEF Stands
    <3> QED
      BY <2>1, <3>1, <3>2 DEF Stands
  <2>8. CASE Stop
    BY <2>3, <2>8 DEF Stop, StandInv
  <2>9. CASE (\E e \in Edits : Type(e)) \/ (\E l \in {e[1] : e \in Edits} : Garble(l))
    <3>1. UNCHANGED live
      BY <2>9 DEF Type, Garble, EditFile
    <3>2. (live # NoPolicy => Stands(live))'
      BY <2>1, <3>1 DEF StandInv, Stands
    <3> QED
      BY <2>3, <3>2 DEF StandInv
  <2>10. Next
    BY DEF Others
  <2> QED
    BY <2>3, <2>6, <2>7, <2>8, <2>9, <2>10 DEF Next, StandInv
<1> QED
  BY <1>1, <1>2
\* The operator's requests.
LEMMA MaskedDrop ==
    ASSUME NEW doc, HasRules(doc), NEW M, MaskedIn(M, doc), NEW ph
    PROVE  MaskedIn(M \ {ph}, remove_custom_replacement(doc, ph))
<1>1. CASE M \ {ph} = {}
  BY <1>1 DEF MaskedIn
<1>3. CASE form["local"] # "table"
  BY <1>3, MaskedLess DEF remove_custom_replacement
<1>2. CASE M \ {ph} # {} /\ form["local"] = "table"
  <2> DEFINE rules == DropFirst(doc["rules"], ph)
             d == remove_custom_replacement(doc, ph)
  <2>1. "rules" \in DOMAIN doc /\ M \subseteq ToSet(doc["rules"]) /\ doc["rules"] \in Seq(Rules)
    BY <1>2 DEF MaskedIn, HasRules
  <2>2. ToSet(doc["rules"]) \ {ph} \subseteq ToSet(rules)
    BY <2>1, DropFacts
  <2>3. M \ {ph} \subseteq ToSet(rules)
    BY <2>1, <2>2
  <2>4. rules # <<>>
    BY <1>2, <2>3 DEF ToSet
  <2>5. d = WithRules(doc, rules)
    BY <1>2, <2>1 DEF remove_custom_replacement
  <2> HIDE DEF rules, d
  <2>6. "rules" \in DOMAIN d /\ d["rules"] = rules
    BY <2>4, <2>5, WithRulesFacts
  <2>7. MaskedIn(M \ {ph}, d)
    BY <2>3, <2>6 DEF MaskedIn
  <2> QED
    BY <2>7 DEF d
<1> QED
  BY <1>1, <1>2, <1>3

LEMMA MaskedAppend ==
    ASSUME HasRules(files["local"].doc), NEW M, MaskedIn(M, files["local"].doc), NEW ph \in Rules
    PROVE  MaskedIn(M \cup {ph}, persist_custom_replacement(files["local"].doc, ph))
<1> DEFINE doc == files["local"].doc
           old == Local("rules", <<>>)
           rules == Append(old, ph)
           d == persist_custom_replacement(doc, ph)
<1>1. old \in Seq(Rules) /\ M \subseteq ToSet(old)
  BY DEF Local, HasRules, MaskedIn
<1> HIDE DEF old
<1>2. rules # <<>> /\ ToSet(old) \cup {ph} \subseteq ToSet(rules)
  BY <1>1, AppendFacts
<1>3. d = WithRules(doc, rules)
  BY DEF persist_custom_replacement, old
<1> HIDE DEF rules, d, doc
<1>4. "rules" \in DOMAIN d /\ d["rules"] = rules
  BY <1>2, <1>3, WithRulesFacts
<1>5. MaskedIn(M \cup {ph}, d)
  BY <1>1, <1>2, <1>4 DEF MaskedIn
<1> QED
  BY <1>5 DEF d, doc

\* What the operator is told stands in the file that was written, and in the
\* live policy at once.
LEMMA NotedStands ==
    ASSUME FilesInv, StandInv, NEW can \in BOOLEAN, NEW M, NEW R, NEW B, NEW d,
           files' = Saved(can, d), Note(can, M, R, B),
           MaskedIn(M, d) /\ ListedIn(R, B, d),
           MaskedIn(M, live'), ListedIn(R, B, live')
    PROVE  StandInv'
<1>1. CASE can
  <2>1. panel'.masked = M /\ panel'.revealed = R /\ panel'.barred = B
    BY <1>1 DEF Note
  <2>2. files'["local"].doc = d
    <3>1. "local" \in Layers /\ "local" \in DOMAIN files /\ "doc" \in DOMAIN files["local"]
      BY DEF FilesInv, Layers
    <3>2. files' = [files EXCEPT !["local"].doc = d]
      BY <1>1 DEF Saved
    <3> QED
      BY <3>1, <3>2
  <2> QED
    BY <1>1, <2>1, <2>2 DEF StandInv, Stands
<1>2. CASE ~can
  <2> DEFINE doc == files["local"].doc
             N == M \cap panel.masked
             Q == R \cap panel.revealed
             C == B \cap panel.barred
  <2>1. panel'.masked = N /\ panel'.revealed = Q /\ panel'.barred = C
    BY <1>2 DEF Note
  <2>2. files'["local"].doc = doc
    BY <1>2 DEF Saved
  <2>3. MaskedIn(panel.masked, doc) /\ ListedIn(panel.revealed, panel.barred, doc)
    BY DEF StandInv, Stands
  <2>4. /\ N \in SUBSET M /\ N \in SUBSET panel.masked
        /\ Q \in SUBSET R /\ Q \in SUBSET panel.revealed
        /\ C \in SUBSET B /\ C \in SUBSET panel.barred
    OBVIOUS
  <2> HIDE DEF N, Q, C, doc
  <2>5. MaskedIn(N, doc) /\ MaskedIn(N, live')
    BY <2>3, <2>4, MaskedLess
  <2>6. ListedIn(Q, C, doc) /\ ListedIn(Q, C, live')
    BY <2>3, <2>4, ListedLess
  <2> QED
    BY <2>1, <2>2, <2>5, <2>6 DEF StandInv, Stands
<1> QED
  BY <1>1, <1>2

LEMMA ListedAgree ==
    ASSUME NEW p, NEW q, NEW R, NEW B, ListedIn(R, B, p),
           {"exact", "exact_ci"} \subseteq DOMAIN q,
           q["exact"] = p["exact"], q["exact_ci"] = p["exact_ci"]
    PROVE  ListedIn(R, B, q)
  BY DEF ListedIn, is_allowed

LEMMA ClickStands ==
    ASSUME TypeInv, RulesInv, StandInv, Clicks
    PROVE  StandInv'
<1> USE DEF TypeInv
<1> DEFINE doc == files["local"].doc
           M == panel.masked
           R == panel.revealed
           B == panel.barred
<1>1. live # NoPolicy /\ {"rules", "exact", "exact_ci"} \subseteq DOMAIN live
      /\ HasRules(doc) /\ live["rules"] \in Seq(Rules)
  <2>1. live # NoPolicy
    BY ClickLive
  <2>2. {"rules", "exact", "exact_ci"} \subseteq DOMAIN live
    BY <2>1 DEF LiveInv, EngineKeys
  <2>3. "local" \in Layers
    BY DEF Layers
  <2> QED
    BY <2>1, <2>2, <2>3 DEF RulesInv, HasRules
<1>2. /\ MaskedIn(M, doc) /\ ListedIn(R, B, doc)
      /\ MaskedIn(M, live) /\ ListedIn(R, B, live)
  BY <1>1 DEF StandInv, Stands
<1>3. ASSUME NEW rule \in Rules, custom_mask(rule)
      PROVE  StandInv'
  <2> DEFINE d == persist_custom_replacement(doc, rule)
  <2>1. /\ DOMAIN live' = DOMAIN live /\ live'["rules"] = Append(live["rules"], rule)
        /\ live'["exact"] = live["exact"] /\ live'["exact_ci"] = live["exact_ci"]
        /\ files' = Saved(RulePersists, d) /\ Note(RulePersists, M \cup {rule}, R, B)
    BY <1>1, <1>3 DEF custom_mask
  <2>2. MaskedIn(M \cup {rule}, d)
    BY <1>1, <1>2, MaskedAppend
  <2>3. ListedIn(R, B, d)
    <3>1. Agree(doc, d, {"rules"})
      BY WithRulesFacts DEF persist_custom_replacement
    <3>2. Agree(d, doc, {"rules"})
      BY <3>1, AgreeSwap
    <3> DEFINE S == {"rules"}
    <3>3. "exact" \notin S /\ "exact_ci" \notin S /\ Agree(d, doc, S)
      BY <3>2
    <3> HIDE DEF S, d, doc, R, B
    <3> QED
      BY <1>2, <3>3, ListedSame
  <2>4. MaskedIn(M \cup {rule}, live')
    <3>1. ToSet(live["rules"]) \cup {rule} \subseteq ToSet(live'["rules"])
      BY <1>1, <2>1, AppendFacts
    <3> QED
      BY <1>1, <1>2, <2>1, <3>1 DEF MaskedIn
  <2> HIDE DEF d, R, B
  <2>5. ListedIn(R, B, live')
    BY <1>1, <1>2, <2>1, ListedAgree
  <2> QED
    BY <2>1, <2>2, <2>3, <2>4, <2>5, PersistFacts, NotedStands
<1>4. \A ph : MaskedIn(M \ {ph}, remove_custom_replacement(doc, ph))
  BY <1>1, <1>2, MaskedDrop
<1>5. \A ph : ListedIn(R, B, remove_custom_replacement(doc, ph))
  <2> SUFFICES ASSUME NEW ph
               PROVE  ListedIn(R, B, remove_custom_replacement(doc, ph))
    OBVIOUS
  <2> DEFINE d == remove_custom_replacement(doc, ph)
             S == {"rules"}
  <2>1. Agree(doc, d, {"rules"})
    BY RemovalAgrees
  <2>2. Agree(d, doc, S) /\ "exact" \notin S /\ "exact_ci" \notin S
    BY <2>1, AgreeSwap
  <2> HIDE DEF S, d, doc, R, B
  <2>3. ListedIn(R, B, d)
    BY <1>2, <2>2, ListedSame
  <2> QED
    BY <2>3 DEF d
<1>6. \A ph : ToSet(live["rules"]) \ {ph} \subseteq ToSet(DropFirst(live["rules"], ph))
  BY <1>1, DropFacts
<1>7. ASSUME NEW rule \in Rules, custom_masks_remove(rule)
      PROVE  StandInv'
  <2> DEFINE d == remove_custom_replacement(doc, rule)
  <2>1. /\ DOMAIN live' = DOMAIN live /\ live'["rules"] = DropFirst(live["rules"], rule)
        /\ live'["exact"] = live["exact"] /\ live'["exact_ci"] = live["exact_ci"]
        /\ files' = Saved(Persists, d) /\ Note(Persists, M \ {rule}, R, B)
    BY <1>1, <1>7 DEF custom_masks_remove
  <2>2. MaskedIn(M \ {rule}, d) /\ ListedIn(R, B, d)
    BY <1>4, <1>5
  <2>3. MaskedIn(M \ {rule}, live')
    BY <1>1, <1>2, <1>6, <2>1 DEF MaskedIn
  <2> HIDE DEF d, R, B
  <2>4. ListedIn(R, B, live')
    BY <1>1, <1>2, <2>1, ListedAgree
  <2> QED
    BY <2>1, <2>2, <2>3, <2>4, PersistFacts, NotedStands
\* A document that is left with the whole lists of the policy.
<1>8. ASSUME NEW x, NEW N, MaskedIn(N, x)
      PROVE  MaskedIn(N, persist_local_allow_lists(x, live'))
  <2> DEFINE y == persist_local_allow_lists(x, live')
             S == {"exact", "exact_ci"}
  <2>1. Agree(x, y, {"exact", "exact_ci"})
    BY AllowListFacts
  <2>2. Agree(y, x, S) /\ "rules" \notin S
    BY <2>1, AgreeSwap
  <2> HIDE DEF y, S
  <2>3. MaskedIn(N, y)
    BY <1>8, <2>2, MaskedSame
  <2> QED
    BY <2>3 DEF y
<1>9. ASSUME NEW x, NEW Q, NEW C, ListedIn(Q, C, live')
      PROVE  ListedIn(Q, C, persist_local_allow_lists(x, live'))
  <2> DEFINE y == persist_local_allow_lists(x, live')
  <2>1. /\ {"exact", "exact_ci"} \subseteq DOMAIN y
        /\ y["exact"] = live'["exact"] /\ y["exact_ci"] = live'["exact_ci"]
    BY AllowListFacts
  <2> HIDE DEF y
  <2>2. ListedIn(Q, C, y)
    BY <1>9, <2>1, ListedAgree
  <2> QED
    BY <2>2 DEF y
<1>10. ASSUME NEW ph \in Phrases, remask_keyphrase(ph)
       PROVE  StandInv'
  <2> DEFINE d == persist_local_allow_lists(doc, live')
  <2>1. /\ DOMAIN live' = DOMAIN live /\ live'["rules"] = live["rules"]
        /\ live'["exact"] = live["exact"] \ {ph} /\ live'["exact_ci"] = live["exact_ci"] \ {ph}
        /\ files' = Saved(Persists, d) /\ Note(Persists, M, R \ {ph}, B \cup {ph})
    BY <1>1, <1>10 DEF remask_keyphrase
  <2>2. MaskedIn(M, live')
    BY <1>2, <2>1 DEF MaskedIn
  <2>3. ListedIn(R \ {ph}, B \cup {ph}, live')
    BY <1>1, <1>2, <2>1 DEF ListedIn, is_allowed
  <2>4. MaskedIn(M, d) /\ ListedIn(R \ {ph}, B \cup {ph}, d)
    BY <1>2, <1>8, <1>9, <2>3
  <2> HIDE DEF d
  <2> QED
    BY <2>1, <2>2, <2>3, <2>4, PersistFacts, NotedStands
<1>11. ASSUME NEW ph \in Phrases, NEW backing \in Rules \cup {NoRule}, reveal_keyphrase(ph, backing)
       PROVE  StandInv'
  <2> DEFINE removed == Contains(live["rules"], backing)
             x == IF removed THEN remove_custom_replacement(doc, backing) ELSE doc
             N == M \ {backing}
             d == persist_local_allow_lists(x, live')
             rules == DropFirst(live["rules"], backing)
  <2>1. /\ DOMAIN live' = DOMAIN live /\ live'["rules"] = rules
        /\ live'["exact"] = live["exact"] \cup {ph} /\ live'["exact_ci"] = live["exact_ci"]
        /\ files' = Saved(Persists, d) /\ Note(Persists, N, R \cup {ph}, B \ {ph})
    BY <1>1, <1>11 DEF reveal_keyphrase
  <2>2. MaskedIn(N, x)
    BY <1>2, <1>4, MaskedLess
  <2>3. MaskedIn(N, live')
    BY <1>1, <1>2, <1>6, <2>1 DEF MaskedIn
  <2>4. ListedIn(R \cup {ph}, B \ {ph}, live')
    BY <1>1, <1>2, <2>1 DEF ListedIn, is_allowed
  <2> HIDE DEF x, N
  <2>5. MaskedIn(N, d) /\ ListedIn(R \cup {ph}, B \ {ph}, d)
    BY <1>8, <1>9, <2>2, <2>4
  <2> HIDE DEF d
  <2> QED
    BY <2>1, <2>3, <2>4, <2>5, PersistFacts, NotedStands
<1> QED
  BY <1>3, <1>7, <1>10, <1>11 DEF Clicks

LEMMA StandsFirst == EditsInit => StandInv
  BY StandsUntouched DEF EditsInit, StandInv, Init

\* An edit of the monitor outlives every reload and restart.  It is in the
\* local file, whose lists decide what is loaded (LoadStands), and in the live
\* policy, which a reload takes from the files and a command leaves alone; and
\* the file's rules are sequences of rules (RulesInv), so dropping the first
\* match leaves all the others.
THEOREM EditsOutlive == EditsSpec => []EditsStand
<1> DEFINE Inv == TypeInv /\ RulesInv /\ StandInv
<1>1. EditsInit => Inv
  BY TypeInit, RulesInit, StandsFirst
<1>2. Inv /\ [EditsNext]_editVars => Inv'
  <2> SUFFICES ASSUME Inv, [EditsNext]_editVars
               PROVE  Inv'
    OBVIOUS
  <2>1. TypeInv'
    BY TypeStep
  <2>2. CASE EditsNext
    <3>1. RulesInv'
      BY <2>2, RulesStep
    <3>2. StandInv'
      BY <2>2, OthersStand, ClickStands DEF EditsNext
    <3> QED
      BY <2>1, <3>1, <3>2
  <2>3. CASE UNCHANGED editVars
    <3>1. RulesInv' /\ StandInv'
      BY <2>3 DEF editVars, vars, RulesInv, StandInv, Stands, MaskedIn, ListedIn
    <3> QED
      BY <2>1, <3>1
  <2> QED
    BY <2>2, <2>3
<1>3. Inv => EditsStand
  <2> SUFFICES ASSUME Inv, Effective # NoPolicy
               PROVE  /\ panel.masked \subseteq ToSet(Effective["rules"])
                      /\ \A ph \in panel.revealed : is_allowed(Effective, ph)
                      /\ \A ph \in panel.barred : ~is_allowed(Effective, ph)
    BY DEF EditsStand
  <2>1. Stands(Effective)
    BY LoadStands DEF Effective, StandInv
  <2> QED
    BY <2>1 DEF Stands, MaskedIn, ListedIn
<1> QED
  BY <1>1, <1>2, <1>3, PTL DEF EditsSpec
-----------------------------------------------------------------------------
(* A command that nothing disturbs.                                        *)

\* The proxy runs what its files say, but for the switches.
InStep == load(files) # NoPolicy /\ (live # NoPolicy => live = Reloaded(load(files)))

NothingLater(r) ==
    \A l \in IF Clears(r) THEN DOMAIN files \ {r.scope} ELSE Later(r.scope) :
        DOMAIN files[l].doc \cap Sets(r) = {}

Toggles == {"enabled", "ml"}

\* The file is written; the proxy has yet to follow.
Written(c) == cmd[c].req.scope \in Layers /\ Head(cmd[c].todo) \in {"reload"} \cup Toggles

\* Before the command has changed anything, it has read what is still so.
Unmade(c) ==
    LET r == cmd[c].req
    IN  /\ InStep /\ NothingLater(r)
        /\ cmd[c].expect = {Asked(Effective, r)}
        /\ r.set = "categories" /\ Head(cmd[c].todo) # "base" =>
               cmd[c].base = Effective["categories"]
        /\ Head(cmd[c].todo) = "write" => cmd[c].doc = files[r.scope].doc
        /\ Head(cmd[c].todo) = "put" => live # NoPolicy /\ cmd[c].got = live
        /\ Head(cmd[c].todo) = "patch" => ~Clears(r)
        /\ r.set = "profile" /\ Head(cmd[c].todo) \in {"read", "write"} => live = NoPolicy

\* Once it is in the file, a reload brings it, or the post of a switch.
Made(c) ==
    LET r == cmd[c].req
    IN  /\ load(files) # NoPolicy
        /\ live = NoPolicy => cmd[c].expect = {load(files)}
        /\ live # NoPolicy =>
               cmd[c].expect = {IF r.set \in Toggles THEN Asked(live, r) ELSE Reloaded(load(files))}
        /\ live # NoPolicy /\ (reloading = c \/ (Head(cmd[c].todo) = "reload" /\ r.set = "ml")) =>
               live = Reloaded(load(files))

Undisturbed(c) ==
    /\ \A d \in Clis \ {c} : cmd[d] = NoCommand
    /\ IF cmd[c].todo = <<>>
       THEN cmd[c].result \in {"session", "applied", "saved"} => cmd[c].expect = {Effective}
       ELSE /\ cmd[c].result = "none" /\ cmd[c].port = port
            /\ IF Written(c) THEN Made(c) ELSE Unmade(c)

AskInv == \A c \in Clis : cmd[c] # NoCommand => cmd[c].expect = {} \/ Undisturbed(c)

LEMMA FcnEqual ==
    \A f, g : IsFcn(f) /\ IsFcn(g) /\ DOMAIN f = DOMAIN g /\ (\A k \in DOMAIN f : f[k] = g[k])
                  => f = g
  BY DEF IsFcn

LEMMA SetIsOver ==
    ASSUME NEW f, IsFcn(f), NEW k \in DOMAIN f, NEW v
    PROVE  [f EXCEPT ![k] = v] = Entry(k, v) ++ f
<1> DEFINE g == [f EXCEPT ![k] = v]
           h == Entry(k, v) ++ f
<1>1. IsFcn(g) /\ DOMAIN g = DOMAIN f /\ \A x \in DOMAIN f : g[x] = IF x = k THEN v ELSE f[x]
  BY FcnFacts
<1>2. IsFcn(h) /\ DOMAIN h = DOMAIN f /\ \A x \in DOMAIN f : h[x] = IF x = k THEN v ELSE f[x]
  BY FcnFacts DEF ++, Entry
<1> HIDE DEF g, h
<1>3. g = h
  BY <1>1, <1>2, FcnEqual
<1> QED
  BY <1>3 DEF g, h

\* An overlay of the merged document is one of the policy.
LEMMA OverlayDeserialized ==
    ASSUME NEW m, NEW n, NEW X, DOMAIN X \subseteq EngineKeys \cup Entities,
           "profile" \in DOMAIN X => ProfileKeys \subseteq DOMAIN X,
           DOMAIN n = DOMAIN X \cup DOMAIN m,
           \A k \in DOMAIN n : n[k] = IF k \in DOMAIN X THEN X[k] ELSE m[k]
    PROVE  Deserialize(n) = X ++ Deserialize(m)
<1> DEFINE D == Deserialize(m)
           E == Deserialize(n)
           O == X ++ D
<1>1. /\ DOMAIN D = EngineKeys \cup (DOMAIN m \cap Entities)
      /\ \A k \in DOMAIN D : D[k] = IF k \in DOMAIN m THEN m[k] ELSE Fallback(Profile(m))[k]
  BY DeserializeFacts
<1>2. /\ DOMAIN E = EngineKeys \cup (DOMAIN n \cap Entities)
      /\ \A k \in DOMAIN E : E[k] = IF k \in DOMAIN n THEN n[k] ELSE Fallback(Profile(n))[k]
  BY DeserializeFacts
<1>3. IsFcn(E)
  BY FcnFacts DEF Deserialize
<1>4. /\ IsFcn(O) /\ DOMAIN O = DOMAIN X \cup DOMAIN D
      /\ \A k \in DOMAIN O : O[k] = IF k \in DOMAIN X THEN X[k] ELSE D[k]
  BY FcnFacts DEF ++
<1> HIDE DEF D, E, O
<1>5. DOMAIN E = DOMAIN O
  BY <1>1, <1>2, <1>4
<1>6. ASSUME NEW k \in DOMAIN E
      PROVE  E[k] = O[k]
  <2>1. CASE k \in DOMAIN X
    BY <1>2, <1>4, <1>5, <2>1
  <2>2. CASE k \notin DOMAIN X /\ k \in DOMAIN m
    BY <1>1, <1>2, <1>4, <1>5, <2>2
  <2>3. CASE k \notin DOMAIN X /\ k \notin DOMAIN m
    <3>1. k \in EngineKeys
      BY <1>2, <2>3
    <3>2. Fallback(Profile(n))[k] = Fallback(Profile(m))[k]
      <4>1. CASE "profile" \in DOMAIN X
        <5>1. k \in EngineKeys \ ProfileKeys
          BY <2>3, <3>1, <4>1
        <5> QED
          BY <5>1, FallbackFacts
      <4>2. CASE "profile" \notin DOMAIN X
        BY <4>2 DEF Profile
      <4> QED
        BY <4>1, <4>2
    <3>3. E[k] = Fallback(Profile(n))[k] /\ O[k] = Fallback(Profile(m))[k]
      BY <1>1, <1>2, <1>4, <1>5, <2>3, <3>1
    <3> QED
      BY <3>2, <3>3
  <2> QED
    BY <2>1, <2>2, <2>3
<1>7. E = O
  BY <1>3, <1>4, <1>5, <1>6, FcnEqual
<1> QED
  BY <1>7 DEF E, O, D

\* Keys written over a layer's, with none in a later one.
LEMMA OverlayLoads ==
    ASSUME NEW fs, DOMAIN fs = Layers, load(fs) # NoPolicy,
           NEW s \in Layers, NEW X, DOMAIN X \subseteq EngineKeys \cup Entities,
           "profile" \in DOMAIN X => ProfileKeys \subseteq DOMAIN X,
           \A k \in DOMAIN X \cap ({"operator"} \cup Entities) : X[k] # "broker",
           \A l \in Later(s) : DOMAIN fs[l].doc \cap DOMAIN X = {},
           NEW gs, DOMAIN gs = Layers, gs[s].ok, gs[s].doc = X ++ fs[s].doc,
           \A l \in Layers \ {s} : gs[l] = fs[l]
    PROVE  load(gs) # NoPolicy /\ load(gs) = X ++ load(fs)
<1> DEFINE m == merged_value(fs)
           n == merged_value(gs)
<1>1. DOMAIN gs[s].doc = DOMAIN X \cup DOMAIN fs[s].doc
      /\ \A k \in DOMAIN gs[s].doc : gs[s].doc[k] = IF k \in DOMAIN X THEN X[k] ELSE fs[s].doc[k]
  BY DEF ++
<1>2. /\ DOMAIN m = DOMAIN fs["local"].doc \cup DOMAIN fs["project"].doc \cup DOMAIN fs["user"].doc
      /\ \A k \in DOMAIN m : m[k] = IF k \in DOMAIN fs["local"].doc THEN fs["local"].doc[k]
                                    ELSE IF k \in DOMAIN fs["project"].doc
                                    THEN fs["project"].doc[k] ELSE fs["user"].doc[k]
  BY MergedFacts
<1>3. /\ DOMAIN n = DOMAIN gs["local"].doc \cup DOMAIN gs["project"].doc \cup DOMAIN gs["user"].doc
      /\ \A k \in DOMAIN n : n[k] = IF k \in DOMAIN gs["local"].doc THEN gs["local"].doc[k]
                                    ELSE IF k \in DOMAIN gs["project"].doc
                                    THEN gs["project"].doc[k] ELSE gs["user"].doc[k]
  BY MergedFacts
<1> HIDE DEF m, n
<1>4. DOMAIN n = DOMAIN X \cup DOMAIN m
      /\ \A k \in DOMAIN n : n[k] = IF k \in DOMAIN X THEN X[k] ELSE m[k]
  <2>1. CASE s = "local"
    <3>1. gs["project"] = fs["project"] /\ gs["user"] = fs["user"]
      BY <2>1 DEF Layers
    <3> QED
      BY <1>1, <1>2, <1>3, <2>1, <3>1
  <2>2. CASE s = "project"
    <3>1. gs["local"] = fs["local"] /\ gs["user"] = fs["user"]
      BY <2>2 DEF Layers
    <3>2. DOMAIN fs["local"].doc \cap DOMAIN X = {}
      BY <2>2 DEF Later
    <3> QED
      BY <1>1, <1>2, <1>3, <2>2, <3>1, <3>2
  <2>3. CASE s = "user"
    <3>1. gs["local"] = fs["local"] /\ gs["project"] = fs["project"]
      BY <2>3 DEF Layers
    <3>2. DOMAIN fs["local"].doc \cap DOMAIN X = {} /\ DOMAIN fs["project"].doc \cap DOMAIN X = {}
      BY <2>3 DEF Later
    <3> QED
      BY <1>1, <1>2, <1>3, <2>3, <3>1, <3>2
  <2> QED
    BY <2>1, <2>2, <2>3 DEF Layers
<1>5. Deserialize(n) = X ++ Deserialize(m)
  BY <1>4, OverlayDeserialized
<1>6. load(fs) = Deserialize(m) /\ Loadable(fs) /\ AcceptedByPolicy(Deserialize(m))
  BY LoadFacts DEF m
<1>7. Loadable(gs)
  <2>1. \A l \in DOMAIN gs : gs[l].ok
    BY <1>6 DEF Loadable
  <2>2. "secrets" \notin DOMAIN X
    BY SpellingAssumption DEF EngineKeys
  <2>3. no_inline_secret_values(m)
    BY <1>6 DEF Loadable, m
  <2>4. no_inline_secret_values(n)
    BY <1>4, <2>2, <2>3 DEF no_inline_secret_values
  <2> QED
    BY <2>1, <2>4 DEF Loadable, n
<1>8. AcceptedByPolicy(Deserialize(n))
  <2> DEFINE D == Deserialize(m)
             O == X ++ D
  <2>1. DOMAIN O = DOMAIN X \cup DOMAIN D
        /\ \A k \in DOMAIN O : O[k] = IF k \in DOMAIN X THEN X[k] ELSE D[k]
    BY DEF ++
  <2>2. "operator" \in DOMAIN D
    <3>1. "operator" \in EngineKeys
      BY DEF EngineKeys
    <3>2. DOMAIN D = EngineKeys \cup (DOMAIN m \cap Entities)
      BY DeserializeFacts
    <3> QED
      BY <3>1, <3>2
  <2>3. \A k \in {"operator"} \cup (DOMAIN D \cap Entities) : D[k] # "broker"
    BY <1>6 DEF AcceptedByPolicy
  <2> HIDE DEF O, D
  <2>4. \A k \in {"operator"} \cup (DOMAIN O \cap Entities) : O[k] # "broker"
    BY <2>1, <2>2, <2>3
  <2>5. Deserialize(n) = O
    BY <1>5 DEF O, D
  <2> QED
    BY <2>4, <2>5 DEF AcceptedByPolicy
<1>9. load(gs) # NoPolicy
  BY <1>7, <1>8, LoadFacts DEF n
<1>10. load(gs) = Deserialize(n)
  BY <1>9, LoadFacts DEF n
<1> QED
  BY <1>5, <1>6, <1>9, <1>10

\* A key taken out of the one layer that may have it.
LEMMA ClearLoads ==
    ASSUME NEW fs, DOMAIN fs = Layers, load(fs) # NoPolicy,
           NEW s \in Layers, NEW x \in Entities,
           \A l \in Layers \ {s} : x \notin DOMAIN fs[l].doc,
           NEW gs, DOMAIN gs = Layers, gs[s].ok,
           gs[s].doc = RestrictTo(fs[s].doc, DOMAIN fs[s].doc \ {x}),
           \A l \in Layers \ {s} : gs[l] = fs[l]
    PROVE  load(gs) # NoPolicy /\ load(gs) = RestrictTo(load(fs), DOMAIN load(fs) \ {x})
<1> DEFINE m == merged_value(fs)
           n == merged_value(gs)
           D == Deserialize(m)
           E == Deserialize(n)
           R == RestrictTo(D, DOMAIN D \ {x})
<1>1. DOMAIN gs[s].doc = DOMAIN fs[s].doc \ {x}
      /\ \A k \in DOMAIN gs[s].doc : gs[s].doc[k] = fs[s].doc[k]
  BY DEF RestrictTo
<1>2. /\ DOMAIN m = DOMAIN fs["local"].doc \cup DOMAIN fs["project"].doc \cup DOMAIN fs["user"].doc
      /\ \A k \in DOMAIN m : m[k] = IF k \in DOMAIN fs["local"].doc THEN fs["local"].doc[k]
                                    ELSE IF k \in DOMAIN fs["project"].doc
                                    THEN fs["project"].doc[k] ELSE fs["user"].doc[k]
  BY MergedFacts
<1>3. /\ DOMAIN n = DOMAIN gs["local"].doc \cup DOMAIN gs["project"].doc \cup DOMAIN gs["user"].doc
      /\ \A k \in DOMAIN n : n[k] = IF k \in DOMAIN gs["local"].doc THEN gs["local"].doc[k]
                                    ELSE IF k \in DOMAIN gs["project"].doc
                                    THEN gs["project"].doc[k] ELSE gs["user"].doc[k]
  BY MergedFacts
<1> HIDE DEF m, n
<1>4. /\ DOMAIN gs["local"].doc = DOMAIN fs["local"].doc \ {x}
      /\ DOMAIN gs["project"].doc = DOMAIN fs["project"].doc \ {x}
      /\ DOMAIN gs["user"].doc = DOMAIN fs["user"].doc \ {x}
      /\ \A l \in Layers : \A k \in DOMAIN gs[l].doc : gs[l].doc[k] = fs[l].doc[k]
  <2>1. \A l \in Layers : /\ DOMAIN gs[l].doc = DOMAIN fs[l].doc \ {x}
                          /\ \A k \in DOMAIN gs[l].doc : gs[l].doc[k] = fs[l].doc[k]
    BY <1>1
  <2> QED
    BY <2>1 DEF Layers
<1>5. DOMAIN n = DOMAIN m \ {x} /\ \A k \in DOMAIN n : n[k] = m[k]
  <2>1. \A k \in DOMAIN gs["local"].doc : gs["local"].doc[k] = fs["local"].doc[k]
    BY <1>4 DEF Layers
  <2>2. \A k \in DOMAIN gs["project"].doc : gs["project"].doc[k] = fs["project"].doc[k]
    BY <1>4 DEF Layers
  <2>3. \A k \in DOMAIN gs["user"].doc : gs["user"].doc[k] = fs["user"].doc[k]
    BY <1>4 DEF Layers
  <2> QED
    BY <1>2, <1>3, <1>4, <2>1, <2>2, <2>3
<1>6. x \notin EngineKeys /\ x # "profile" /\ x # "secrets" /\ x # "operator"
  BY SpellingAssumption DEF EngineKeys
<1>7. /\ DOMAIN D = EngineKeys \cup (DOMAIN m \cap Entities)
      /\ \A k \in DOMAIN D : D[k] = IF k \in DOMAIN m THEN m[k] ELSE Fallback(Profile(m))[k]
  BY DeserializeFacts
<1>8. /\ DOMAIN E = EngineKeys \cup (DOMAIN n \cap Entities)
      /\ \A k \in DOMAIN E : E[k] = IF k \in DOMAIN n THEN n[k] ELSE Fallback(Profile(n))[k]
  BY DeserializeFacts
<1>9. Profile(n) = Profile(m)
  BY <1>5, <1>6 DEF Profile
<1>10. IsFcn(E)
  BY FcnFacts DEF Deserialize
<1>11. IsFcn(R) /\ DOMAIN R = DOMAIN D \ {x} /\ \A k \in DOMAIN R : R[k] = D[k]
  BY DEF IsFcn, RestrictTo
<1>12. load(fs) = D /\ Loadable(fs) /\ AcceptedByPolicy(D)
  BY LoadFacts DEF m
<1> HIDE DEF D, E, R
<1>13. DOMAIN E = DOMAIN R /\ \A k \in DOMAIN E : E[k] = R[k]
  BY <1>5, <1>6, <1>7, <1>8, <1>9, <1>11
<1>14. E = R
  BY <1>10, <1>11, <1>13, FcnEqual
<1>15. Loadable(gs)
  <2>1. \A l \in DOMAIN gs : gs[l].ok
    BY <1>12 DEF Loadable
  <2>2. no_inline_secret_values(m)
    BY <1>12 DEF Loadable, m
  <2>3. no_inline_secret_values(n)
    BY <1>5, <1>6, <2>2 DEF no_inline_secret_values
  <2> QED
    BY <2>1, <2>3 DEF Loadable, n
<1>16. AcceptedByPolicy(E)
  <2>1. "operator" \in DOMAIN D
    BY <1>7 DEF EngineKeys
  <2> QED
    BY <1>6, <1>11, <1>12, <1>14, <2>1 DEF AcceptedByPolicy
<1>17. load(gs) # NoPolicy
  BY <1>15, <1>16, LoadFacts DEF n, E
<1>18. load(gs) = E
  BY <1>17, LoadFacts DEF n, E
<1> QED
  BY <1>12, <1>14, <1>17, <1>18 DEF R

LEMMA LoadIsFcn ==
    \A fs : load(fs) # NoPolicy => IsFcn(load(fs))
  BY LoadFacts, FcnFacts DEF Deserialize

\* What an offline toggle starts from is what the proxy would run.
LEMMA CategoriesOffline ==
    ASSUME NEW fs, DOMAIN fs = Layers, load(fs) # NoPolicy
    PROVE  categories_from_files(fs) = load(fs)["categories"]
<1> DEFINE readable == [l \in DOMAIN fs |-> IF fs[l].ok THEN fs[l] ELSE Empty]
           m == merged_value(fs)
<1>1. Loadable(fs) /\ load(fs) = Deserialize(m)
  BY LoadFacts
<1>2. readable["local"] = fs["local"] /\ readable["project"] = fs["project"]
      /\ readable["user"] = fs["user"]
  BY <1>1 DEF Loadable, Layers
<1>3. merged_value(readable) = m
  BY <1>2 DEF merged_value
<1>4. categories_from_files(fs)
          = IF "categories" \in DOMAIN m THEN m["categories"] ELSE default_categories(Profile(m))
  BY <1>3 DEF categories_from_files, Profile
<1> HIDE DEF m, readable
<1>5. "categories" \in EngineKeys /\ "categories" \in ProfileKeys
  BY DEF EngineKeys, ProfileKeys
<1>6. Deserialize(m)["categories"]
          = IF "categories" \in DOMAIN m THEN m["categories"] ELSE Fallback(Profile(m))["categories"]
  BY <1>5, DeserializeFacts
<1>7. Fallback(Profile(m))["categories"] = default_categories(Profile(m))
  <2> DEFINE p == Profile(m)
  <2> HIDE DEF p
  <2>1. Fallback(p)["categories"] = for_profile(p)["categories"]
    BY <1>5, FallbackFacts
  <2>2. for_profile(p)["categories"] = default_categories(p)
    BY ForProfile
  <2> QED
    BY <2>1, <2>2 DEF p
<1> QED
  BY <1>1, <1>4, <1>6, <1>7

\* What a command writes or posts.
LEMMA ChangeIs ==
    ASSUME NEW c, IsCommand(cmd[c]), ~Clears(cmd[c].req)
    PROVE  LET r == cmd[c].req
               X == Change(c)
           IN  /\ DOMAIN X = Sets(r) /\ DOMAIN X \subseteq EngineKeys \cup Entities
               /\ "profile" \in DOMAIN X => ProfileKeys \subseteq DOMAIN X
               /\ \A k \in DOMAIN X \cap ({"operator"} \cup Entities) : X[k] # "broker"
               /\ r.set \notin Toggles => DOMAIN X \cap Toggles = {}
               /\ r.set # "profile" => "threshold" \notin DOMAIN X \/ r.set = "threshold"
<1> DEFINE r == cmd[c].req
           X == Change(c)
<1>1. r \in Requests /\ EngineKeys \cap Entities = {}
  BY SpellingAssumption DEF IsCommand
<1>2. CASE r.set = "profile"
  <2>1. X = for_profile(r.value) /\ Sets(r) = DOMAIN for_profile(r.value)
    BY <1>2 DEF Change, Sets
  <2>2. /\ DOMAIN X = ProfileKeys /\ X["operator"] = "token"
        /\ ProfileKeys \subseteq EngineKeys /\ "operator" \in ProfileKeys
        /\ ProfileKeys \cap Toggles = {}
    BY <2>1, ForProfile DEF ProfileKeys, EngineKeys, Toggles
  <2> HIDE DEF X
  <2>3. \A k \in DOMAIN X \cap ({"operator"} \cup Entities) : X[k] # "broker"
    BY <1>1, <2>2
  <2>4. DOMAIN X = Sets(r)
    BY <2>1
  <2> QED
    BY <1>2, <2>2, <2>3, <2>4 DEF X
<1>3. CASE r.set = "entity"
  <2>1. X = Entry(Key(r), r.value[2]) /\ Sets(r) = {Key(r)} /\ r.value[2] # "broker"
    BY <1>1, <1>3, RequestAssumption DEF Change, Sets
  <2>2. Key(r) \in Entities
    BY <1>1, <1>3, RequestAssumption, EntityAssumption DEF Key, resolve_entity_type
  <2>3. DOMAIN X = {Key(r)} /\ X[Key(r)] = r.value[2]
    BY <2>1 DEF Entry
  <2> HIDE DEF X
  <2>4. Key(r) \notin EngineKeys /\ Toggles \subseteq EngineKeys /\ {"profile", "threshold"} \subseteq EngineKeys
    BY <1>1, <2>2 DEF Toggles, EngineKeys
  <2> QED
    BY <2>1, <2>2, <2>3, <2>4 DEF X
<1>4. CASE r.set \in {"enabled", "categories", "threshold", "ml"}
  <2>1. \E v : X = Entry(r.set, v)
    BY <1>4 DEF Change
  <2>2. Sets(r) = {r.set}
    BY <1>4 DEF Sets, Key
  <2>3. DOMAIN X = {r.set}
    BY <2>1 DEF Entry
  <2>4. r.set \in EngineKeys /\ r.set # "operator" /\ r.set # "profile"
    BY <1>4 DEF EngineKeys
  <2> HIDE DEF X
  <2> QED
    BY <1>1, <2>2, <2>3, <2>4 DEF X
<1> QED
  BY <1>1, <1>2, <1>3, <1>4, RequestAssumption

\* Over a policy, it is what was asked.
LEMMA AskedIs ==
    ASSUME NEW c, IsCommand(cmd[c]), ~Clears(cmd[c].req),
           NEW p, IsFcn(p), "categories" \in DOMAIN p,
           cmd[c].req.set = "categories" => cmd[c].base = p["categories"]
    PROVE  Asked(p, cmd[c].req) = Change(c) ++ p
<1> DEFINE r == cmd[c].req
<1>1. CASE r.set = "profile"
  BY <1>1 DEF Asked, Change
<1>2. CASE r.set = "categories"
  <2>1. Asked(p, r) = [p EXCEPT !["categories"] = Toggled(p["categories"], r.value)]
    BY <1>2 DEF Asked
  <2>2. Change(c) = Entry("categories", Toggled(p["categories"], r.value))
    BY <1>2 DEF Change
  <2> DEFINE v == Toggled(p["categories"], r.value)
  <2> HIDE DEF v
  <2>3. [p EXCEPT !["categories"] = v] = Entry("categories", v) ++ p
    BY SetIsOver
  <2> QED
    BY <2>1, <2>2, <2>3 DEF v
<1>3. CASE r.set = "entity"
  BY <1>3 DEF Asked, Change
<1>4. CASE r.set \notin {"profile", "categories", "entity"}
  BY <1>4 DEF Asked, Change
<1> QED
  BY <1>1, <1>2, <1>3, <1>4

LEMMA ClearsIs ==
    ASSUME NEW c, IsCommand(cmd[c]), Clears(cmd[c].req)
    PROVE  LET r == cmd[c].req
           IN  /\ Key(r) \in Entities /\ Key(r) \notin EngineKeys
               /\ r.set = "entity" /\ Sets(r) = {Key(r)}
               /\ \A p : Asked(p, r) = RestrictTo(p, DOMAIN p \ {Key(r)})
<1> DEFINE r == cmd[c].req
<1>1. r \in Requests /\ EngineKeys \cap Entities = {} /\ r.set = "entity"
  BY SpellingAssumption DEF IsCommand, Clears
<1>2. Key(r) \in Entities
  BY <1>1, RequestAssumption, EntityAssumption DEF Key, resolve_entity_type
<1>3. \A p : Asked(p, r) = RestrictTo(p, DOMAIN p \ {Key(r)})
  <2>1. Clears(r) /\ r.set # "profile" /\ r.set # "categories"
    BY <1>1
  <2> HIDE DEF r
  <2> SUFFICES ASSUME NEW p
               PROVE  Asked(p, r) = RestrictTo(p, DOMAIN p \ {Key(r)})
    OBVIOUS
  <2> QED
    BY <2>1 DEF Asked
<1> QED
  BY <1>1, <1>2, <1>3 DEF Sets

\* With the file written, the files amount to what was asked.
LEMMA WriteMakes ==
    ASSUME TypeInv, NEW c \in Clis, WriteFile(c), Unmade(c)
    PROVE  load(files') # NoPolicy /\ load(files') = Asked(load(files), cmd[c].req)
<1> USE DEF TypeInv
<1> DEFINE r == cmd[c].req
           s == r.scope
           X == Change(c)
<1>1. IsCommand(cmd[c]) /\ cmd[c].todo # <<>> /\ Head(cmd[c].todo) = "write"
  BY AtFacts DEF WriteFile
<1>2. r \in Requests /\ s \in Layers
  BY <1>1, LeftFacts DEF IsCommand
<1>3. load(files) # NoPolicy /\ cmd[c].doc = files[s].doc /\ NothingLater(r)
  BY <1>1 DEF Unmade, InStep
<1>4. DOMAIN files = Layers
  BY DEF FilesInv
<1>5. files' = [files EXCEPT ![s] =
          [ok |-> TRUE, doc |-> IF Clears(r) THEN RestrictTo(files[s].doc, DOMAIN files[s].doc \ {Key(r)})
                                ELSE X ++ files[s].doc]]
  BY <1>3 DEF WriteFile
<1>6. /\ DOMAIN files' = Layers /\ files'[s].ok
      /\ files'[s].doc = IF Clears(r) THEN RestrictTo(files[s].doc, DOMAIN files[s].doc \ {Key(r)})
                         ELSE X ++ files[s].doc
      /\ \A l \in Layers \ {s} : files'[l] = files[l]
  BY <1>2, <1>4, <1>5
<1>7. CASE Clears(r)
  <2>1. /\ Key(r) \in Entities /\ Sets(r) = {Key(r)}
        /\ Asked(load(files), r) = RestrictTo(load(files), DOMAIN load(files) \ {Key(r)})
    BY <1>1, <1>7, ClearsIs
  <2>2. \A l \in Layers \ {s} : Key(r) \notin DOMAIN files[l].doc
    BY <1>3, <1>4, <1>7, <2>1 DEF NothingLater
  <2> DEFINE x == Key(r)
             gs == files'
  <2>3. files'[s].doc = RestrictTo(files[s].doc, DOMAIN files[s].doc \ {x})
    BY <1>6, <1>7
  <2> HIDE DEF x, s, r
  <2>4. load(gs) # NoPolicy /\ load(gs) = RestrictTo(load(files), DOMAIN load(files) \ {x})
    BY <1>2, <1>3, <1>4, <1>6, <2>1, <2>2, <2>3, ClearLoads DEF x
  <2> QED
    BY <2>1, <2>4 DEF x, r
<1>8. CASE ~Clears(r)
  <2>1. /\ DOMAIN X = Sets(r) /\ DOMAIN X \subseteq EngineKeys \cup Entities
        /\ "profile" \in DOMAIN X => ProfileKeys \subseteq DOMAIN X
        /\ \A k \in DOMAIN X \cap ({"operator"} \cup Entities) : X[k] # "broker"
    BY <1>1, <1>8, ChangeIs
  <2>2. \A l \in Later(s) : DOMAIN files[l].doc \cap DOMAIN X = {}
    BY <1>3, <1>8, <2>1 DEF NothingLater
  <2>3. Asked(load(files), r) = X ++ load(files)
    <3>1. IsFcn(load(files)) /\ "categories" \in DOMAIN load(files)
      BY <1>3, LoadFacts, LoadIsFcn DEF EngineKeys
    <3>2. r.set = "categories" => cmd[c].base = load(files)["categories"]
      <4>1. "categories" \in DOMAIN load(files) \ {"enabled", "ml"}
        BY <3>1
      <4>2. live # NoPolicy => live["categories"] = load(files)["categories"]
        BY <1>3, <4>1, ReloadedFacts DEF Unmade, InStep
      <4>3. r.set = "categories" => cmd[c].base = Effective["categories"]
        BY <1>1 DEF Unmade
      <4> QED
        BY <4>2, <4>3 DEF Effective
    <3> QED
      BY <1>1, <1>8, <3>1, <3>2, AskedIs
  <2> DEFINE gs == files'
  <2>4. gs[s].doc = X ++ files[s].doc
    BY <1>6, <1>8
  <2> HIDE DEF X, s, r
  <2>5. load(gs) # NoPolicy /\ load(gs) = X ++ load(files)
    BY <1>2, <1>3, <1>4, <1>6, <2>1, <2>2, <2>4, OverlayLoads
  <2> QED
    BY <2>3, <2>5 DEF r
<1> QED
  BY <1>7, <1>8

\* A reload of what was asked keeps the switches, as the request does.
LEMMA AskedReloaded ==
    ASSUME LiveInv, load(files) # NoPolicy, live # NoPolicy, live = Reloaded(load(files)),
           NEW c, IsCommand(cmd[c]), cmd[c].req.set \notin Toggles,
           NEW q, q = Asked(load(files), cmd[c].req),
           cmd[c].req.set = "categories" => cmd[c].base = live["categories"]
    PROVE  [q EXCEPT !["enabled"] = live["enabled"], !["ml"] = live["ml"]]
               = Asked(live, cmd[c].req)
<1> DEFINE r == cmd[c].req
           p == load(files)
           g == [q EXCEPT !["enabled"] = live["enabled"], !["ml"] = live["ml"]]
           X == Change(c)
<1>1. /\ IsFcn(p) /\ IsFcn(live) /\ EngineKeys \subseteq DOMAIN p /\ DOMAIN live = DOMAIN p
      /\ \A k \in DOMAIN p \ {"enabled", "ml"} : live[k] = p[k]
  BY LoadFacts, LoadIsFcn, ReloadedFacts DEF LiveInv
<1>2. {"enabled", "ml", "categories"} \subseteq EngineKeys
  BY DEF EngineKeys
<1>3. live["categories"] = p["categories"]
  BY <1>1, <1>2
<1>4. CASE Clears(r)
  <2> DEFINE x == Key(r)
             h == RestrictTo(live, DOMAIN live \ {x})
  <2>1. x \notin EngineKeys /\ q = RestrictTo(p, DOMAIN p \ {x}) /\ Asked(live, r) = h
    BY <1>4, ClearsIs
  <2> HIDE DEF x, r, p
  <2>2. DOMAIN q = DOMAIN p \ {x} /\ \A k \in DOMAIN q : q[k] = p[k]
    BY <2>1 DEF RestrictTo
  <2>3. /\ IsFcn(g) /\ DOMAIN g = DOMAIN q
        /\ g["enabled"] = live["enabled"] /\ g["ml"] = live["ml"]
        /\ \A k \in DOMAIN q \ {"enabled", "ml"} : g[k] = q[k]
    BY <1>1, <1>2, <2>1, <2>2, FcnFacts
  <2>4. IsFcn(h) /\ DOMAIN h = DOMAIN live \ {x} /\ \A k \in DOMAIN h : h[k] = live[k]
    BY DEF RestrictTo, IsFcn
  <2> HIDE DEF g, h
  <2>5. \A k \in DOMAIN g : g[k] = h[k]
    BY <1>1, <1>2, <2>1, <2>2, <2>3, <2>4
  <2>6. g = h
    BY <1>1, <2>2, <2>3, <2>4, <2>5, FcnEqual
  <2> QED
    BY <2>1, <2>6 DEF g, r
<1>5. CASE ~Clears(r)
  <2> DEFINE h == X ++ live
  <2>1. q = X ++ p /\ Asked(live, r) = h /\ DOMAIN X \cap Toggles = {}
    <3>1. Asked(p, r) = X ++ p
      BY <1>1, <1>2, <1>3, <1>5, AskedIs
    <3>2. Asked(live, r) = X ++ live
      BY <1>1, <1>2, <1>5, AskedIs
    <3>3. DOMAIN X \cap Toggles = {}
      BY <1>5, ChangeIs
    <3> QED
      BY <3>1, <3>2, <3>3
  <2> HIDE DEF X, r, p
  <2>2. DOMAIN q = DOMAIN X \cup DOMAIN p
        /\ \A k \in DOMAIN q : q[k] = IF k \in DOMAIN X THEN X[k] ELSE p[k]
    BY <2>1 DEF ++
  <2>3. /\ IsFcn(g) /\ DOMAIN g = DOMAIN q
        /\ g["enabled"] = live["enabled"] /\ g["ml"] = live["ml"]
        /\ \A k \in DOMAIN q \ {"enabled", "ml"} : g[k] = q[k]
    BY <1>1, <1>2, <2>2, FcnFacts
  <2>4. IsFcn(h) /\ DOMAIN h = DOMAIN X \cup DOMAIN live
        /\ \A k \in DOMAIN h : h[k] = IF k \in DOMAIN X THEN X[k] ELSE live[k]
    BY FcnFacts DEF ++
  <2> HIDE DEF g, h
  <2>5. "enabled" \notin DOMAIN X /\ "ml" \notin DOMAIN X
    BY <2>1 DEF Toggles
  <2>6. \A k \in DOMAIN g : g[k] = h[k]
    BY <1>1, <1>2, <2>2, <2>3, <2>4, <2>5
  <2>7. g = h
    BY <1>1, <2>2, <2>3, <2>4, <2>6, FcnEqual
  <2> QED
    BY <2>1, <2>7 DEF g, r
<1> QED
  BY <1>4, <1>5

LEMMA ReadFirst ==
    ASSUME NEW r \in Requests, NEW t, Left(r, t), t # <<>>
    PROVE  /\ Head(t) = "read" => Tail(t) # <<>> /\ Head(Tail(t)) = "write"
           /\ Head(t) = "base" => Tail(t) # <<>> /\ Head(Tail(t)) \in {"read", "fetch"}
           /\ Len(t) = 2 /\ Head(t) = "reload" => t = <<"reload", "ml">>
<1>1. ASSUME NEW x, NEW y, t = <<x, y>>
      PROVE  Head(t) = x /\ Tail(t) = <<y>> /\ Head(Tail(t)) = y /\ Tail(t) # <<>>
  BY <1>1, TupleFacts
<1>2. ASSUME NEW x, NEW y, NEW z, t = <<x, y, z>>
      PROVE  Head(t) = x /\ Head(Tail(t)) = y /\ Tail(t) # <<>>
  BY <1>2, TupleFacts
<1>3. ASSUME NEW x, NEW y, NEW z, NEW w, t = <<x, y, z, w>>
      PROVE  Head(t) = x /\ Head(Tail(t)) = y /\ Tail(t) # <<>>
  BY <1>3, TupleFacts
<1>4. ASSUME NEW x, t = <<x>>
      PROVE  Head(t) = x /\ Len(t) = 1
  BY <1>4, TupleFacts
<1>5. Head(t) = "reload" => t = <<"reload">> \/ t = <<"reload", "ml">>
  BY LeftFacts
<1>6. Len(t) = 2 /\ Head(t) = "reload" => t = <<"reload", "ml">>
  BY <1>4, <1>5
<1>7. Head(t) = "read" => Tail(t) # <<>> /\ Head(Tail(t)) = "write"
  <2> SUFFICES ASSUME Head(t) = "read"
               PROVE  Tail(t) # <<>> /\ Head(Tail(t)) = "write"
    OBVIOUS
  <2>1. \/ t = <<"read", "write">> \/ t = <<"read", "write", "reload">>
        \/ t = <<"read", "write", "enabled">> \/ t = <<"read", "write", "ml">>
        \/ t = <<"read", "write", "reload", "ml">>
    BY <1>1, <1>2, <1>3, <1>4 DEF Left
  <2> QED
    BY <1>1, <1>2, <1>3, <2>1
<1>8. Head(t) = "base" => Tail(t) # <<>> /\ Head(Tail(t)) \in {"read", "fetch"}
  <2> SUFFICES ASSUME Head(t) = "base"
               PROVE  Tail(t) # <<>> /\ Head(Tail(t)) \in {"read", "fetch"}
    OBVIOUS
  <2>1. t = <<"base", "read", "write", "reload">> \/ t = <<"base", "fetch", "put">>
    BY <1>1, <1>2, <1>3, <1>4 DEF Left
  <2> QED
    BY <1>2, <1>3, <2>1
<1> QED
  BY <1>6, <1>7, <1>8

LEMMA KeptUnmade ==
    ASSUME NEW c, Unmade(c), UNCHANGED <<files, live>>,
           cmd'[c].req = cmd[c].req, cmd'[c].expect = cmd[c].expect,
           NEW h, h = Head(cmd'[c].todo),
           cmd[c].req.set = "categories" /\ h # "base" => cmd'[c].base = Effective["categories"],
           h = "write" => cmd'[c].doc = files[cmd[c].req.scope].doc,
           h = "put" => live # NoPolicy /\ cmd'[c].got = live,
           h = "patch" => ~Clears(cmd[c].req),
           cmd[c].req.set = "profile" /\ h \in {"read", "write"} => live = NoPolicy
    PROVE  Unmade(c)'
<1>1. /\ InStep' = InStep /\ Effective' = Effective
      /\ NothingLater(cmd[c].req)' = NothingLater(cmd[c].req)
  BY DEF InStep, Effective, NothingLater, Reloaded
<1>2. InStep' /\ NothingLater(cmd[c].req)' /\ cmd'[c].expect = {Asked(Effective, cmd[c].req)}
  BY <1>1 DEF Unmade
<1> QED
  BY <1>1, <1>2 DEF Unmade

LEMMA KeptMade ==
    ASSUME NEW c, Made(c), UNCHANGED <<files, live>>,
           cmd'[c].req = cmd[c].req, cmd'[c].expect = cmd[c].expect,
           reloading' # c, Head(cmd'[c].todo) # "reload"
    PROVE  Made(c)'
  BY DEF Made, Reloaded

\* A reload forgets what a file says of the switches.
LEMMA SwitchReloaded ==
    ASSUME NEW p, IsFcn(p), {"enabled", "ml"} \subseteq DOMAIN p, NEW v, NEW q,
           q = Entry("ml", v) ++ p
    PROVE  [q EXCEPT !["enabled"] = live["enabled"], !["ml"] = live["ml"]]
               = [p EXCEPT !["enabled"] = live["enabled"], !["ml"] = live["ml"]]
<1> DEFINE g == [q EXCEPT !["enabled"] = live["enabled"], !["ml"] = live["ml"]]
           h == [p EXCEPT !["enabled"] = live["enabled"], !["ml"] = live["ml"]]
<1>1. DOMAIN q = DOMAIN p /\ \A k \in DOMAIN p : q[k] = IF k = "ml" THEN v ELSE p[k]
  BY DEF ++, Entry
<1>2. /\ IsFcn(g) /\ DOMAIN g = DOMAIN p /\ g["enabled"] = live["enabled"] /\ g["ml"] = live["ml"]
      /\ \A k \in DOMAIN p \ {"enabled", "ml"} : g[k] = p[k]
  BY <1>1, FcnFacts
<1>3. /\ IsFcn(h) /\ DOMAIN h = DOMAIN p /\ h["enabled"] = live["enabled"] /\ h["ml"] = live["ml"]
      /\ \A k \in DOMAIN p \ {"enabled", "ml"} : h[k] = p[k]
  BY FcnFacts
<1> HIDE DEF g, h
<1>4. \A k \in DOMAIN g : g[k] = h[k]
  BY <1>2, <1>3
<1>5. g = h
  BY <1>2, <1>3, <1>4, FcnEqual
<1> QED
  BY <1>5 DEF g, h

LEMMA PostFacts ==
    ASSUME NEW r \in Requests, r.set # "profile"
    PROVE  /\ Post(r) # <<>> /\ Head(Post(r)) \in {"reload"} \cup Toggles
           /\ Head(Post(r)) \in Toggles => r.set \in Toggles
<1>1. CASE r.set \notin Toggles
  <2>1. Post(r) = <<"reload">>
    BY <1>1 DEF Post, Toggles
  <2>2. Post(r) # <<>> /\ Head(Post(r)) = "reload"
    BY <2>1, TupleFacts
  <2> QED
    BY <2>2 DEF Toggles
<1>2. CASE r.set \in Toggles /\ Post(r) = <<"reload", "ml">>
  <2>1. Post(r) # <<>> /\ Head(Post(r)) = "reload"
    BY <1>2, TupleFacts
  <2> QED
    BY <1>2, <2>1
<1>3. CASE r.set \in Toggles /\ Post(r) = <<r.set>>
  <2>1. Post(r) # <<>> /\ Head(Post(r)) = r.set
    BY <1>3, TupleFacts
  <2> QED
    BY <1>3, <2>1
<1> QED
  BY <1>1, <1>2, <1>3 DEF Post, Toggles

\* What follows the file will bring what was asked.
LEMMA MadeByWrite ==
    ASSUME TypeInv, NEW c \in Clis, WriteFile(c), Unmade(c), cmd[c].req.set # "profile",
           cmd'[c].req = cmd[c].req, cmd'[c].expect = cmd[c].expect, reloading' # c,
           Head(cmd'[c].todo) \in {"reload"} \cup Toggles
    PROVE  Made(c)'
<1> USE DEF TypeInv
<1> DEFINE r == cmd[c].req
           p == load(files)
           q == load(files')
<1>1. IsCommand(cmd[c]) /\ Head(cmd[c].todo) = "write"
  BY AtFacts DEF WriteFile
<1>2. q # NoPolicy /\ q = Asked(p, r)
  BY WriteMakes
<1>3. /\ p # NoPolicy /\ live' = live /\ cmd[c].expect = {Asked(Effective, r)}
      /\ live # NoPolicy => live = Reloaded(p)
      /\ r.set = "categories" => cmd[c].base = Effective["categories"]
  BY <1>1 DEF Unmade, InStep, WriteFile
<1>4. Reloaded(load(files))' = [q EXCEPT !["enabled"] = live["enabled"], !["ml"] = live["ml"]]
  BY <1>3 DEF Reloaded
<1>5. ASSUME live # NoPolicy, r.set \notin Toggles
      PROVE  Reloaded(load(files))' = Asked(live, r)
  BY <1>1, <1>2, <1>3, <1>4, <1>5, AskedReloaded DEF Effective
<1>6. ASSUME live # NoPolicy, r.set = "ml"
      PROVE  live = Reloaded(load(files))'
  <2>1. q = Entry("ml", r.value) ++ p
    BY <1>2, <1>6 DEF Asked, Clears
  <2>2. IsFcn(p) /\ {"enabled", "ml"} \subseteq DOMAIN p
    BY <1>3, LoadFacts, LoadIsFcn DEF EngineKeys
  <2> HIDE DEF p, q
  <2>3. [q EXCEPT !["enabled"] = live["enabled"], !["ml"] = live["ml"]]
            = [p EXCEPT !["enabled"] = live["enabled"], !["ml"] = live["ml"]]
    BY <2>1, <2>2, SwitchReloaded
  <2> QED
    BY <1>3, <1>4, <1>6, <2>3 DEF Reloaded, p
<1>7. live = NoPolicy => cmd[c].expect = {q}
  BY <1>2, <1>3 DEF Effective
<1>8. live # NoPolicy =>
          cmd[c].expect = {IF r.set \in Toggles THEN Asked(live, r) ELSE Reloaded(load(files))'}
  BY <1>3, <1>5 DEF Effective
<1> QED
  BY <1>2, <1>3, <1>6, <1>7, <1>8 DEF Made

\* What a PUT that is accepted leaves: what was asked.
LEMMA AskedByPut ==
    ASSUME LiveInv, live # NoPolicy, NEW c, IsCommand(cmd[c]), ~Clears(cmd[c].req),
           cmd[c].req.set \in {"categories", "threshold", "entity"},
           cmd[c].req.set = "categories" => cmd[c].base = live["categories"],
           NEW patch, patch = Change(c) \/ patch = Change(c) ++ live
    PROVE  MergeOnto(patch) = Asked(live, cmd[c].req)
<1> DEFINE r == cmd[c].req
           X == Change(c)
           g == MergeOnto(patch)
           h == X ++ live
<1>1. IsFcn(live) /\ "categories" \in DOMAIN live /\ "ml" \in DOMAIN live
  BY DEF LiveInv, EngineKeys
<1>2. Asked(live, r) = h
  BY <1>1, AskedIs
<1>3. "ml" \notin DOMAIN X
  BY ChangeIs DEF Toggles
<1>4. /\ IsFcn(h) /\ DOMAIN h = DOMAIN X \cup DOMAIN live
      /\ \A k \in DOMAIN h : h[k] = IF k \in DOMAIN X THEN X[k] ELSE live[k]
  BY FcnFacts DEF ++
<1>5. patch = X \/ patch = h
  OBVIOUS
<1>6. /\ IsFcn(g) /\ DOMAIN g = DOMAIN patch \cup DOMAIN live /\ g["ml"] = live["ml"]
      /\ \A k \in (DOMAIN patch \cup DOMAIN live) \ {"ml"} :
             g[k] = IF k \in DOMAIN patch THEN patch[k] ELSE live[k]
  BY PutFacts
<1> HIDE DEF g, h, X, r
<1>7. DOMAIN g = DOMAIN h /\ \A k \in DOMAIN g : g[k] = h[k]
  BY <1>1, <1>3, <1>4, <1>5, <1>6
<1>8. g = h
  BY <1>4, <1>6, <1>7, FcnEqual
<1> QED
  BY <1>2, <1>8 DEF g, r

\* The command's own steps.
LEMMA OwnStep ==
    ASSUME TypeInv, NEW c \in Clis, Step(c), ~Exit(c), cmd[c] # NoCommand, cmd[c].expect # {},
           Undisturbed(c)
    PROVE  Undisturbed(c)' /\ cmd'[c].expect = cmd[c].expect
<1> USE DEF TypeInv
<1> DEFINE r == cmd[c].req
           t == cmd[c].todo
           h == Head(cmd[c].todo)
           good == {"session", "applied", "saved"}
<1>0. IsCommand(cmd[c]) /\ r \in Requests /\ Left(r, t)
  BY DEF CmdsInv, IsCommand
<1>1. t # <<>>
  BY NameAssumption DEF Step, Begin, Refuse, Base, ReadFile, WriteFile, Route, SetEnabled, SetMl,
     Fetch, PutWhole, PutPatch, ApplyProfile, Reload, ReloadBroker, Fail, Serve, At, ReloadInv
<1>2. Acts(c)
  BY <1>1, StepActs
<1>3. /\ cmd'[c].req = r /\ cmd'[c].expect = cmd[c].expect
      /\ \A d \in Clis \ {c} : cmd'[d] = NoCommand
  <2>1. ASSUME NEW d \in Clis \ {c}
        PROVE  cmd'[d] = NoCommand
    <3>1. d \in Clis /\ d # c /\ cmd[d] = NoCommand
      BY DEF Undisturbed
    <3>2. Disturb(c)[d] = cmd[d]
      BY <3>1, DisturbFacts
    <3> QED
      BY <1>2, <3>1, <3>2 DEF Acts
  <2> QED
    BY <1>2, <2>1 DEF Acts
<1>4. /\ cmd[c].result = "none" /\ cmd[c].port = port
      /\ Written(c) => Made(c)
      /\ ~Written(c) => Unmade(c)
  BY <1>1 DEF Undisturbed
<1>5. Reachable(c) <=> live # NoPolicy
  BY <1>4 DEF Reachable
<1>6. ASSUME cmd'[c].todo # <<>>, cmd'[c].result = cmd[c].result, cmd'[c].port = cmd[c].port,
             UNCHANGED port, Written(c)' => Made(c)', ~Written(c)' => Unmade(c)'
      PROVE  Undisturbed(c)'
  BY <1>3, <1>4, <1>6 DEF Undisturbed
<1>7. ASSUME cmd'[c].todo = <<>>, cmd'[c].result \in good => cmd[c].expect = {Effective'}
      PROVE  Undisturbed(c)'
  BY <1>3, <1>7 DEF Undisturbed
<1>8. "session" \notin Layers
  BY DEF Layers
<1>9. ASSUME NEW y, cmd' = End(c, y), y \notin good
      PROVE  Undisturbed(c)'
  BY <1>7, <1>9, EndActs
<1>10. Written(c)' <=> r.scope \in Layers /\ Head(cmd'[c].todo) \in {"reload"} \cup Toggles
  BY <1>3 DEF Written
<1>11. CASE Refuse(c)
  <2>1. cmd' = End(c, "failed")
    BY <1>11 DEF Refuse
  <2> QED
    BY <1>3, <1>9, <2>1
<1>12. CASE Base(c)
  <2> DEFINE b == IF Reachable(c) THEN live["categories"] ELSE categories_from_files(files)
  <2>1. /\ cmd' = [Continue(c) EXCEPT ![c] = [@ EXCEPT !["base"] = b]]
        /\ h = "base" /\ UNCHANGED <<files, live, port>>
    BY <1>12 DEF Base, At
  <2>2. b = Effective["categories"]
    <3>1. ~Written(c)
      BY <2>1 DEF Written, Toggles
    <3>2. load(files) # NoPolicy /\ DOMAIN files = Layers
      BY <1>4, <3>1 DEF Unmade, InStep, FilesInv
    <3> QED
      BY <1>5, <3>2, CategoriesOffline DEF Effective
  <2> HIDE DEF b
  <2>3. /\ cmd'[c].todo = Tail(t) /\ cmd'[c].result = cmd[c].result
        /\ cmd'[c].port = cmd[c].port /\ cmd'[c].base = b
    BY <1>1, <2>1, ContinueWith
  <2>4. Tail(t) # <<>> /\ Head(Tail(t)) \in {"read", "fetch"} /\ r.set = "categories"
    BY <1>0, <1>1, <2>1, ReadFirst, LeftFacts
  <2>5. ~Written(c) /\ ~Written(c)'
    BY <1>10, <2>1, <2>3, <2>4 DEF Written, Toggles
  <2>6. Unmade(c)'
    BY <1>3, <1>4, <2>1, <2>2, <2>3, <2>4, <2>5, KeptUnmade
  <2> QED
    BY <1>3, <1>6, <2>1, <2>3, <2>4, <2>5, <2>6
<1>13. CASE ReadFile(c)
  <2>1. /\ cmd' = [Continue(c) EXCEPT ![c] = [@ EXCEPT !["doc"] = parse_or_new(files[r.scope])]]
        /\ h = "read" /\ UNCHANGED <<files, live, port>>
    BY <1>13 DEF ReadFile, At
  <2> DEFINE v == parse_or_new(files[r.scope])
  <2>2. ~Written(c)
    BY <2>1 DEF Written, Toggles
  <2>3. v = files[r.scope].doc
    <3>1. r.scope \in Layers
      BY <1>0, <1>1, <2>1, LeftFacts
    <3>2. load(files) # NoPolicy
      BY <1>4, <2>2 DEF Unmade, InStep
    <3>3. files[r.scope].ok
      BY <3>1, <3>2, LoadFacts DEF Loadable, FilesInv
    <3> QED
      BY <3>3 DEF parse_or_new
  <2> HIDE DEF v
  <2>4. cmd' = [Continue(c) EXCEPT ![c] = [@ EXCEPT !["doc"] = v]]
    BY <2>1 DEF v
  <2>5. /\ cmd'[c].todo = Tail(t) /\ cmd'[c].result = cmd[c].result
        /\ cmd'[c].port = cmd[c].port /\ cmd'[c].doc = v /\ cmd'[c].base = cmd[c].base
    <3>1. /\ cmd'[c].todo = Tail(t) /\ cmd'[c].result = cmd[c].result
          /\ cmd'[c].port = cmd[c].port /\ cmd'[c]["doc"] = v
          /\ \A g \in {"base", "doc", "got"} \ {"doc"} : cmd'[c][g] = cmd[c][g]
      BY <1>1, <2>4, ContinueWith
    <3>2. cmd'[c]["base"] = cmd[c]["base"]
      BY <3>1
    <3> QED
      BY <3>1, <3>2
  <2>6. Tail(t) # <<>> /\ Head(Tail(t)) = "write"
    BY <1>0, <1>1, <2>1, ReadFirst
  <2>7. ~Written(c)'
    BY <1>10, <2>5, <2>6 DEF Toggles
  <2>8. /\ r.set = "categories" => cmd[c].base = Effective["categories"]
        /\ r.set = "profile" => live = NoPolicy
    BY <1>4, <2>1, <2>2 DEF Unmade
  <2>9. Unmade(c)'
    BY <1>3, <1>4, <2>1, <2>2, <2>3, <2>5, <2>6, <2>8, KeptUnmade
  <2> QED
    BY <1>3, <1>6, <2>1, <2>5, <2>6, <2>7, <2>9
<1>14. CASE Fetch(c)
  <2>1. /\ cmd' = [Continue(c) EXCEPT ![c] = [@ EXCEPT !["got"] = live]]
        /\ h = "fetch" /\ UNCHANGED <<files, live, port>>
    BY <1>14 DEF Fetch, At
  <2>2. live # NoPolicy
    BY <1>5, <1>14 DEF Fetch
  <2>3. /\ cmd'[c].todo = Tail(t) /\ cmd'[c].result = cmd[c].result
        /\ cmd'[c].port = cmd[c].port /\ cmd'[c].got = live /\ cmd'[c].base = cmd[c].base
    <3>1. /\ cmd'[c].todo = Tail(t) /\ cmd'[c].result = cmd[c].result
          /\ cmd'[c].port = cmd[c].port /\ cmd'[c]["got"] = live
          /\ \A g \in {"base", "doc", "got"} \ {"got"} : cmd'[c][g] = cmd[c][g]
      BY <1>1, <2>1, ContinueWith
    <3>2. cmd'[c]["base"] = cmd[c]["base"]
      BY <3>1
    <3> QED
      BY <3>1, <3>2
  <2>4. t = <<"fetch", "put">>
    BY <1>0, <1>1, <2>1, LeftFacts
  <2>5. Tail(t) # <<>> /\ Head(Tail(t)) = "put"
    BY <2>4, TupleFacts
  <2>6. ~Written(c) /\ ~Written(c)'
    BY <1>10, <2>1, <2>3, <2>5 DEF Written, Toggles
  <2>7. r.set = "categories" => cmd[c].base = Effective["categories"]
    BY <1>4, <2>1, <2>6 DEF Unmade
  <2>8. Unmade(c)'
    BY <1>3, <1>4, <2>1, <2>2, <2>3, <2>5, <2>6, <2>7, KeptUnmade
  <2> QED
    BY <1>3, <1>6, <2>1, <2>3, <2>5, <2>6, <2>8
<1>15. CASE Route(c)
  <2>1. h = "route" /\ UNCHANGED <<files, live, port>>
    BY <1>15 DEF Route, At
  <2>2. r.set = "profile" /\ ~Written(c)
    BY <1>0, <1>1, <2>1, LeftFacts DEF Written, Toggles
  <2>3. CASE live # NoPolicy
    <3>1. cmd' = [Disturb(c) EXCEPT ![c].todo = <<"profile">>] /\ Left(r, <<"profile">>)
      BY <1>15, <2>2, <2>3 DEF Route, Left
    <3>2. cmd'[c].todo = <<"profile">> /\ cmd'[c].result = cmd[c].result
          /\ cmd'[c].port = cmd[c].port
      BY <3>1, RouteActs
    <3>3. cmd'[c].todo # <<>> /\ Head(cmd'[c].todo) = "profile"
      BY <3>2, TupleFacts
    <3>4. ~Written(c)'
      BY <1>10, <3>3 DEF Toggles
    <3>5. Unmade(c)'
      BY <1>3, <1>4, <2>1, <2>2, <3>3, KeptUnmade
    <3> QED
      BY <1>3, <1>6, <2>1, <3>2, <3>3, <3>4, <3>5
  <2>4. CASE live = NoPolicy /\ r.scope = "session"
    <3>1. cmd' = End(c, "failed")
      BY <1>15, <2>4 DEF Route
    <3> QED
      BY <1>3, <1>9, <3>1
  <2>5. CASE live = NoPolicy /\ r.scope # "session"
    <3>1. cmd' = [Disturb(c) EXCEPT ![c].todo = <<"read", "write">>] /\ Left(r, <<"read", "write">>)
      BY <1>0, <1>15, <2>2, <2>5, RequestAssumption DEF Route, Left
    <3>2. cmd'[c].todo = <<"read", "write">> /\ cmd'[c].result = cmd[c].result
          /\ cmd'[c].port = cmd[c].port
      BY <3>1, RouteActs
    <3>3. cmd'[c].todo # <<>> /\ Head(cmd'[c].todo) = "read"
      BY <3>2, TupleFacts
    <3>4. ~Written(c)'
      BY <1>10, <3>3 DEF Toggles
    <3>5. Unmade(c)'
      BY <1>3, <1>4, <2>1, <2>2, <2>5, <3>3, KeptUnmade
    <3> QED
      BY <1>3, <1>6, <2>1, <3>2, <3>3, <3>4, <3>5
  <2> QED
    BY <1>3, <2>3, <2>4, <2>5
<1>16. CASE Fail(c)
  <2>1. /\ cmd' = Unanswered(c) /\ UNCHANGED <<files, live, port, reloading>> /\ live = NoPolicy
        /\ reloading # c
    BY <1>5, <1>16 DEF Fail
  <2>2. CASE r.set = "profile" \/ r.scope = "session"
    BY <1>3, <1>9, <2>1, <2>2 DEF Unanswered
  <2>3. CASE ~(r.set = "profile" \/ r.scope = "session")
    <3>1. h \in {"enabled", "ml", "patch", "fetch", "put", "profile", "reload"}
      BY <1>16 DEF Fail, At
    <3>2. h \in {"reload"} \cup Toggles /\ r.scope \in Layers
      BY <1>0, <1>1, <2>3, <3>1, LeftFacts, RequestAssumption DEF Toggles
    <3>3. Made(c)
      BY <1>4, <3>2 DEF Written
    <3>4. CASE h = "reload" /\ Len(t) = 2
      <4>1. cmd' = Continue(c)
        BY <1>1, <2>1, <2>3, <3>4 DEF Unanswered, At
      <4>2. t = <<"reload", "ml">>
        BY <1>0, <1>1, <3>4, ReadFirst
      <4>3. /\ cmd'[c].todo = <<"ml">> /\ cmd'[c].result = cmd[c].result
            /\ cmd'[c].port = cmd[c].port
        <5>1. /\ cmd'[c].todo = Tail(t) /\ cmd'[c].result = cmd[c].result
              /\ cmd'[c].port = cmd[c].port
          BY <1>1, <4>1, ContinueActs
        <5>2. Tail(<<"reload", "ml">>) = <<"ml">>
          BY TupleFacts
        <5> QED
          BY <4>2, <5>1, <5>2
      <4>4. cmd'[c].todo # <<>> /\ Head(cmd'[c].todo) = "ml"
        BY <4>3, TupleFacts
      <4>5. Made(c)' /\ Written(c)'
        BY <1>3, <1>10, <2>1, <3>2, <3>3, <4>4, KeptMade DEF Toggles
      <4> QED
        BY <1>3, <1>6, <2>1, <4>3, <4>4, <4>5
    <3>5. CASE ~(h = "reload" /\ Len(t) = 2)
      <4>1. cmd' = End(c, "saved")
        BY <1>1, <2>1, <2>3, <3>5 DEF Unanswered, At
      <4>2. cmd[c].expect = {Effective'}
        BY <2>1, <3>3 DEF Made, Effective
      <4> QED
        BY <1>3, <1>7, <4>1, <4>2, EndActs
    <3> QED
      BY <3>4, <3>5
  <2> QED
    BY <2>2, <2>3
<1>17. CASE WriteFile(c)
  <2>1. /\ h = "write" /\ UNCHANGED <<live, port, reloading>>
        /\ cmd' = IF Len(t) = 1 THEN End(c, "saved")
                  ELSE [Continue(c) EXCEPT ![c] = [@ EXCEPT !["doc"] = <<>>]]
    BY <1>17 DEF WriteFile, At
  <2>2. ~Written(c) /\ Unmade(c)
    BY <1>4, <2>1 DEF Written, Toggles
  <2>3. load(files') # NoPolicy /\ load(files') = Asked(load(files), r)
    BY <1>17, <2>2, WriteMakes
  <2>4. /\ r.scope \in Layers
        /\ r.set = "profile" => t = <<"write">>
        /\ r.set # "profile" => Tail(t) = Post(r) /\ Len(t) # 1
    BY <1>0, <1>1, <2>1, LeftFacts
  <2>5. CASE r.set = "profile"
    <3>1. cmd' = End(c, "saved")
      BY <2>1, <2>4, <2>5, TupleFacts
    <3>2. live = NoPolicy /\ cmd[c].expect = {Asked(load(files), r)}
      BY <2>1, <2>2, <2>5 DEF Unmade, Effective
    <3>3. cmd[c].expect = {Effective'}
      BY <2>1, <2>3, <3>2 DEF Effective
    <3> QED
      BY <1>3, <1>7, <3>1, <3>3, EndActs
  <2>6. CASE r.set # "profile"
    <3>1. cmd' = [Continue(c) EXCEPT ![c] = [@ EXCEPT !["doc"] = <<>>]]
      BY <2>1, <2>4, <2>6
    <3>2. /\ cmd'[c].todo = Post(r) /\ cmd'[c].result = cmd[c].result
          /\ cmd'[c].port = cmd[c].port
      BY <1>1, <2>4, <2>6, <3>1, ContinueWith
    <3>3. cmd'[c].todo # <<>> /\ Head(cmd'[c].todo) \in {"reload"} \cup Toggles
      BY <1>0, <2>6, <3>2, PostFacts
    <3>4. Written(c)'
      BY <1>10, <2>4, <3>3
    <3>5. reloading' # c
      BY <1>1, <2>1, NameAssumption DEF ReloadInv, At
    <3>6. Made(c)'
      BY <1>3, <1>17, <2>2, <2>6, <3>3, <3>5, MadeByWrite
    <3> QED
      BY <1>3, <1>6, <2>1, <3>2, <3>3, <3>4, <3>6
  <2> QED
    BY <2>5, <2>6
<1>18. ASSUME cmd' = Answered(c), Len(t) = 1, cmd[c].expect = {Effective'}
       PROVE  Undisturbed(c)'
  BY <1>1, <1>3, <1>7, <1>18, AnsweredActs
<1>19. \/ live = NoPolicy
       \/ /\ IsFcn(live) /\ "categories" \in DOMAIN live /\ Toggles \subseteq DOMAIN live
          /\ Effective = live
  BY DEF LiveInv, EngineKeys, Toggles, Effective
<1>20. CASE SetEnabled(c) \/ SetMl(c)
  <2> DEFINE s == r.set
             v == r.value
  <2>1. /\ live # NoPolicy /\ cmd' = Answered(c)
        /\ \/ h = "enabled" /\ live' = [live EXCEPT !["enabled"] = v]
           \/ h = "ml" /\ live' = [live EXCEPT !["ml"] = v]
    BY <1>20 DEF SetEnabled, SetMl, Serve, Reachable, At
  <2>2. s = h /\ s \in Toggles /\ Len(t) = 1
    <3>1. (h = "enabled" => t = <<"enabled">> /\ s = "enabled") /\ (h = "ml" => t = <<"ml">> /\ s = "ml")
      BY <1>0, <1>1, LeftFacts
    <3> QED
      BY <2>1, <3>1, TupleFacts DEF Toggles
  <2>3. cmd[c].expect = {Asked(live, r)}
    BY <1>4, <1>19, <2>1, <2>2 DEF Made, Unmade
  <2>4. Asked(live, r) = Entry(s, v) ++ live
    BY <2>2 DEF Asked, Clears, Toggles
  <2> HIDE DEF s, v
  <2>5. live' = Entry(s, v) ++ live
    BY <1>19, <2>1, <2>2, SetIsOver
  <2>6. Effective' = live'
    <3>1. EngineKeys \subseteq DOMAIN live'
      BY <2>1, <2>5 DEF ++, LiveInv
    <3> QED
      BY <3>1, PolicyFacts DEF Effective
  <2>7. cmd[c].expect = {Effective'}
    BY <2>3, <2>4, <2>5, <2>6
  <2> QED
    BY <1>3, <1>18, <2>1, <2>2, <2>7
<1>21. CASE PutWhole(c) \/ PutPatch(c)
  <2>1. PICK patch : /\ live # NoPolicy /\ put_config(c, patch)
                     /\ \/ h = "put" /\ patch = Change(c) ++ cmd[c].got
                        \/ h = "patch" /\ patch = Change(c)
    BY <1>21 DEF PutWhole, PutPatch, Serve, Reachable, At
  <2>2. ~Written(c) /\ Unmade(c)
    BY <1>4, <2>1 DEF Written, Toggles
  <2>3. /\ h = "put" => t = <<"put">> /\ r.set \in {"categories", "threshold"}
        /\ h = "patch" => t = <<"patch">> /\ r.set = "entity"
    BY <1>0, <1>1, LeftFacts
  <2>4. Len(t) = 1
    BY <2>1, <2>3, TupleFacts
  <2>5. /\ ~Clears(r) /\ (r.set = "categories" => cmd[c].base = live["categories"])
        /\ cmd[c].expect = {Asked(live, r)} /\ (h = "put" => cmd[c].got = live)
    BY <1>19, <2>1, <2>2, <2>3 DEF Unmade, Clears
  <2>6. MergeOnto(patch) = Asked(live, r)
    BY <1>0, <2>1, <2>3, <2>5, AskedByPut
  <2>7. CASE cmd' = Answered(c) /\ live' = MergeOnto(patch)
    <3>1. MergeOnto(patch) # NoPolicy
      BY <2>1, PutFacts, PolicyFacts
    <3>2. Effective' = live'
      BY <2>7, <3>1 DEF Effective
    <3>3. cmd[c].expect = {Effective'}
      BY <2>5, <2>6, <2>7, <3>2
    <3> QED
      BY <1>3, <1>18, <2>4, <2>7, <3>3
  <2>8. CASE cmd' = End(c, "out of range")
    BY <1>3, <1>9, <2>8
  <2>9. CASE cmd' = End(c, "unknown")
    BY <1>3, <1>9, <2>9
  <2> QED
    BY <2>1, <2>7, <2>8, <2>9 DEF put_config
<1>22. CASE ApplyProfile(c)
  <2>1. /\ live # NoPolicy /\ cmd' = Answered(c) /\ h = "profile"
        /\ live' = for_profile(r.value) ++ live
    BY <1>22 DEF ApplyProfile, Serve, Reachable, At
  <2>2. t = <<"profile">> /\ r.set = "profile" /\ ~Written(c)
    BY <1>0, <1>1, <2>1, LeftFacts DEF Written, Toggles
  <2>3. cmd[c].expect = {live'}
    <3>1. cmd[c].expect = {Asked(Effective, r)} /\ Effective = live
      BY <1>4, <1>19, <2>1, <2>2 DEF Unmade
    <3>2. Asked(live, r) = Change(c) ++ live
      BY <1>0, <1>19, <2>1, <2>2, AskedIs DEF Clears
    <3>3. Change(c) = for_profile(r.value)
      BY <2>2 DEF Change
    <3> QED
      BY <2>1, <3>1, <3>2, <3>3
  <2>4. EngineKeys \subseteq DOMAIN live'
    BY <2>1 DEF ++, LiveInv
  <2>5. Effective' = live'
    BY <2>4, PolicyFacts DEF Effective
  <2>6. Len(t) = 1 /\ cmd[c].expect = {Effective'}
    BY <2>2, <2>3, <2>5, TupleFacts
  <2> QED
    BY <1>3, <1>18, <2>1, <2>6
<1>23. CASE Reload(c)
  <2>1. h = "reload" /\ live # NoPolicy /\ reloading = Nobody
    BY <1>23 DEF Reload, Serve, Reachable, At
  <2>2. r.scope \in Layers /\ r.set \in {"categories", "threshold", "entity", "ml"}
    BY <1>0, <1>1, <2>1, LeftFacts
  <2>3. Written(c) /\ Made(c)
    BY <1>4, <2>1, <2>2 DEF Written
  <2>4. load(files) # NoPolicy
    BY <2>3 DEF Made
  <2>5. /\ live' = Reloaded(load(files)) /\ reloading' = c /\ cmd' = Disturb(c)
        /\ UNCHANGED <<files, port>>
    BY <1>23, <2>4 DEF Reload
  <2>6. cmd'[c] = cmd[c]
    BY <2>5, HoldActs
  <2>7. Written(c)'
    BY <1>10, <2>1, <2>2, <2>6
  <2>8. /\ live' # NoPolicy /\ live'["enabled"] = live["enabled"] /\ live'["ml"] = live["ml"]
    BY <2>4, <2>5, ReloadedFacts
  <2>9. Reloaded(load(files))' = live'
    BY <2>5, <2>8 DEF Reloaded
  <2>10. cmd[c].expect = {IF r.set \in Toggles THEN Asked(live', r) ELSE live'}
    BY <2>1, <2>2, <2>3, <2>5 DEF Made, Toggles
  <2>11. Made(c)'
    BY <1>3, <2>4, <2>5, <2>8, <2>9, <2>10 DEF Made
  <2> QED
    BY <1>1, <1>3, <1>6, <2>5, <2>6, <2>7, <2>11
<1>24. CASE ReloadBroker(c)
  <2>1. h = "reload" /\ live # NoPolicy /\ reloading = c /\ reloading' = Nobody
        /\ cmd' = Answered(c) /\ UNCHANGED <<files, live, port>>
    BY <1>24, NameAssumption DEF ReloadBroker, ReloadInv, At
  <2>2. /\ r.scope \in Layers
        /\ \/ t = <<"reload">> /\ r.set \in {"categories", "threshold", "entity"}
           \/ t = <<"reload", "ml">> /\ r.set = "ml"
    BY <1>0, <1>1, <2>1, LeftFacts
  <2>3. Written(c) /\ Made(c)
    BY <1>4, <2>1, <2>2 DEF Written
  <2>4. CASE t = <<"reload">> /\ r.set \in {"categories", "threshold", "entity"}
    <3>1. cmd[c].expect = {live}
      BY <2>1, <2>3, <2>4 DEF Made, Toggles
    <3>2. Effective' = live
      BY <2>1 DEF Effective
    <3>3. Len(t) = 1 /\ cmd[c].expect = {Effective'}
      BY <2>4, <3>1, <3>2, TupleFacts
    <3> QED
      BY <1>3, <1>18, <2>1, <3>3
  <2>5. CASE t = <<"reload", "ml">> /\ r.set = "ml"
    <3>1. /\ cmd'[c].todo = <<"ml">> /\ cmd'[c].result = cmd[c].result
          /\ cmd'[c].port = cmd[c].port
      <4>1. Len(t) = 2 /\ Tail(t) = <<"ml">>
        BY <2>5, TupleFacts
      <4>2. Len(t) # 1 => /\ cmd'[c].todo = Tail(t) /\ cmd'[c].result = cmd[c].result
                          /\ cmd'[c].port = cmd[c].port
        BY <1>1, <2>1, AnsweredActs
      <4>3. Len(t) # 1
        BY <4>1
      <4> HIDE DEF t
      <4> QED
        BY <4>1, <4>2, <4>3
    <3>2. cmd'[c].todo # <<>> /\ Head(cmd'[c].todo) = "ml"
      BY <3>1, TupleFacts
    <3>3. Written(c)'
      BY <1>10, <2>2, <3>2 DEF Toggles
    <3>4. Made(c)'
      BY <1>3, <2>1, <2>3, <3>2, NameAssumption, KeptMade
    <3> QED
      BY <1>3, <1>6, <2>1, <3>1, <3>2, <3>3, <3>4
  <2> QED
    BY <2>2, <2>4, <2>5
<1> HIDE DEF r, t, h, good
<1> QED
  BY <1>3, <1>11, <1>12, <1>13, <1>14, <1>15, <1>16, <1>17, <1>20, <1>21, <1>22, <1>23, <1>24
     DEF Step, Begin

\* A command that begins alone, with the proxy in step with its files.
LEMMA BeginStands ==
    ASSUME TypeInv, PolicyFollows, NEW c \in Clis, NEW r \in Requests, Begin(c, r),
           cmd'[c].expect # {}
    PROVE  Undisturbed(c)'
<1> USE DEF TypeInv
<1>1. /\ cmd'[c].req = r /\ cmd'[c].todo = Steps(r) /\ cmd'[c].result = "none"
      /\ cmd'[c].port = port /\ cmd'[c].expect = Expected(r)
      /\ \A d \in Clis \ {c} : cmd'[d] = Disturb(c)[d]
  BY BeginCmds
<1>2. UNCHANGED <<files, live, port>>
  BY DEF Begin
<1>3. /\ \A d \in Clis : cmd[d] = NoCommand
      /\ load(files) # NoPolicy /\ NothingLater(r)
      /\ live # NoPolicy => ghost.overlay = {} /\ ~ghost.unread
      /\ Expected(r) = {Asked(Effective, r)}
  BY <1>1 DEF Expected, NothingLater
<1>4. \A d \in Clis \ {c} : cmd'[d] = NoCommand
  <2> SUFFICES ASSUME NEW d \in Clis \ {c}
               PROVE  cmd'[d] = NoCommand
    OBVIOUS
  <2>1. d \in Clis /\ cmd[d] = NoCommand
    BY <1>3
  <2>2. Disturb(c)[d] = cmd[d]
    BY <2>1, DisturbFacts
  <2> QED
    BY <1>1, <2>1, <2>2
<1>5. ASSUME live # NoPolicy
      PROVE  live = Reloaded(load(files))
  <2> DEFINE p == load(files)
             g == Reloaded(p)
             S == {"enabled", "ml"}
  <2>1. Agree(live, p, S)
    BY <1>3, <1>5 DEF PolicyFollows
  <2>2. IsFcn(live) /\ EngineKeys \subseteq DOMAIN live /\ EngineKeys \subseteq DOMAIN p
        /\ S \subseteq EngineKeys
    BY <1>3, <1>5, LoadFacts DEF LiveInv, EngineKeys
  <2>3. /\ DOMAIN g = DOMAIN p /\ IsFcn(g)
        /\ g["enabled"] = live["enabled"] /\ g["ml"] = live["ml"]
        /\ \A k \in DOMAIN p \ {"enabled", "ml"} : g[k] = p[k]
    BY <1>3, ReloadedFacts
  <2> HIDE DEF p, g
  <2>4. DOMAIN live = DOMAIN p /\ \A k \in DOMAIN p \ S : live[k] = p[k]
    BY <2>1, <2>2 DEF Agree
  <2>5. \A k \in DOMAIN live : live[k] = g[k]
    BY <2>3, <2>4
  <2>6. live = g
    BY <2>2, <2>3, <2>4, <2>5, FcnEqual
  <2> QED
    BY <2>6 DEF g, p
<1> DEFINE h == Head(Steps(r))
<1>6. /\ Steps(r) # <<>> /\ h \notin {"put", "write", "reload"}
      /\ r.set # "profile" /\ r.scope \in Layers => h \in {"base", "read"}
      /\ r.set = "profile" => h = "route"
      /\ r.set = "categories" => h = "base"
      /\ h = "patch" => ~Clears(r)
  BY FirstSteps
<1> HIDE DEF h
<1>7. ~Written(c)'
  BY <1>1, <1>6 DEF Written, Toggles, h
<1>8. /\ InStep' /\ NothingLater(r)' /\ Effective' = Effective
  BY <1>2, <1>3, <1>5 DEF InStep, NothingLater, Effective, Reloaded
<1>9. Unmade(c)'
  <2>1. Head(cmd'[c].todo) = h
    BY <1>1 DEF h
  <2>2. NothingLater(cmd[c].req)' /\ cmd'[c].expect = {Asked(Effective', cmd'[c].req)}
    BY <1>1, <1>3, <1>8
  <2> QED
    BY <1>1, <1>6, <1>8, <2>1, <2>2 DEF Unmade
<1> QED
  BY <1>1, <1>2, <1>4, <1>6, <1>7, <1>9 DEF Undisturbed

LEMMA AskStep ==
    ASSUME TypeInv, PolicyFollows, AskInv, [EditsNext]_editVars
    PROVE  AskInv'
<1> USE DEF TypeInv
<1> SUFFICES ASSUME NEW c \in Clis, cmd'[c] # NoCommand, cmd'[c].expect # {}
             PROVE  Undisturbed(c)'
  BY DEF AskInv
<1>1. CASE Step(c) /\ cmd[c] = NoCommand
  <2>1. \E r \in Requests : Begin(c, r)
    BY <1>1, NoCommandFacts, NameAssumption DEF Step, Refuse, Base, ReadFile, WriteFile, Route,
       SetEnabled, SetMl, Fetch, PutWhole, PutPatch, ApplyProfile, Reload, ReloadBroker, Fail,
       Exit, Serve, At, ReloadInv
  <2> QED
    BY <2>1, BeginStands
<1>2. CASE Step(c) /\ cmd[c] # NoCommand
  <2>1. ~Exit(c)
    BY ExitCmds
  <2>2. Acts(c)
    BY <1>2, <2>1, StepKinds DEF Begin
  <2>3. cmd[c].expect # {}
    BY <2>2 DEF Acts
  <2>4. Undisturbed(c)
    BY <1>2, <2>3 DEF AskInv
  <2> QED
    BY <1>2, <2>1, <2>3, <2>4, OwnStep
<1>3. CASE OthersAct(c)
  BY <1>3, OthersDisturb
<1>4. CASE Stop /\ reloading = c
  BY <1>4, Interrupted
<1>5. CASE \E d \in Clis \ {c} : Exit(d)
  <2>1. PICK d \in Clis \ {c} : Exit(d)
    BY <1>5
  <2>2. cmd'[c] = cmd[c] /\ cmd[d] # NoCommand
    BY <2>1, ExitCmds DEF Exit
  <2>3. Undisturbed(c)
    BY <2>2 DEF AskInv
  <2> QED
    BY <2>1, <2>2, <2>3 DEF Undisturbed
<1>6. CASE UNCHANGED editVars
  <2>1. UNCHANGED <<files, live, port, reloading, cmd>>
    BY <1>6 DEF editVars, vars
  <2>2. Undisturbed(c)
    BY <2>1 DEF AskInv
  <2>3. InStep' = InStep /\ Effective' = Effective
    BY <2>1 DEF InStep, Effective, Reloaded
  <2>4. Unmade(c)' = Unmade(c)
    BY <2>1, <2>3 DEF Unmade, NothingLater
  <2>5. Made(c)' = Made(c)
    BY <2>1 DEF Made, Reloaded
  <2> QED
    BY <2>1, <2>2, <2>3, <2>4, <2>5 DEF Undisturbed, Written
<1> QED
  BY <1>1, <1>2, <1>3, <1>4, <1>5, <1>6, ForOne

(***************************************************************************)
(* Whatever commands came before, and whatever the files hold: a command   *)
(* that nothing disturbed while it ran, and that says it is done, has led  *)
(* to the policy that was asked for, whether it went through the proxy or  *)
(* through a file alone.  Until it writes, what it has read is still what  *)
(* it read (Unmade); once it has written, a reload of the files, or the    *)
(* post of the switch, is what is asked (Made).                            *)
(***************************************************************************)
THEOREM AsAsked == EditsSpec => []CommandsDoWhatTheySay
<1> DEFINE Inv == TypeInv /\ PolicyFollows /\ AskInv
<1>1. EditsInit => Inv
  <2>1. EditsInit => live = NoPolicy /\ \A c \in Clis : cmd[c] = NoCommand
    BY DEF EditsInit, Init
  <2> QED
    BY <2>1, TypeInit DEF PolicyFollows, AskInv
<1>2. Inv /\ [EditsNext]_editVars => Inv'
  BY TypeStep, PolicyStep, AskStep
<1>3. Inv => CommandsDoWhatTheySay
  <2> SUFFICES ASSUME Inv, NEW c \in Clis, cmd[c].result \in {"session", "applied", "saved"},
                      cmd[c].expect # {}
               PROVE  cmd[c].expect \subseteq {Effective}
    BY DEF CommandsDoWhatTheySay
  <2>1. Undisturbed(c)
    BY NoCommandFacts DEF AskInv
  <2> QED
    BY <2>1 DEF Undisturbed
<1> QED
  BY <1>1, <1>2, <1>3, PTL DEF EditsSpec

=============================================================================
