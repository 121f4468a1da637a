--------------------------- MODULE EffectContext ---------------------------
(***************************************************************************)
(* FAuraGameplayEffectContext, which goes with an effect from the server   *)
(* to the clients.  A context gives each field a number; 0 is the value a  *)
(* field has in a new context: not valid, empty, FALSE, zero.  A field of  *)
(* another value has a bit in front of the message and its value behind,   *)
(* in the order of Fields.                                                 *)
(***************************************************************************)
EXTENDS Naturals, Sequences, FiniteSets, SequencesExt

Fields == <<"Instigator", "EffectCauser", "AbilityCDO", "SourceObject", "Actors", "HitResult",
    "WorldOrigin", "bIsBlockedHit", "bIsCriticalHit", "bIsSuccessfulDebuff", "DebuffDamage",
    "DebuffDuration", "DebuffFrequency", "DamageType", "DeathImpulse", "KnockbackForce",
    "bIsRadialDamage", "RadialDamageInnerRadius", "RadialDamageOuterRadius",
    "RadialDamageOrigin">>

RadialFields == {"RadialDamageInnerRadius", "RadialDamageOuterRadius", "RadialDamageOrigin"}

NewContext == [f \in ToSet(Fields) |-> 0]

\* What the library's getters return for a field.
Get(ctx, f) == ctx[f]

\* The fields whose bit is set by the writer.
RepBits(ctx) ==
    {f \in ToSet(Fields) : ctx[f] > 0 /\ (f \in RadialFields => ctx["bIsRadialDamage"] > 0)}

\* Of them, SerializeBits sends 19.  Variant: 18, as if nothing had been added last.
FewerBits(bits) == bits \cap ToSet(SubSeq(Fields, 1, 18))
SentBits(bits) == bits \cap ToSet(SubSeq(Fields, 1, 19))

\* Values go in the order of Fields: the place of a field's among those of others.
Index == [f \in ToSet(Fields) |-> CHOOSE i \in DOMAIN Fields : Fields[i] = f]
Place(f, fields) == Cardinality({g \in fields : Index[g] <= Index[f]})

\* The writer goes by all of its bits, the reader by those it was sent.
Written(ctx) ==
    LET bits == RepBits(ctx) IN
    [bits   |-> SentBits(bits),
     values |-> [i \in 1..Cardinality(bits) |-> ctx[CHOOSE f \in bits : Place(f, bits) = i]]]

Read(msg) == [f \in ToSet(Fields) |-> IF f \in msg.bits THEN msg.values[Place(f, msg.bits)] ELSE 0]

\* What the reader leaves in the stream for whatever is read next.
Unread(msg) == Len(msg.values) - Cardinality(msg.bits)
=============================================================================
