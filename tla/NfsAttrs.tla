------------------------------ MODULE NfsAttrs ------------------------------
(***************************************************************************)
(* Attribute bitmaps and values (nfs4/attrs.ts).  A bitmap is a sequence   *)
(* of words, a word the set of its bits; of the values only the size       *)
(* depends on the node.                                                    *)
(***************************************************************************)
LOCAL INSTANCE Integers
LOCAL INSTANCE FiniteSets
LOCAL INSTANCE FiniteSetsExt

CONSTANTS
  WordBits,    \* bits of a word, 32 in the code
  Supported,   \* SUPPORTED_ATTRS
  Size,        \* FATTR4.SIZE
  RdattrError  \* FATTR4.RDATTR_ERROR

\* readBitmap.
ReadBitmap(words) ==
  UNION {{(i - 1) * WordBits + b : b \in words[i]} : i \in DOMAIN words}

\* The words writeBitmap needs: none behind the last attribute.
Words(attrs) == IF attrs = {} THEN 0 ELSE Max(attrs) \div WordBits + 1

\* writeBitmap.
WriteBitmap(attrs) ==
  [i \in 1 .. Words(attrs) |->
     {b \in 0 .. WordBits - 1 : (i - 1) * WordBits + b \in attrs}]

SupportedOf(attrs) == attrs \cap Supported

\* encodeAttrValues.
Values(attrs, size) == [a \in attrs |-> IF a = Size THEN size ELSE 0]
=============================================================================
