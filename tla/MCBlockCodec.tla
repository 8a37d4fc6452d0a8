---------------------------- MODULE MCBlockCodec ----------------------------
(* TLC instances of BlockCodec: bytes of two bits, blocks of up to five.    *)
EXTENDS BlockCodec

BlocksOf(lengths) == UNION {[1 .. l -> Bytes] : l \in lengths}

\* every block of up to four bytes alone; files of two blocks, the second one
\* longer or shorter than the first; one file of three
SomeFiles ==
  {<<b>> : b \in BlocksOf(1 .. 4)}
    \cup {<<b, c>> : b \in {<<3, 0, 3, 1, 3>>, <<2>>, <<0, 1, 2, 3>>}, c \in BlocksOf(1 .. 3)}
    \cup {<<<<1, 1, 2, 0, 2>>, <<3, 3, 3>>, <<0, 3, 0, 3, 3>>>>}

FewFiles == {<<b>> : b \in BlocksOf(1 .. 3)}

SomeReferences == {{}, {0, 1}, {1, 2, 3}}
NoReference == {{}}
BothKeys == {"right", "wrong"}

\* a stand-in for SHA-256, different for the two keys
TestDigest(k, nonce, counter) ==
  [b \in 1 .. DigestBytes |->
     IF k = "right" THEN (nonce * b + nonce \div (2 + b) + 3 * counter + b) % 4
                    ELSE (nonce * nonce + nonce \div b + counter + 2 * b) % 4]
=============================================================================
