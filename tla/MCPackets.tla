----------------------------- MODULE MCPackets -----------------------------
(***************************************************************************)
(* Single SYNs with every option field of four bytes, and of eight, over a *)
(* few bytes: the end, padding, an MSS, its length, values above and below *)
(* the limits.  And batches of up to three packets of every kind: permitted*)
(* and denied, long and short, answers, fragments whose bytes look like a  *)
(* permitted port, IPv6.                                                   *)
(***************************************************************************)
EXTENDS Packets

MCPeers == {"me", "b", "x"}   \* x is no address of a peer
MCPorts == {22, 80, 4000}

NoOne == [p \in MCPorts |-> {}]
MCOutgoing == [known |-> {"me", "b"}, inbound |-> NoOne, outbound |-> {<<"b", 80>>}]
MCIncoming ==
  [known |-> {"me", "b"}, outbound |-> {},
   inbound |-> [NoOne EXCEPT ![80] =
     {[peers |-> {"me"}, cidrs |-> {}, expires |-> Never]}]]
MCSeeing == [today |-> 0, at |-> [p \in MCPeers |-> Unknown]]

Flow5(pr, s, d, sp, dp) ==
  [src |-> s, dst |-> d, sport |-> sp, dport |-> dp, proto |-> pr]

\* me's answer to what b has asked for.
MCReplies == {Flow5("tcp", "me", "b", 22, 4000)}

Fields(n, bytes) == {[i \in 1..n |-> f[i]] : f \in [1..n -> bytes]}
Options == Fields(4, {0, 1, 2, 4, 255}) \cup Fields(8, {1, 2, 4, 255})

Sent(o, r, syn) == [syn |-> syn, opts |-> o, rest |-> r, sum |-> ChecksumOf(o, r)]
Plain == Sent(<<>>, 1, FALSE)
Syn   == Sent(<<2, 4, 255, 255>>, 1, TRUE)

First1(k, seg, body) == <<HeadOf(TRUE, k, FALSE, <<k.sport, k.dport>>, seg)>> \o body
Later(k, there) == <<HeadOf(TRUE, k, TRUE, there, Plain), "f">>

call   == Flow5("tcp", "me", "b", 4000, 80)
ssh    == Flow5("udp", "me", "b", 4000, 22)
answer == Flow5("tcp", "me", "b", 22, 4000)
dns    == Flow5("udp", "me", "b", 4000, 80)
ping   == Flow5("icmp", "me", "b", 0, 0)
six    == Flow5("udp", "x", "x", 0, 0)

Kinds ==
  { First1(call, Syn, <<>>), First1(call, Plain, <<"a", "b">>),
    First1(ssh, Plain, <<"c">>), First1(answer, Plain, <<"d">>),
    First1(ping, Plain, <<>>), First1(dns, Plain, <<"e">>),
    Later(dns, <<4000, 80>>), Later(ssh, <<4000, 80>>),
    <<HeadOf(FALSE, six, FALSE, <<0, 0>>, Plain), "g">>, <<>> }

MCBatches ==
  UNION {[1..n -> Kinds] : n \in 1..3} \cup
  {<<First1(call, Sent(o, r, TRUE), <<>>)>> : o \in Options, r \in {1, 65535}} \cup
  {<<First1(call, Sent(o, 1, FALSE), <<>>)>> : o \in Fields(4, {0, 1, 2, 4, 255})}
=============================================================================
