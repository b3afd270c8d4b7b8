------------------------------- MODULE NtpTime -------------------------------
(***************************************************************************)
(* The time that getntp_recv() of src/picowwifi.cpp makes of the two       *)
(* timestamps in the answer of an NTP server, which have 32 bits of        *)
(* seconds since 1900 and 32 bits of fraction.                             *)
(***************************************************************************)
EXTENDS Integers

\* The fraction is cut to 11 bits: "close to millisecond resolution".
Ticks == 2048
Shifted(timestamp) == timestamp \div 2097152

\* "align the middle of server's recv-to-send time frame, with ours".
ServerMiddle(receive, transmit) == (Shifted(transmit) + Shifted(receive)) \div 2

\* Seconds from 1900 to 1970, in ticks; the difference is a uint64_t.
Offset == 2208988800 * Ticks
SinceEpoch(middle) == (middle - Offset) % 18446744073709551616

Bit(temp, value) == (temp \div value) % 2

\* The bits of the fraction in milliseconds, each of them rounded.
Fraction(temp) ==
  500 * Bit(temp, 1024) + 250 * Bit(temp, 512) + 125 * Bit(temp, 256)
  + 63 * Bit(temp, 128) + 31 * Bit(temp, 64) + 16 * Bit(temp, 32)
  + 8 * Bit(temp, 16) + 4 * Bit(temp, 8)

Milliseconds(t) == (t \div Ticks) * 1000 + Fraction(t % Ticks)

\* *ms_since_1970
MsSince1970(receive, transmit) ==
  Milliseconds(SinceEpoch(ServerMiddle(receive, transmit)))
=============================================================================
