------------------------------ MODULE Protocol ------------------------------
(***************************************************************************)
(* The packets of game_header.h, by their sizes: its structures are packed  *)
(* without gaps, the first byte of a packet is its size, the second its    *)
(* type. Which packets the server and the two clients send, and what the   *)
(* direction in a cs_packet_move means to the three of them.               *)
(***************************************************************************)
EXTENDS Integers

Char == 1
Short == 2
Int32 == 4
LongLong == 8
SCharMax == 127       (* the largest value of a char                        *)
UCharMax == 255       (* and of an unsigned char                            *)

MAX_CHAT_LENGTH == 200
MAX_ID_LENGTH == 20
BUF_SIZE == 300

Header == Char + Char
WithId == Header + LongLong

sc_packet_avatar_info == WithId + 2 * Short + Short + 4 * Int32
sc_packet_move == WithId + 2 * Short + LongLong
sc_packet_enter == WithId + MAX_ID_LENGTH * Char + Char + 2 * Short + 2 * Int32
sc_packet_leave == WithId
sc_packet_chat == WithId + MAX_CHAT_LENGTH * Char
sc_packet_stat_change == WithId + 2 * Int32 + Short + 2 * Int32
sc_packet_login_fail == WithId + Char

cs_packet_login == Header + MAX_ID_LENGTH * Char
cs_packet_move == Header + Char + LongLong
cs_packet_attack == Header
cs_packet_chat == Header + MAX_CHAT_LENGTH * Char
cs_packet_teleport == Header

-----------------------------------------------------------------------------
(* The sizes a session sends, one operator for each of its functions.       *)

send_avatar_packet == {sc_packet_avatar_info}
send_login_fail_packet == {sc_packet_login_fail}
send_move_packet == {sc_packet_move}
send_enter_packet == {sc_packet_enter}
send_leave_packet == {sc_packet_leave}
send_stat_change_packet == {sc_packet_stat_change}

(* The text and its final zero take the place of the whole array; a text    *)
(* that does not fit is not sent.                                           *)
ChatTextFits(length) == length <= MAX_CHAT_LENGTH - 1
ChatSize(length) == sc_packet_chat - MAX_CHAT_LENGTH + length + 1
send_chat_packet(length) == IF ChatTextFits(length) THEN {ChatSize(length)} ELSE {}

(* The texts: their fixed parts, with numbers and names of any length.      *)
Number == 1..11
Name == 0..(MAX_ID_LENGTH - 1)
DefeatedText == {30 + n : n \in Number}
DamageText == {32 + n + m : n \in Number, m \in Name}
HealText == {19 + n : n \in Number}
HitText == {22 + n + m : n \in Number, m \in Name}
Texts == DefeatedText \cup DamageText \cup HealText \cup HitText

SentDown ==
  send_avatar_packet \cup send_login_fail_packet \cup send_move_packet
    \cup send_enter_packet \cup send_leave_packet \cup send_stat_change_packet
    \cup UNION {send_chat_packet(length) : length \in Texts}

(* The client logs in, moves and attacks, the load generator logs in and    *)
(* moves. Nobody chats or teleports.                                        *)
LoginUp == {cs_packet_login}
DummyUp == {cs_packet_login, cs_packet_move}
KeysUp == {cs_packet_move, cs_packet_attack}
SentUp == LoginUp \cup DummyUp \cup KeysUp

-----------------------------------------------------------------------------
(* The direction keys of the client, the directions the load generator      *)
(* draws, and the step the server makes of a direction.                     *)

Direction(key) ==
  CASE key = "Up" -> 0 [] key = "Down" -> 1 [] key = "Left" -> 2 [] key = "Right" -> 3
DirectionKeys == {"Up", "Down", "Left", "Right"}

DrawnDirections == 0..3

StepOf(direction) ==
  CASE direction = 0 -> <<0, -1>>
    [] direction = 1 -> <<0, 1>>
    [] direction = 2 -> <<-1, 0>>
    [] direction = 3 -> <<1, 0>>
    [] OTHER         -> <<0, 0>>

=============================================================================
