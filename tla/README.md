# Verification of the Kelmac backend

TLA+ models, TLC model checking and TLAPS proofs for the course-selling back end
in `src/` (NestJS services over MongoDB through mongoose, Stripe for the money).

## The program

A controller hands each HTTP call to a service method, an `async` function that
runs uninterrupted from one `await` to the next; any number of calls interleave
at their awaits. All state lives in MongoDB. Nothing uses a transaction or a lock,
so the unit of atomicity is one database operation: `findByIdAndUpdate`, a
`create`, or `document.save()`, which writes only the paths changed since the
document was loaded, turns `array.push` into an atomic `$push`, and throws when the
document is gone. Reads go stale at the next await. A crash loses every call in
flight and leaves the database as it is; nothing resumes a call.

| Component | State | Operations that change it | What makes it hard |
|---|---|---|---|
| Payments (`payment/`) | payment documents, PaymentIntents at Stripe | createPayment, confirmPayment, refundPayment | eight awaits between the duplicate check and the save of SUCCEEDED; Stripe answers lost; crashes; overlapping refunds |
| Stripe gateway (`stripe/`) | PaymentIntents | the `stripe/*` routes | they cancel and refund intents that payments record, and no payment hears of it |
| Bookings (`booking/`) | booking documents | create, update, remove; confirmed by payments, set back by purchase orders | check-then-insert; a booking deleted or changed while a payment holds it |
| Purchase orders (`purchaseOrder/`) | order documents | create, update, remove | approval that fails half way |
| Class schedule helper (`utils/class-schedule/`) | class schedules | addStudentToSchedule | find-then-create, stale check before a push |
| Attendance (`attendance/`) | attendance rows, ClassLeftList of the schedule, pass/fail records | create, bulkMark, update, remove, checkPassFailStatus, approvePassFailStatus | a loop of reads and writes that can fail in the middle; stale arrays and records written back |
| Assignments (`assigment/`) | assignments, pass/fail records of their own | create, checkPassFailStatus, approvePassFailStatus | the same stale write-back |
| Authentication (`auth/`, `session/`, `auth-*/`) | sessions with a hash; mailed links | login, social login, register, confirm, forgot, reset, refresh, logout, update | whole user documents written back as they were read; refresh against refresh, logout and reset; letters that never arrive |
| Users (`users/`) | user documents | create, update, remove, seed | a hash that is hashed again, an address taken in between |
| Class schedules (`classSchedule/`) | class schedules | create, update, updateUserStatus, remove, joinClass, checkSchedule | duplicate checks no index backs; stale status |
| Corporate schedules, booking lists (`corporate/`, `bookinglist/`) | accounts, booking lists, payments, orders, seats | create; update and remove of lists | a call of many writes that fails half way |
| Courses and categories (`course/`, `category/`) | courses, categories with subcategories, slugs | create, update, remove of both, seeds | check-then-act on slugs, arrays spliced and written back, seeds that die half way |
| Student grades (`student-item-Grade/`, `assessment-Items/`) | items, grades | create, update, remove, upsert loop, two verdicts | rounding at the threshold, two reads for one verdict |
| Feedback (`feedback-Question/`, `feedback-answer/`) | questions, sheets | create, update, remove | a class read before the insert |
| Notifications (`notification/`) | notifications, rooms of sockets | create and push, read one or all, remove | receivers added and readers pushed while others hold the document |
| Lists (`utils/mongoose-query-builder.ts`) | none | seventeen lists, page by page | a page and its count are two reads |
| Course hours (`course/`, `attendance/`) | none | the minutes of a time block, the classes of a session | midnight, change of the clocks, dates with a time of day |
| Certificates, enrollments, blog, bundle offers, enquiries, locations, files | one collection each | create, update, remove, upload, seed | a step that fails after the insert; an object and its record |
| Mail, response sanitizer, Google calendar, home, configuration | none of their own | | conversions and I/O |

Interactions: createPayment reads enrollments, writes payments, calls Stripe,
writes bookings and, through the helper, class schedules. Purchase orders write
bookings and call payments. Attendance reads and writes class schedules and
produces the pass/fail records that certificates depend on. The corporate flow creates users and
uses the class schedule helper, payments and purchase orders. Feedback reads the `ClassLeftList`
that attendance writes. Class schedules, grades and enrollments send notifications. Courses look up
categories.

What makes each component correct, in short: a sale takes and gives back only money that is
recorded and seats whoever paid; attendance keeps within the blocks of a session and ticks off
what was taught; a verdict is that of the rows or grades it was derived from, an approval names
its operator, a certificate is announced; an account is active only if confirmed, an ended
session stays ended, no call undoes another's change; what a company is told was done has been
done; a seed runs twice without harm; what was read stays read; a client who
pages through a list that only grows misses nobody.

The models form four systems: the sale of a course (`CourseSales`), its outcome
(`CourseOutcome`), the accounts (`Accounts`) and the campus, which is everything else
(`Campus`). Each composes its components over their common collections. Where a component
reads what one in another system writes, its module has an action for the writer: students
leave a class (`LeaveClass`) before feedback, a class schedule is removed under the payments.

## The sale of a course

### Modules

| Module | Models |
|---|---|
| `SalesStore` | the collections, the calls in flight, crash, the type invariant |
| `BookingService` | `booking/booking.services.ts`: create, update, remove |
| `ClassScheduleHelper` | `utils/class-schedule/class-schedule-helper.service.ts` as createPayment calls it; `ClassScheduleService.remove` |
| `PaymentService` | `payment/payment.service.ts`: createPayment, confirmPayment, refundPayment; `stripe/stripe.service.ts`; enrollments as far as payments read them |
| `PurchaseOrderService` | `purchaseOrder/purchase.services.ts`: create, update, remove |
| `StripeController` | the `stripe/*` routes over the same intents: open intents and sessions that the customer can pay and no document names, read, cancel, refund, the webhook that only logs |
| `CourseSales` | the composition, the properties, the refinement |
| `PaymentLedger` | the abstract specification of the payments |
| `MCCourseSales` | instances for TLC |
| `CourseSalesProofs`, `SeatProofs` | the theorems: shapes, payments and intents; seats and serial calls |

Each of the calls in `Request` is made at most once. `req[r]` is the handler of call
`r`: `pc` names the await it stands at, the other fields are the locals it still
needs. An action is the code between the completion of one database or Stripe call and
the completion of the next; calls that change nothing others can see (populating
references, reading courses and users, which nobody changes here) are merged into their
neighbours, and mail and notifications are left out where their errors are swallowed.
A document is named after the call that created it. `booking.save()` and `payment.save()`
write only what differs from the values read, which is what `read` and `was` remember.

Correspondence to createPayment: `CreatePayment` (duplicate check), `CheckEnrolled`,
`SavePending`, `StripeOpensIntent`/`StripeRefusesIntent`, `FindBookingToConfirm`,
`ConfirmBooking`, `FindSchedule`/`FindNoSchedule`, `PushSchedule`/`NewSchedule`,
`SaveSucceeded`, and the catch block `SaveFailed`.

Amounts are held in tenths of a cent so that the two roundings to cents are visible.
Database errors other than the ones named above are not modelled.

### Runs

| Run | Bounds | Shows |
|---|---|---|
| `Sales_all` | 3 calls, 1 student, every operation and every `stripe/*` route, `FairSpec`, no symmetry | shapes; a card payment recorded as settled has an intent of its amount behind it; every accepted call is answered |
| `Sales_money` | 4 calls, amounts of 0, 0.4 and 1 cent, price 2 cents, deleted bookings, intents opened, cancelled and refunded behind the payment, crashes | no payment loses the money its customer paid; what is recorded as refunded went back; the refinement of `PaymentLedger` |
| `Sales_seats` | 4 calls, 2 students, a listed and an unlisted session, crashes | whoever has a settled payment has a confirmed booking and a seat, though two overlapping payments may create schedules twice |
| `Sales_serial` | 5 calls one after the other, 2 students, refunds, deletions, enrollments, crashes | the checks before the writes keep one payment and one seat when calls do not overlap |
| `Sales_x_paidonce` | 3 calls | violated: two overlapping payments both settle |
| `Sales_x_approved` | 2 calls one after the other | violated: an order is approved and its course is not paid |

Four calls are enough for two overlapping payments over one booking plus a refund or a
confirmation, and for the ledger's history of booking, payment, refund and reopening; five
calls one after the other add a deletion or a second booking. `PaidStudentHasSeat` and
`PaidBookingIsConfirmed` exclude edits by hand and purchase orders, which are in `Sales_all`.
Symmetry over calls (and students) is used in safety runs only. Deadlock is not
checked: calls are bounded, so a behaviour may run out of them, and an idle server is
no error.

Fairness: `FairSpec` asks of every call in flight that its next step is eventually taken.
Node resumes every continuation whose promise has settled, and the database and Stripe
clients settle their promises with an answer or an error. Nothing is assumed of callers.

Where code and documentation disagree:

* `PaidOnce` (`Sales_x_paidonce`): two overlapping createPayment calls both settle; the check is
  made five awaits before the write and no index backs it. `Sales_serial` shows it is enough when
  calls do not overlap; it says nothing of the overlap. Nor does `SerialSeatedOnce`: two
  overlapping payments may leave two schedules of a course, or a student twice on one, which no
  text of the repository denies. `Sales_seats` shows that they leave nobody without a seat.
* `ApprovedIsPaid` (`Sales_x_approved`): "PO approved = payment succeeded"
  (`payment.service.ts:878`) and "If PO is approved, create payment and enrollment"
  (`purchase.services.ts:454`), but the payment lacks two fields its schema requires, `save()`
  throws, `update()` logs the error and the order stays approved. `UpdateOrder` therefore only
  changes the order, and `createPaymentFromPurchaseOrder` stores nothing.
* SUCCEEDED is recorded when the intent is opened, before the customer pays
  (`payment.service.ts:147`; `payment/README.md:208`). The models therefore call such a payment
  settled, not paid, and ask that a *paid* intent is recorded.
* Two overlapping partial refunds both reach Stripe (`payment.service.ts:637`,
  `payment/README.md:320`). `RefundIsBacked` is what is left: at least the amount recorded last
  and at most the charge went back.
* confirmPayment answers an error after SUCCEEDED was saved when `FRONTEND_DOMAIN` is not set
  (`payment.service.ts:324`): `SaveConfirmed` has both answers.
* createCheckout never stores anything: its payment fails validation.
* No payment creates an enrollment: handlePaymentSuccess has no caller, and the webhook only logs.
  `POST stripe/payment-intent` and `stripe/checkout-session` give the customer a client secret or
  a url and store nothing, so what is paid there is on no record of the database. The model has
  these intents (`Opens`), the ledger has them without an entry, and `PaidIsRecorded` leaves them
  out by name (`OnRecord`): it is about the intents of payments.
* A refund below half a cent, which rounds to zero, is a full refund at Stripe (`RefundedCents`).

### Proofs

`TypeCorrect` proves the type invariant for every value of the constants that satisfies
`StoreAssumption`, one lemma per service. The money properties are not inductive: that a
settled payment is backed by an intent depends on what the call that will save SUCCEEDED
knows. `MoneyInv` adds that: `DocInv` for each payment with its intent, `CallInv` for each
call (createPayment owns its payment and intent until it answers; a refund or confirmation
holds a payment that stays settled or recorded). A step either leaves payments and intents
alone (`CallMove`) or changes them for one payment without taking back what other calls know
(`DocMove`); every action is one of the two. From `MoneyHolds` follow `SettledBackedHolds`,
`RefundBackedHolds`, `PaidRecordedHolds`, the action property `RecordedStays` and the
refinement `ImplementsLedger`, for which the twelve actions that touch payments or intents
(`MoneyAction`) are mapped to ledger steps and all others to stuttering. `MoneyInv` and
`RecordedStaysRecorded` are proved; no run repeats them.

`SeatInv` is the invariant of the seats, for calls without edits of bookings by hand
(`NoHandEdits`): whoever has a recorded payment is `Provided` for, and `SeatCall` says what each
call in flight still finds, step by step on createPayment's way from the booking it will confirm
to SUCCEEDED. It rests on `DocsGrow`: a booking keeps its student, course and session, a
schedule only gains seats, so nothing that a call found is taken from it. `SeatMove` is that
argument for one call, and `SeatsHold` gives `PaidStudentHasSeatHolds` and `PaidBookingHolds`.

For calls one after the other, `OneAtATime` (at most one call is in flight) is itself proved
invariant. `SerialSeatInv` adds that a course has at most one schedule and that a call about to
create one, or to push a student, is still right about what it read; `SerialPayInv` says the
same of a createPayment past its duplicate check. From them follow `SerialSeatedOnceHolds` and
`SerialPaidOnceHolds`. With these every safety property of the runs of the sale is proved.

## The outcome of a course

### Modules

| Module | Models |
|---|---|
| `OutcomeStore` | the collections, the calls in flight, crash, the type invariant |
| `AttendanceService` | `attendance/attendance.service.ts`: create, bulkMark, update, remove |
| `PassFail` | checkPassFailStatus and approvePassFailStatus of `attendance/` and `assigment/`, and `assigment/assigment.service.ts`: create |
| `CourseOutcome` | the composition, the properties, the refinement |
| `CertificateRegistry` | the abstract specification of the attendance records |
| `MCCourseOutcome` | instances for TLC |
| `CourseOutcomeProofs`, `OutcomeSerialProofs` | the theorems: shapes and certificates; serial calls |

The frame is that of the sale. The constants fix one course session: `Block` are its time
blocks, `Time` also has dates and times callers send that match no block, `Schedule` are its
class schedules. A loop over students keeps in `todo` what it still has to write; the order
of the students is left open, since the code takes it from the caller or from the order of
the rows. `checkRows`, `checkFind`, `checkSave` are the awaits of a check, `bulkLeft`,
`bulkFind`, `bulkCount`, `bulkInsert` those of bulkMark, `decideAnnounce`, `decideMail`,
`decideSave` those of an approval. Three details carry the behaviour:

* A check writes the approval and certificate fields back as it read them (`Rechecked`).
  mongoose drops a key that is undefined, so an approver that was never set is left as it is,
  while `null`, which a rejection writes, is written.
* The pass/fail records have a unique index, so the second of two concurrent creates fails and
  ends its check (`SaveRecord`). Attendance and assignment rows have none.
* Mail errors are swallowed by `MailerService`, but the notices sent beside the mail, and the
  reads around them, are database calls whose error is the answer (`Outage`): after an attendance
  row was inserted, in the middle of a loop, or before a decision is saved.

Records and assignment rows are never deleted. The assignment service's update and
markCertificateIssued have no caller. Counts, percentages, notes and dates in the records are
left out; what an attendance verdict needs of them is whether a row is absent.

### Runs

| Run | Bounds | Shows |
|---|---|---|
| `Outcome_records` | 4 calls that overlap, 2 students, every operation but bulkMark and the removal of the schedule, crashes and outages | shapes; approvals have an approver, issued certificates were announced |
| `Outcome_serial` | 4 calls one after the other, 2 students, 2 blocks, bulkMark, removals of rows and of the schedule, crashes and outages | the row limit, ticked blocks; a check leaves records current; the records implement `CertificateRegistry` |
| `Outcome_x_approval` | 4 calls, 1 student | violated: a check undoes an approval |

Two students are what a loop needs to fail in the middle. Mark, check, and a decision that
overlaps another check are four calls. Two blocks and three calls let a student reach the row
limit. About 500,000 states with overlap and a million one after the other, each under four
minutes. No property of the outcome is about liveness, so its specification has no fairness.

`Serial*` properties hold only when a call starts after the previous one has ended; the runs
they belong to set `Serial`. They fail when calls overlap: the checks they rest on are made
awaits before the writes, and only the pass/fail records have a unique index. So they do not
speak of the tick that is lost when two calls of bulkMark write a whole `ClassLeftList` back, of
rows that change while a check reads them, or of a status that turns to FAIL while an approval is
on its way: the code promises nothing there. `PATCH /attendance/:id`
may move a row anywhere, so the statements about rows assume it is not used.

Where code and comments disagree:

* `ApprovalIsKept` (`Outcome_x_approval`): a check that overlaps an approval undoes it, though
  the code means to preserve it. What does hold under every interleaving is
  `ApprovedHasApprover`.
* A certificate can be issued on a record that has become a FAIL since it was read
  (`attendance.service.ts:1144`; line 1213 says "Only PASS records can have certificates
  issued"). `SerialRegistry` shows the test suffices when calls do not overlap.
* A decision on an attendance record is saved and then answered with an error, because mapping
  the record reads `sessions[0]` of an id; the reads of the records throw for the same reason
  (`SaveDecision`, `RecordsNext`).

### Proofs

`OutcomeTypeCorrect` proves the type invariant for every value of the constants that
satisfies `OutcomeAssumption`. `IssuedIsAnnounced` and `ApprovedHasApprover` are not
inductive, since a check writes back what it read earlier: `CertificateInv` states them
(`RecordInv`) for every record and for the copy each check holds, and adds what a decision in
flight relies on (`CallInv`): its record exists, and a certificate about to be recorded is of
the attendance and has been announced. It works because nothing takes back a URL, an
announcement or the existence of a record; `RecordMove` is that argument, and every action is
shown to be such a move. `CertificateCorrect` is the invariant, `IssuedAnnounced` and
`ApprovalHasApprover` follow.

For calls one after the other, `OneAtATime` is proved as in the sale, and two invariants follow
the one call that is in flight. `MarkInv`: what a call that marks read of the rows and the list
of its schedule is still so (`MarkCall`), a row of a time block is ticked off (`Ticked`), and no
student has more rows than the limit (`Within`); that a set of rows is finite, and that an insert
adds one to it, needs `Block` finite. From it follow `SerialMarkedIsLeftHolds` and
`SerialWithinLimitHolds`. `VerdictInv`: a check owes everybody the verdict of the rows, in what it
has saved or in what it still has to (`Owed`), and a certificate is decided for a PASS
without one (`DecideCall`). From it follow `SerialCheckIsCurrentHolds` and the refinement
`SerialRegistryHolds`: saving a verdict, announcing and deciding are the registry's steps
(`SaveRefines`, `AnnounceRefines`, `DecisionRefines`), every other action stutters. With these every
safety property of the runs of the outcome that TLC confirms is proved.

## The accounts

### Modules

| Module | Models |
|---|---|
| `AccountStore` | users with their unique e-mail index, sessions, the mailed links, the calls in flight, crash |
| `UserService` | `users/users.service.ts`: create, update, remove, as the users desk and the other handlers call them; the repository's write of a whole document; the user seed |
| `AuthService` | `auth/auth.service.ts` with `session/` and `auth-google`, `auth-facebook`, `auth-apple`: login, social login, register, confirmEmail, confirmNewEmail, forgotPassword, resetPassword, update, refreshToken, logout |
| `Accounts` | the composition, the properties, the refinement |
| `SessionRegistry` | the abstract specification of the sessions |
| `MCAccounts` | instances for TLC |
| `AccountProofs` | the theorems |

Users and sessions are named after the call that creates them; the seeded user is there from the
start. A password's hash is named by what it is a hash of, and `"scrambled"` is the hash of a
hash, which no password matches. A link that was mailed can be followed at any later time, in
any order and more than once; `confirmLinks` and `resetLinks` hold which were sent. Two history
variables serve the properties alone: `followed`, whose confirmation link was followed or whose
status an operator set, and `moved`, whose provider an operator changed. A letter may
be lost (`"mailLost"`): `MailerService` swallows every error of the mail server, so the caller
is told that all is well. A link cannot be built when `FRONTEND_DOMAIN` is missing
(`"noDomain"`): then the call fails after the user was stored.

The behaviour is carried by three details. Most handlers read a user, await, and write back the
*whole* user (`Whole`), so what others changed meanwhile is undone; `findById` strips the
password, so that what is written back does not contain it. `update` hashes the password unless
it is the one read before, compared by value. And an update that names an address looks for it
first and meets the unique index later.

`POST users` takes a body with or without a password, with any provider and any social id
(`UserBody`): without a password the user is stored with none, under the provider of the body or
`email`. A `PATCH` changes provider and id alike (`patchProvider`).

Guards of the routes are used where they decide who may call; the users controller has its
guards commented out. Expiry of tokens, names, photos and company data are left out.

### Run

`Accounts_all`: 4 calls, of which 3 may overlap (`Overlapping`), 2 addresses, 2 passwords, one
social account, two roles, every operation, lost letters, links that cannot be built, crashes;
symmetric in calls, addresses and passwords. Under every interleaving: the types; a
self-registered account is active only if a confirmation link mailed for it was followed or an
operator set its status (`ActiveWasConfirmed`); the stored hash of a user who logs in by password is
of a password somebody chose, or absent if an operator gave none (`PasswordIsUsable`; it leaves out
users whose provider was changed, since what a social login wrote stays behind); the
sessions implement `SessionRegistry`: opened once, moved only to a hash nobody was given before,
never opened again. As long as no two calls have overlapped: whoever is answered with tokens holds
those the session is open for; a reset signs the user out everywhere and sets the password; a
call changes only what it is about. Registration, confirmation, login and a refresh in a row are
four calls; three that overlap are two that race over one document and one that changes it under
both. `Serial*` properties fail when calls overlap, because a whole document is written back, or
because resetPassword deletes the sessions *before* it stores the password: they do not speak of
the login in between, of the token an overlapped refresh answers, or of the change that a late
write takes back. `RegistrySpec` and the first two are what holds with overlap.

Where code and tests or documentation disagree:

* `PATCH /auth/me` with a password always fails, since the user it compares with has its password
  stripped; `test/user/auth.e2e-spec.ts` expects 200.
* An account whose confirmation letter was lost cannot be confirmed, and its address is taken: no
  route sends another link.
* confirmEmail and confirmNewEmail accept each other's links. Deleting a user leaves its
  sessions open (a refresh then fails when it reads the user).
* `mailer.service.ts` says "Re-throw the error so calling code can handle it" above a throw that
  is commented out.

### Proofs

`AccountsCorrect` proves `AccountInv`. What makes the properties non-inductive is the user that a
handler read and will write back. `Claims` says what each call may rely on: a status active
that it takes along was confirmed (the link of that user was followed, or no self-registered user
has or will have the name) unless an operator sets it; a hash that it sends again is that of a
social account, every other password is one somebody chose; a user about to be created is
inactive if it registered itself. `UserInv` is the same for the documents, `SessionInv` and
`Names` say that a session in use was opened, and for whom. They survive because a link that
was followed stays so, and a user's name is used once (`Spent`). Each handler is shown
to start with its claims and to keep them (`...Goes`), the writes one by one. `AccountTypes`,
`ActiveWasConfirmedHolds` and `PasswordIsUsableHolds` follow, and `SessionsAreRegistry` maps the
steps that open, rotate and end sessions to steps of `SessionRegistry`, all others to stuttering.

The three properties of calls that do not overlap need a second invariant, `LonelyInv`
(`LonelyAlways`), on top of the first. Until two calls have overlapped at most one is in flight
(`Alone`), so what a call has read stays so until it acts on it (`Relies`): a refresh finds its
session open, and what the whole document that is written back would change is what the
operation is about (`Fits`). A reset has ended every session of its user before it writes the
password (`ResetCall`); as a session that was never opened belongs to nobody (`SessionsNamed`),
the user is then signed out. `AnswerIsLiveHolds`, `ResetSignsOutHolds` and `NoLostUpdateHolds`
are each a step by step argument from `Relies`. They rest on one assumption about the constants:
the value that stands for "nobody" is not the name of the seeded user.

## The campus

### Modules

| Module | Models |
|---|---|
| `CampusStore` | the calls in flight, crash, which calls overlapped |
| `RosterStore` | class schedules, booking lists, accounts, payments and orders of companies |
| `ClassScheduleService` | `classSchedule/class-schedule.service.ts`: create, update, updateUserStatus, remove, joinClass, checkSchedule |
| `CorporateScheduleService` | `corporate/corporateSchedule.services.ts`: create, with the class schedule helper as it calls it; `bookinglist/`: update, remove |
| `Classroom` | both, composed, and their properties |
| `CatalogueStore`, `CategoryService`, `CourseService`, `Catalogue` | `category/` and `course/`: create, update, remove, subcategories, slugs; the two course seeds of `database/seeds/` |
| `CourseworkStore`, `GradeService`, `FeedbackService` | items and grades with both verdicts; questions and feedback sheets |
| `NotificationService` | `notification/` with its socket gateway |
| `QueryBuilder` | `utils/mongoose-query-builder.ts` and the lists that page by themselves, with a client that pages through one |
| `CourseHours` | the minutes of a time block, the hours of a course, the classes of a session |
| `RecordService` | certificates, enrollments, blog, bundle offers, enquiries, locations with their seed, uploaded files |
| `Campus` | the desks, side by side |
| `MCCampus` | instances for TLC |
| `DeskProofs` | the theorems about notifications, records, locations, grades, lists and hours |
| `CampusProofs` | the theorems about booking lists, class schedules, courses and categories; the desks composed; the types |

These components share no documents, so `Campus` does not multiply their states: in a behaviour
one desk is open (`desk`) and the others stay as they start. The frame is that of the other
systems: one action from the end of an await to the end of the next, documents named after the
call that created them, crashes that lose what is in flight. What the documents say is left out,
down to what a check or a property looks at: a category is its slug, its state and its
subcategories; a grade is a number of hundredths; a place in a list is its rank. Details that
carry the behaviour:

* A `PUT` of a schedule stores the students it is given, in a list that may name one twice, and
  may move the schedule to another course (`Put`); whom it seats is checked only if it names the
  course as well, and only against other schedules. `Reseats` are the ones that may seat a student
  twice.
* A seat is a `$push` after a check that no index backs (`PushStudent`, `PushSeat`); `create` with
  several students seats only the first, updateUserStatus changes nothing, GET check-schedule
  inserts at every call.
* The corporate request creates all its accounts at once (one failure is the answer while the
  others go through), then list, payment, seats and order; nothing is undone.
* `array.push` is atomic, `array.splice` writes the array back guarded by the version key
  (`SpliceTopic`). A `PATCH` that replaces the subcategories is a `findByIdAndUpdate`, which
  leaves the version as it is (`WriteCategory`), so a removal that read the list before overwrites
  it.
* The list of who has left a class is written back whole, as some call read it, or starts anew
  when the number of time blocks has changed: `LeaveClass` may make a complete list incomplete.
* The course counters of categories are looked up by a name that is an id, so they never move and
  are left out.
* A verdict is two reads. Percentages are rounded to two decimals before the comparison with 70.
* A notice whose reader list is read as `true || []` makes `findAllForUser` throw as soon as there
  is one (`FindAllForUser`).
* A list is a page and a count, at once or one after the other (`AtOnce`, `CountFirst`,
  `FindLast`); every list has its own sort, cap and default (`...List`) and its route a rule for
  what a caller may ask (`...Route`). The sort has no second key, and what it sorts by may be
  edited: documents change places between two reads (`Reorder`). The client starts at page 1 and
  follows `hasNextPage`.
* Days and hours are computed over local dates: a block within which the clocks change is `Drift`
  minutes longer or shorter.

### Runs

`Campus_all` opens every desk in turn: 3 calls, of which 2 may overlap, 2 students, titles,
items, classes, users and countries (the same two model values, symmetric), 2 sessions, one with
time blocks, schedules in the course or moved elsewhere, one topic, at most twice in the list of a
`PATCH`, marks of the items around the threshold (139.99 and 140.00 of 200, or of
nothing), at most 2 questions, 3 documents in a list, pages of up to 2 and page numbers up to 3,
clocks at midnight and full hours, blocks that begin and end up to eight hours apart, a change
of the clocks by an hour either way. About 1.2 million states, under four minutes. Two calls that
overlap show each check-then-write; the third call prepares what they race over. The lists have
their own environment, which inserts, deletes and reorders between any two reads.

| Property | Shows |
|---|---|
| `CampusTypeOK` | the shape of the documents |
| `CorporateAnswerIsKept` | a company that is told ok has its payment and seats, or its order and a pending list, though the helper swallows errors of its mails |
| `BookedOnce` | a student is on one booking list: the e-mail index suffices under overlap |
| `SerialSeatedOnce` | one seat per student and course while calls do not overlap, `Reseats` and the guest of check-schedule left out |
| `SubcategoriesKept` | a removal takes one topic off the list and nothing else, other pushes and removals beside it; no `PATCH` replaces the list |
| `SerialSeedsOnce` | seeds cut short and run again make no title twice |
| `SerialVerdictIsCurrent` | Pass and Fail are those of the grades and items as they are, up to the rounding |
| `SerialLocatedOnce` | the seed of the locations, cut short and run again, makes no second one of a country |
| `ReadersReceive`, `ReadStaysRead` | readers are receivers; what was read stays read, whoever else writes |
| `WalkMissesNobody` | a client who follows a list to its end has seen every document that was there when it began, whatever is inserted meanwhile, as long as none is deleted and none changes places with another (a tie, an edit of the sort field) |
| `HoursMatchTheCalendar`, `ClassesMatchTheCalendar` | minutes and classes agree with a reference that counts the calendar's days |

`Campus_x_inuse` (violated): a category that holds courses can be deleted, though the guard says
"Cannot delete category with existing courses. Please reassign or delete courses first."; the
counter it tests never moves.

Some of what the model shows is said by no property, because the code promises nothing there: two
overlapping creates seat a student twice (`SerialSeatedOnce` is about calls one after the other);
feedback may be stored for a class that has become incomplete since it was looked up; a verdict
may be of items and grades that were never on record together; the second of two courses with one
slug is refused by the index.

Other disagreements: the pricing seed creates no course (it gives a slug where an id is asked
for); `findByCategory` passes a slug to an id field and fails; PUT of a schedule that names its
course and current students always fails; a failed corporate request cannot be retried, its
accounts exist; a class without `ClassLeftList` counts as finished; the list of a course's
payments counts by a field payments do not have, so it has no pages; `limit=0` passes where a
list has no `@Min` and then there is always a next page; the two counts of a session's days, one
rounded up and one rounded down, disagree; a mail that fails after an enquiry was stored does
not reach the caller; update and removal of a missing certificate, enrollment or blog entry
answer 200 with nothing.

### Proofs

Each desk has a specification of its own, which `Campus` opens. The properties are first proved
of those (`NoticeSpec`, `RecordSpec`, `FeedbackSpec`, `GradeSpec`, `ListingSpec`, `HourSpec`,
`ClassroomSpec`, `CatalogueSpec`), for every set of documents and every finite set of calls.
`DesksAreSystems` then shows that `CampusSpec`, open at a desk, implements the specification of
that desk (at the lists and the hours because no call is ever in flight there that could crash,
`NoCalls`), and `DesksAreCorrect` carries every property the runs check of a desk over to it.

Notifications and records. `NoticeInv` (`NoticesCorrect`) says that readers are receivers and
what a call relies on: one that pushes holds receivers that are on record, one that saves a
reader found it among the receivers, and neither can be of a notification that is stored later
(`NoticeCall`). From it follow `ReadersReceiveHolds` and `ReadStaysReadHolds`. `FileInv`
(`RecordsCorrect`) says that a file on record has its object and that a call about to record one
has stored it (`RecordCall`); `FileOnRecordHolds` (proved, not run) follows. `LocatedInv` says that,
while calls do not overlap and no caller creates locations, no country has two and the seed is about
to store one that it found missing; `SerialLocatedOnceHolds` follows.

Booking lists. `RoomInv`
gives every call of the corporate desk the students it holds (`Held`): those whose accounts it
has created so far, as long as none was refused, and those on its booking list. Accounts are only
added, so what one call creates nobody else holds; `RoomMove` is that argument, `RoomAlways` the
invariant, and `BookedOnceHolds` follows.

Class schedules. `SeatingInv` (`SeatingAlways`) says of every call whom it has found without a
seat, or made an account for, and may still seat (`Unbooked`): until two calls have overlapped,
and as long as no `PUT` is one that `Reseats`, those have no seat, every schedule is in the
course, and everybody else has at most one. Seats are of accounts on record, so a student whose
account a company's call makes has none yet. That needs an assumption which the proof brought out,
and the model states: a `PUT` does not look its students up (`update`), but nobody can send the id
of an account before it is made. A schedule has the name of the call that makes it, so a call at
`createNew` or `seatNew` finds that name unused (`Unmade`). `SeatedOnceHolds` follows. For a
company's call the invariant also says what it has stored (`CompanyStored`): its payment before it
seats anybody, its order before its list is set to pending, and, while no call that rewrites or
deletes schedules has been made (`Undisturbed`), a seat for all but those it has yet to seat
(`Waiting`). So it can answer ok from three places only, and there `CompanyIsServed` and
`CompaniesAreServed` give `CorporateAnswerIsKeptHolds`, under every overlap and every crash.

What holds while calls do not overlap. `Alone` says that until two calls have overlapped at most
one is in flight. So whatever a call has read is still so when it acts on it: the handlers that
are in flight say what they have read (`GradeCall`, `CatalogueCall`), every other handler has
nothing to say. For the grades that is the items and, after the verdict, which of Pass and Fail
the marks on record call for. Sums are `MapThenSumSet`, a fold over `CHOOSE`; `SumsAgree`,
`SumsExist` and `SumsAreNatural` show that for a finite set it is a natural number, by the smallest
set that has none: `Nat` is well-founded, so no induction theorem with an operator parameter is
needed. `VerdictIsCurrent` then is arithmetic on the rounding.

Courses and categories. `CatalogueInv` (`CatalogueAlways`) is the shape of the documents, with
what a call in flight carries (`CatalogueCall`) and relies on. If nothing but seeds has run, one
after the other, the slug of a course on its way is that of its title, found free at the first
probe (`Unseeded`), and every course has the slug of its title and a title of its own (`Seeded`).
A removal of a subcategory holds a version and the list as it was then, so that as long as no
`PATCH` has replaced the list (`Relists`) and the category has that version, it still has that
list (`Spliced`). From it follow `CatalogueTyped`, `SeedsOnceHolds` and, by the version key and
therefore under overlap as well, `SubcategoriesKeptHolds`. The lemmas on `Without` say what
splicing one place out of a list does to its length and its elements.

Lists. `WalkInv` says that a client has seen every document that was there when it began and whose
rank is within the pages it has read (`SeenTo`), as long as none went away or changed places
(`Quietly`). What is inserted only moves others to a higher rank (`RankGrows`), so none slips back
onto a page that was read; at the last page the count, or the page itself, bounds the ranks
(`RankBounds`). `WalkMissesNobodyHolds` follows for every size of page and list, every cap, and
both orders of reading page and count.

Hours. `HourInv` compares the sums block by block; `CountsOfBlock` is the arithmetic of one block,
`WholeDays` and `ClockChanges` what a rounding down makes of a day that is up to an hour longer
or shorter. `HoursMatch` and `ClassesMatch` follow.

The shape of all documents. `CampusTypes` proves `CampusTypeOK` of `CampusSpec`: a closed desk
keeps its documents (`ClosedDesks`, `ClosedTypes`), the open one keeps its types. A notification
counts a reader at most once for each call that is past its save (`Settled`, `ReadBound`), so
never more often than there are calls, which is why `Request` is assumed to be finite. A client's
page number stays within what it may ask for (`WalkTypeInv`), which needs at least one page to be
asked for (`MaxAsked > 0`). What a feedback call carries is typed (`FeedbackInv`,
`FeedbackTypeInv`).

## What is only model-checked, and what is not modelled

Only model-checked: the liveness of the sale, `EveryCallEnds` (out of the prover's reach, like
ENABLED). Every other property that a passing run checks is also a theorem. No module uses a
recursive operator. The inductive invariants (`MoneyInv`, `SeatInv`, `SerialSeatInv`,
`SerialPayInv`, `CertificateInv`, `MarkInv`, `VerdictInv`, `AccountInv`, `LonelyInv`, `NoticeInv`,
`ReadBound`, `FileInv`, `LocatedInv`, `GradeInv`, `FeedbackInv`, `FeedbackTypeInv`, `RoomInv`,
`SeatingInv`, `CatalogueInv`, `WalkInv`, `WalkTypeInv`, `HourInv`) are proved; the runs check what
follows from them.

Not modelled: errors of the database itself, other than unique indexes, documents that have
gone and the outages named above; expiry of tokens; edits of the time blocks of a session, and
rows moved between courses, while it is taught; what mails and notifications say; validation of
request bodies and authorization of routes, except where a handler's outcome depends on them.

* Mail: the letters with a link are in `AuthService`; the others are text that is sent after
  everything is stored and whose errors are swallowed.
* Response sanitizer (`utils/convert-id.ts`): a pure conversion of answers no service reads.
* Google calendar: no service calls it. Home: counts that are shown and stored nowhere.
* Configuration, bootstrap, i18n, relational persistence (not wired): settings and plumbing.
* Lists by filter: a filter is whether a document matches. `infinityPagination` has no caller.

## Plan

What would come next, in this order:

1. The properties of the desks as theorems of `CampusSpec` without naming the desk that is open:
   a closed desk satisfies its properties too, since nothing moves there.
2. One system of sale and accounts, to ask what deleting a user leaves behind.
